----------------------------- MODULE JobProofs ------------------------------
(***************************************************************************)
(* Proofs about the jobs of a pod: the cache their inputs are downloaded   *)
(* into, batch inference from the command line, the metadata they write,   *)
(* and `argo sync`.                                                        *)
(***************************************************************************)
EXTENDS RunInference, InputCache, WorkflowMetadata, SequenceTheorems, FiniteSetTheorems,
        WellFoundedInduction, TLAPS

(* Lists.  The library has induction over the naturals as a theorem about  *)
(* operators; what its well-founded orders say of sets is enough to prove  *)
(* induction for a set of numbers, and from it what FlattenSeq computes.   *)

\* A set of numbers has a least one.
LEMMA HasLeast == ASSUME NEW T \in SUBSET Nat, T # {} PROVE \E x \in T : \A y \in T : x <= y
<1>1. PICK R : R = OpToRel(<, Nat)
  OBVIOUS
<1>2. IsWellFoundedOn(R, Nat)
  BY <1>1, NatLessThanWellFounded
<1>3. PICK x \in T : \A y \in T : ~(<<y, x>> \in R)
  BY <1>2, WFMin
<1>4. \A y \in T : y < x => <<y, x>> \in R
  BY <1>1 DEF OpToRel
<1>5. \A y \in T : ~(y < x) /\ y \in Nat /\ x \in Nat
  BY <1>3, <1>4
<1> QED BY <1>5

\* Induction, for a set of numbers.
LEMMA Induction ==
  ASSUME NEW S \in SUBSET Nat, 0 \in S, \A n \in S : n + 1 \in S PROVE \A n \in Nat : n \in S
<1> SUFFICES ASSUME Nat \ S # {} PROVE FALSE
  OBVIOUS
<1>1. PICK x \in Nat \ S : \A y \in Nat \ S : x <= y
  BY HasLeast
<1>2. x # 0 /\ x - 1 \in Nat /\ x - 1 \in S
  BY <1>1
<1> QED BY <1>1, <1>2

\* What FlattenSeq puts together, step by step.
Joins(F, s) == \A i \in 1 .. Len(s) : F[i] = IF i = 1 THEN s[i] ELSE F[i - 1] \o s[i]

\* All that is put together is a list of what the parts hold.
LEMMA JoinsAreLists ==
  ASSUME NEW U, NEW s \in Seq(Seq(U)), NEW F, Joins(F, s)
  PROVE  \A i \in 1 .. Len(s) : F[i] \in Seq(U)
<1> DEFINE S == {n \in Nat : n + 1 \in 1 .. Len(s) => F[n + 1] \in Seq(U)}
<1>1. 0 \in S
  BY DEF Joins
<1>2. ASSUME NEW n \in S PROVE n + 1 \in S
  <2>1. SUFFICES ASSUME n + 2 \in 1 .. Len(s) PROVE F[n + 2] \in Seq(U)
    BY <1>2
  <2>2. n + 1 \in 1 .. Len(s) /\ F[n + 1] \in Seq(U) /\ s[n + 2] \in Seq(U)
    BY <1>2, <2>1
  <2>3. n + 2 # 1 /\ (n + 2) - 1 = n + 1
    BY <1>2
  <2>4. F[n + 2] = F[n + 1] \o s[n + 2]
    BY <2>1, <2>3 DEF Joins
  <2> QED  BY <2>2, <2>4
<1>3. \A n \in Nat : n \in S
  <2> HIDE DEF S
  <2>1. S \subseteq Nat
    BY DEF S
  <2> QED  BY <1>1, <1>2, <2>1, Induction
<1> QED
  <2>1. ASSUME NEW i \in 1 .. Len(s) PROVE F[i] \in Seq(U)
    <3>1. i - 1 \in Nat /\ (i - 1) + 1 = i
      BY <2>1
    <3>2. i - 1 \in S
      BY <1>3, <3>1
    <3> QED  BY <2>1, <3>1, <3>2
  <2> QED  BY <2>1

\* FlattenSeq puts its parts together in order.
LEMMA Flattening ==
  ASSUME NEW U, NEW s \in Seq(Seq(U)), s # <<>>
  PROVE  \E F : Joins(F, s) /\ FlattenSeq(s) = F[Len(s)]
<1>0. Len(s) \in Nat \ {0}
  OBVIOUS
<1> DEFINE Upto(F, n) == F = [i \in 1 .. n |-> IF i = 1 THEN s[i] ELSE F[i - 1] \o s[i]]
           S == {n \in Nat : \E F : Upto(F, n + 1)}
<1>1. 0 \in S
  <2>1. PICK F : F = [i \in 1 .. 1 |-> s[i]]
    OBVIOUS
  <2>2. F = [i \in 1 .. 1 |-> IF i = 1 THEN s[i] ELSE F[i - 1] \o s[i]]
    BY <2>1
  <2>3. Upto(F, 0 + 1)
    BY <2>2
  <2> QED  BY <2>3
<1>2. ASSUME NEW n \in S PROVE n + 1 \in S
  <2>1. PICK F : Upto(F, n + 1)
    BY <1>2
  <2>2. PICK G : G = [i \in 1 .. n + 2 |-> IF i = n + 2 THEN F[n + 1] \o s[n + 2] ELSE F[i]]
    OBVIOUS
  <2>3. ASSUME NEW i \in 1 .. n + 2 PROVE G[i] = IF i = 1 THEN s[i] ELSE G[i - 1] \o s[i]
    <3>1. CASE i = n + 2
      <4>1. i # 1 /\ i - 1 = n + 1 /\ i - 1 \in 1 .. n + 2 /\ i - 1 # n + 2
        BY <1>2, <3>1
      <4> QED  BY <2>2, <3>1, <4>1
    <3>2. CASE i # n + 2 /\ i # 1
      <4>1. i \in 1 .. n + 1 /\ i - 1 \in 1 .. n + 2 /\ i - 1 # n + 2
        BY <1>2, <2>3, <3>2
      <4>2. F[i] = F[i - 1] \o s[i]
        BY <2>1, <3>2, <4>1
      <4> QED  BY <2>2, <3>2, <4>1, <4>2
    <3>3. CASE i = 1
      <4>1. i \in 1 .. n + 1 /\ i # n + 2
        BY <1>2, <3>3
      <4>2. F[i] = s[i]
        BY <2>1, <3>3, <4>1
      <4> QED  BY <2>2, <3>3, <4>1, <4>2
    <3> QED  BY <3>1, <3>2, <3>3
  <2>4. G = [i \in 1 .. n + 2 |-> IF i = 1 THEN s[i] ELSE G[i - 1] \o s[i]]
    BY <2>2, <2>3
  <2>5. Upto(G, (n + 1) + 1) /\ n + 1 \in Nat
    <3>1. (n + 1) + 1 = n + 2 /\ n + 1 \in Nat
      BY <1>2
    <3>2. PICK m : m = n + 2 /\ m = (n + 1) + 1
      BY <3>1
    <3>3. Upto(G, m)
      BY <2>4, <3>2
    <3> QED  BY <3>1, <3>2, <3>3
  <2> QED  BY <2>5
<1>3. Len(s) - 1 \in S
  <2>1. S \subseteq Nat
    OBVIOUS
  <2>2. \A n \in S : n + 1 \in S
    BY <1>2
  <2>3. \A n \in Nat : n \in S
    <3> HIDE DEF S
    <3> QED  BY <1>1, <2>1, <2>2, Induction
  <2> HIDE DEF S
  <2> QED  BY <1>0, <2>3
<1>4. \E F : F = [i \in 1 .. Len(s) |-> IF i = 1 THEN s[i] ELSE F[i - 1] \o s[i]]
  <2>1. (Len(s) - 1) + 1 = Len(s)
    BY <1>0
  <2> QED  BY <1>3, <2>1
<1>5. PICK G : G = CHOOSE F : F = [i \in 1 .. Len(s) |-> IF i = 1 THEN s[i] ELSE F[i - 1] \o s[i]]
  OBVIOUS
<1>6. G = [i \in 1 .. Len(s) |-> IF i = 1 THEN s[i] ELSE G[i - 1] \o s[i]]
  BY <1>4, <1>5
<1>7. FlattenSeq(s) = G[Len(s)]
  BY <1>0, <1>5 DEF FlattenSeq
<1>8. Joins(G, s)
  BY <1>6 DEF Joins
<1> QED  BY <1>7, <1>8

\* FlattenSeq leaves out nothing.
LEMMA FlatHas ==
  ASSUME NEW U, NEW s \in Seq(Seq(U)), NEW k \in 1 .. Len(s), NEW j \in 1 .. Len(s[k])
  PROVE  \E i \in 1 .. Len(FlattenSeq(s)) : FlattenSeq(s)[i] = s[k][j]
<1>1. s # <<>> /\ Len(s) \in Nat /\ k \in Nat /\ \A i \in 1 .. Len(s) : s[i] \in Seq(U)
  OBVIOUS
<1>2. PICK F : Joins(F, s) /\ FlattenSeq(s) = F[Len(s)]
  BY <1>1, Flattening
<1>3. \A i \in 1 .. Len(s) : F[i] \in Seq(U)
  BY <1>2, JoinsAreLists
<1>4. /\ 1 \in 1 .. Len(s) => F[1] = s[1]
      /\ \A i \in 1 .. Len(s) : i # 1 => F[i] = F[i - 1] \o s[i]
  BY <1>2 DEF Joins
<1>5. PICK x : x = s[k][j]
  OBVIOUS
<1> DEFINE Has(f) == \E i \in 1 .. Len(f) : f[i] = x
           S == {d \in Nat : k + d \in 1 .. Len(s) => Has(F[k + d])}
<1>6. \A f, g \in Seq(U) : (Has(f) => Has(f \o g)) /\ (Has(g) => Has(f \o g))
  <2>1. ASSUME NEW f \in Seq(U), NEW g \in Seq(U), Has(f) PROVE Has(f \o g)
    <3>1. PICK i \in 1 .. Len(f) : f[i] = x
      BY <2>1
    <3>2. i \in 1 .. Len(f \o g) /\ (f \o g)[i] = x
      BY <3>1
    <3> QED  BY <3>2
  <2>2. ASSUME NEW f \in Seq(U), NEW g \in Seq(U), Has(g) PROVE Has(f \o g)
    <3>1. PICK i \in 1 .. Len(g) : g[i] = x
      BY <2>2
    <3>2. Len(f) + i \in 1 .. Len(f \o g) /\ (f \o g)[Len(f) + i] = x
      BY <3>1
    <3> QED  BY <3>2
  <2> QED  BY <2>1, <2>2
<1>7. Has(s[k])
  BY <1>5
<1> HIDE DEF Has
<1>8. 0 \in S
  <2>1. CASE k = 1
    BY <1>7, <1>4, <2>1
  <2>2. CASE k # 1
    <3>1. k - 1 \in 1 .. Len(s)
      BY <1>1, <2>2
    <3>2. F[k] = F[k - 1] \o s[k]
      BY <1>4, <2>2
    <3>3. F[k - 1] \in Seq(U) /\ s[k] \in Seq(U)
      BY <1>1, <1>3, <3>1
    <3>4. Has(F[k])
      BY <1>6, <1>7, <3>2, <3>3
    <3>5. k + 0 = k
      BY <1>1
    <3> QED  BY <3>4, <3>5
  <2> QED  BY <2>1, <2>2
<1>9. ASSUME NEW d \in S PROVE d + 1 \in S
  <2>1. SUFFICES ASSUME k + (d + 1) \in 1 .. Len(s) PROVE Has(F[k + (d + 1)])
    BY <1>9
  <2>2. PICK m \in Nat : m = k + (d + 1)
    BY <1>1, <1>9
  <2>3. m - 1 \in 1 .. Len(s) /\ m \in 1 .. Len(s) /\ m # 1 /\ m - 1 = k + d
    BY <1>1, <1>9, <2>1, <2>2
  <2>4. Has(F[m - 1]) /\ F[m] = F[m - 1] \o s[m]
    BY <1>2, <1>9, <2>3 DEF Joins
  <2>5. Has(F[m])
    BY <1>1, <1>3, <1>6, <2>3, <2>4
  <2> QED  BY <2>2, <2>5
<1>10. S \subseteq Nat
  OBVIOUS
<1>11. \A d \in Nat : d \in S
  <2> HIDE DEF S
  <2> QED  BY <1>8, <1>9, <1>10, Induction
<1>12. Has(F[Len(s)])
  <2>1. PICK d \in Nat : k + d = Len(s)
    <3>1. Len(s) - k \in Nat /\ k + (Len(s) - k) = Len(s)
      BY <1>1
    <3> QED  BY <3>1
  <2>2. d \in S
    BY <1>11
  <2>3. Len(s) \in 1 .. Len(s)
    BY <1>1
  <2> QED  BY <2>1, <2>2, <2>3
<1> QED  BY <1>2, <1>5, <1>12 DEF Has

\* What remains of a list with one hit.
LEMMA OneHit ==
  ASSUME NEW m \in Nat, NEW at \in 1 .. m, NEW x,
         NEW s, s = [k \in 1 .. m |-> s[k]], \A k \in 1 .. m : s[k] = IF k = at THEN <<x>> ELSE <<>>
  PROVE  FlattenSeq(s) = <<x>>
<1>1. PICK U : U = {x}
  OBVIOUS
<1>2. s \in Seq(Seq(U)) /\ s # <<>> /\ Len(s) = m
  <2>1. <<x>> \in Seq(U) /\ <<>> \in Seq(U)
    BY <1>1
  <2>2. \A k \in 1 .. m : s[k] \in Seq(U)
    BY <2>1
  <2>3. DOMAIN s = 1 .. m /\ 1 \in 1 .. m
    OBVIOUS
  <2>4. s \in Seq(Seq(U)) /\ s # <<>>
    BY <2>2, <2>3, SMTT(30)
  <2> QED  BY <2>3, <2>4
<1>3. PICK F : Joins(F, s) /\ FlattenSeq(s) = F[m]
  BY <1>2, Flattening
<1>4. /\ 1 \in 1 .. m => F[1] = s[1]
      /\ \A i \in 1 .. m : i # 1 => F[i] = F[i - 1] \o s[i]
  BY <1>2, <1>3 DEF Joins
<1> DEFINE Upto(i) == IF i < at THEN <<>> ELSE <<x>>
           S == {d \in Nat : d + 1 \in 1 .. m => F[d + 1] = Upto(d + 1)}
<1>5. 0 \in S
  <2>1. 1 \in 1 .. m => F[1] = s[1] /\ s[1] = IF 1 = at THEN <<x>> ELSE <<>>
    BY <1>4
  <2> QED  BY <2>1
<1>6. ASSUME NEW d \in S PROVE d + 1 \in S
  <2>1. SUFFICES ASSUME (d + 1) + 1 \in 1 .. m PROVE F[(d + 1) + 1] = Upto((d + 1) + 1)
    BY <1>6
  <2>2. PICK i \in Nat : i = (d + 1) + 1
    BY <1>6
  <2>3. i \in 1 .. m /\ i # 1 /\ i - 1 = d + 1 /\ d + 1 \in 1 .. m
    BY <1>6, <2>1, <2>2
  <2>4. F[i - 1] = Upto(i - 1)
    BY <1>6, <2>3
  <2>5. F[i] = Upto(i - 1) \o (IF i = at THEN <<x>> ELSE <<>>)
    BY <1>4, <2>3, <2>4
  <2>6. Upto(i - 1) \o (IF i = at THEN <<x>> ELSE <<>>) = Upto(i)
    <3>1. <<>> \o <<x>> = <<x>> /\ <<x>> \o <<>> = <<x>> /\ <<>> \o <<>> = <<>>
      OBVIOUS
    <3>2. CASE i < at
      BY <2>3, <3>1, <3>2
    <3>3. CASE i = at
      <4>1. Upto(i - 1) = <<>> /\ Upto(i) = <<x>>
        BY <2>3, <3>3
      <4> HIDE DEF Upto
      <4> QED  BY <3>1, <3>3, <4>1
    <3>4. CASE i > at
      <4>1. Upto(i - 1) = <<x>> /\ Upto(i) = <<x>> /\ i # at
        BY <2>3, <3>4
      <4> HIDE DEF Upto
      <4> QED  BY <3>1, <4>1
    <3> QED  BY <2>3, <3>2, <3>3, <3>4
  <2> QED  BY <2>2, <2>5, <2>6
<1>7. S \subseteq Nat
  OBVIOUS
<1>8. \A d \in Nat : d \in S
  <2> HIDE DEF S
  <2> QED  BY <1>5, <1>6, <1>7, Induction
<1>9. PICK d \in Nat : d + 1 = m
  <2>1. m - 1 \in Nat /\ (m - 1) + 1 = m
    OBVIOUS
  <2> QED  BY <2>1
<1>10. F[m] = <<x>>
  <2>1. d \in S
    BY <1>8
  <2> QED  BY <1>9, <2>1
<1> QED  BY <1>3, <1>10

-----------------------------------------------------------------------------
(* The cache: CacheIsCurrent for any objects, loaders and changes of the   *)
(* source, and failures and deaths anywhere.                               *)

\* The size tells the generations of an object apart: what download_dir relies on.
SizesDiffer == \A g, h \in Generations : SizeOf[g] = SizeOf[h] => g = h

LoaderTasks == {"compare", "get", "land", "rename", "clean", "raised", "done", "error"}

CacheTypeOK ==
  /\ newest \in Generations /\ source \in [Objects -> Nat]
  /\ cached \in [Objects -> Nat] /\ part \in [Objects -> Nat]
  /\ lPc \in [Loaders -> {"idle", "list", "load", "done", "failed"}]
  /\ listed \in [Loaders -> [Objects -> Nat]] /\ inFlight \in [Loaders -> [Objects -> Nat]]
  /\ lTask \in [Loaders -> [Objects -> LoaderTasks]]
  /\ crowded \subseteq Loaders
  /\ losses \in 0 .. MaxLosses

\* Nothing is newer than the newest generation, and an object that is there is the newest
\* of its key: no listing of it is newer.
SourceIsNewest ==
  \A f \in Objects :
    /\ source[f] <= newest /\ cached[f] <= newest /\ part[f] <= newest
    /\ \A p \in Loaders :
         /\ listed[p][f] <= newest /\ inFlight[p][f] <= newest
         /\ source[f] # 0 => listed[p][f] <= source[f]

\* A loader that has not been crowded is the only one at work.
Alone == \A p, q \in Loaders : AtWork(p) /\ AtWork(q) /\ p # q => p \in crowded

\* What a loader has landed or found is there.
LandedIsThere ==
  \A p \in Loaders, f \in Objects :
    listed[p][f] # 0 /\ lTask[p][f] \in {"clean", "done"} => cached[f] # 0

\* A loader whose listing the cache answers: while it works alone, and for good afterwards,
Answered(p) == p \notin crowded /\ lPc[p] \in {"load", "done"}

\* what it has landed or found is at least as new as it was listed, and so is all that any
\* loader at work is about to land or to rename over it.
LandedIsCurrent ==
  \A p \in Loaders, f \in Objects :
    Answered(p) /\ listed[p][f] # 0 =>
      /\ lTask[p][f] \in {"clean", "done"} => listed[p][f] <= cached[f]
      /\ \A q \in Loaders : lPc[q] = "load" =>
           /\ lTask[q][f] = "land" => listed[p][f] <= inFlight[q][f]
           /\ lTask[q][f] = "rename" /\ part[f] # 0 => listed[p][f] <= part[f]

\* A loader is done when all of its files are.
DoneIsSettled == \A p \in Loaders : lPc[p] = "done" => \A f \in Objects : lTask[p][f] = "done"

CacheInv ==
  CacheTypeOK /\ SourceIsNewest /\ Alone /\ LandedIsThere /\ LandedIsCurrent /\ DoneIsSettled

\* A generation is a number from 1 on.
LEMMA GenerationsAreNumbers == Generations = 1 .. Len(SizeOf) /\ Len(SizeOf) \in Nat \ {0}
BY CacheAssumption DEF Generations

\* It holds before any loader has started.
LEMMA CacheInitInv == CacheInit => CacheInv
<1> SUFFICES ASSUME CacheInit PROVE CacheInv
  OBVIOUS
<1>1. CacheTypeOK
  BY GenerationsAreNumbers, CacheAssumption DEF CacheInit, CacheTypeOK, LoaderTasks
<1>2. SourceIsNewest
  BY DEF CacheInit, SourceIsNewest
<1>3. Alone /\ LandedIsThere /\ LandedIsCurrent /\ DoneIsSettled
  BY DEF CacheInit, Alone, AtWork, LandedIsThere, LandedIsCurrent, DoneIsSettled
<1> QED  BY <1>1, <1>2, <1>3 DEF CacheInv

\* A loader's step on a file: only its own task changes.
LEMMA DoesOne ==
  ASSUME CacheTypeOK, NEW p \in Loaders, NEW f \in Objects, NEW step \in LoaderTasks, Does(p, f, step)
  PROVE  /\ lTask' \in [Loaders -> [Objects -> LoaderTasks]]
         /\ lTask'[p][f] = step
         /\ \A q \in Loaders, g \in Objects : q # p \/ g # f => lTask'[q][g] = lTask[q][g]
BY DEF CacheTypeOK, Does

\* A step on a file that lands nothing and finishes nothing keeps what is said of the files.
LEMMA QuietLoad ==
  ASSUME CacheInv, NEW p \in Loaders, NEW f \in Objects, lPc[p] = "load",
         NEW step \in {"get", "raised", "error"}, Does(p, f, step),
         UNCHANGED <<source, cached, lPc, listed, inFlight, crowded, newest>>,
         losses' \in 0 .. MaxLosses, part' = part \/ part' = [part EXCEPT ![f] = 0]
  PROVE  CacheInv'
<1>1. CacheTypeOK /\ step \in LoaderTasks
  BY DEF CacheInv, LoaderTasks
<1>2. /\ lTask' \in [Loaders -> [Objects -> LoaderTasks]] /\ lTask'[p][f] = step
      /\ \A q \in Loaders, g \in Objects : q # p \/ g # f => lTask'[q][g] = lTask[q][g]
  BY <1>1, DoesOne
<1>3. \A g \in Objects : part'[g] \in {0, part[g]}
  BY <1>1 DEF CacheTypeOK
<1>4. newest \in Nat /\ \A g \in Objects : part[g] \in Nat
  BY <1>1, GenerationsAreNumbers DEF CacheTypeOK
<1>5. CacheTypeOK'
  BY <1>1, <1>2 DEF CacheTypeOK
<1>6. SourceIsNewest'
  BY <1>3, <1>4 DEF CacheInv, SourceIsNewest
<1>7. Alone' /\ LandedIsThere' /\ DoneIsSettled'
  BY <1>2 DEF CacheInv, Alone, AtWork, LandedIsThere, DoneIsSettled
<1>8. LandedIsCurrent'
  BY <1>2, <1>3 DEF CacheInv, LandedIsCurrent, Answered
<1> QED  BY <1>5, <1>6, <1>7, <1>8 DEF CacheInv

\* Every step of a loader, and of the source, keeps it.
LEMMA CacheStepInv == ASSUME SizesDiffer, CacheInv, [CacheNext]_cacheVars PROVE CacheInv'
<1>1. CacheTypeOK
  BY DEF CacheInv
<1>0. newest \in Nat
  BY <1>1, GenerationsAreNumbers DEF CacheTypeOK
<1>2. ASSUME NEW p \in Loaders, LoaderLists(p) PROVE CacheInv'
  <2>1. /\ listed' = [listed EXCEPT ![p] = [f \in Objects |-> IF Wanted(f) THEN source[f] ELSE 0]]
        /\ lTask' = [lTask EXCEPT ![p] = [f \in Objects |-> IF Wanted(f) THEN "compare" ELSE "done"]]
        /\ lPc[p] = "list" /\ lPc' = [lPc EXCEPT ![p] = "load"]
        /\ UNCHANGED <<source, cached, part, inFlight, crowded, newest, losses>>
    BY <1>2 DEF LoaderLists
  <2>2. CacheTypeOK'
    BY <1>1, <2>1 DEF CacheTypeOK, LoaderTasks
  <2>3. \A f \in Objects : /\ listed'[p][f] \in {0, source[f]} /\ lTask'[p][f] \in {"compare", "done"}
                           /\ listed'[p][f] # 0 => lTask'[p][f] = "compare"
    BY <1>1, <2>1 DEF CacheTypeOK, Wanted
  <2>4. /\ lPc'[p] = "load"
        /\ \A q \in Loaders : q # p => listed'[q] = listed[q] /\ lTask'[q] = lTask[q] /\ lPc'[q] = lPc[q]
    BY <1>1, <2>1 DEF CacheTypeOK
  <2>5. SourceIsNewest'
    BY <1>0, <1>1, <2>1, <2>3, <2>4 DEF CacheInv, CacheTypeOK, SourceIsNewest
  <2>6. Alone'
    BY <2>1, <2>4 DEF CacheInv, Alone, AtWork
  <2>7. LandedIsThere'
    BY <2>1, <2>3, <2>4 DEF CacheInv, LandedIsThere
  <2>8. ASSUME NEW r \in Loaders, NEW f \in Objects, Answered(r)', listed'[r][f] # 0
        PROVE  /\ lTask'[r][f] \in {"clean", "done"} => listed'[r][f] <= cached'[f]
               /\ \A q \in Loaders : lPc'[q] = "load" =>
                    /\ lTask'[q][f] = "land" => listed'[r][f] <= inFlight'[q][f]
                    /\ lTask'[q][f] = "rename" /\ part'[f] # 0 => listed'[r][f] <= part'[f]
    <3>1. CASE r = p
      <4>1. \A q \in Loaders : q # p => lPc[q] # "load"
        BY <2>1, <2>8, <3>1 DEF CacheInv, Alone, AtWork, Answered
      <4> QED  BY <2>3, <2>4, <2>8, <3>1, <4>1
    <3>2. CASE r # p
      BY <2>1, <2>3, <2>4, <2>8, <3>2 DEF CacheInv, LandedIsCurrent, Answered
    <3> QED  BY <3>1, <3>2
  <2>9. LandedIsCurrent'
    BY <2>8 DEF LandedIsCurrent
  <2>10. DoneIsSettled'
    BY <2>4 DEF CacheInv, DoneIsSettled
  <2> QED  BY <2>2, <2>5, <2>6, <2>7, <2>9, <2>10 DEF CacheInv
<1>3. ASSUME NEW p \in Loaders, LoaderStarts(p) PROVE CacheInv'
  <2>1. /\ lPc[p] \in {"idle", "failed"} /\ lPc' = [lPc EXCEPT ![p] = "list"]
        /\ UNCHANGED <<source, cached, part, listed, inFlight, lTask, newest, losses>>
    BY <1>3 DEF LoaderStarts
  <2>2. PICK others : /\ others = {q \in Loaders \ {p} : AtWork(q)}
                      /\ crowded' = IF others = {} THEN crowded \ {p} ELSE crowded \cup others \cup {p}
    BY <1>3 DEF LoaderStarts
  <2>3. CacheTypeOK'
    BY <1>1, <2>1, <2>2 DEF CacheTypeOK
  <2>4. lPc'[p] = "list" /\ \A q \in Loaders : q # p => lPc'[q] = lPc[q] /\ (q \in crowded => q \in crowded')
    BY <1>1, <2>1, <2>2 DEF CacheTypeOK
  <2>5. Alone'
    <3>1. ASSUME NEW q \in Loaders, NEW r \in Loaders, AtWork(q)', AtWork(r)', q # r PROVE q \in crowded'
      <4>1. CASE q # p /\ r # p
        BY <2>4, <3>1, <4>1 DEF CacheInv, Alone, AtWork
      <4>2. CASE q = p
        <5>1. r \in others
          BY <2>2, <2>4, <3>1, <4>2 DEF AtWork
        <5> QED  BY <2>2, <4>2, <5>1
      <4>3. CASE r = p
        <5>1. q \in others
          BY <2>2, <2>4, <3>1, <4>3 DEF AtWork
        <5> QED  BY <2>2, <5>1
      <4> QED  BY <4>1, <4>2, <4>3
    <3> QED  BY <3>1 DEF Alone
  <2>6. SourceIsNewest' /\ LandedIsThere'
    BY <2>1 DEF CacheInv, SourceIsNewest, LandedIsThere
  <2>7. LandedIsCurrent' /\ DoneIsSettled'
    BY <2>1, <2>4 DEF CacheInv, LandedIsCurrent, DoneIsSettled, Answered
  <2> QED  BY <2>3, <2>5, <2>6, <2>7 DEF CacheInv
<1>4. ASSUME NEW p \in Loaders, LoaderEnds(p) \/ LoaderDies(p) PROVE CacheInv'
  <2>1. /\ UNCHANGED <<source, cached, part, listed, inFlight, lTask, crowded, newest>>
        /\ lPc[p] \in {"list", "load"}
    BY <1>4 DEF LoaderEnds, LoaderDies
  <2>2. losses' \in 0 .. MaxLosses
    BY <1>1, <1>4, CacheAssumption DEF CacheTypeOK, LoaderEnds, LoaderDies
  <2>3. PICK l \in {"done", "failed"} :
          /\ lPc' = [lPc EXCEPT ![p] = l]
          /\ l = "done" => lPc[p] = "load" /\ \A f \in Objects : lTask[p][f] = "done"
    <3>1. CASE LoaderDies(p)
      BY <3>1 DEF LoaderDies
    <3>2. CASE LoaderEnds(p)
      BY <3>2 DEF LoaderEnds, Settled
    <3> QED  BY <1>4, <3>1, <3>2
  <2>4. CacheTypeOK'
    BY <1>1, <2>1, <2>2, <2>3 DEF CacheTypeOK
  <2>5. /\ lPc'[p] = l
        /\ \A q \in Loaders : q # p => lPc'[q] = lPc[q]
    BY <1>1, <2>3 DEF CacheTypeOK
  <2>6. SourceIsNewest' /\ LandedIsThere'
    BY <2>1 DEF CacheInv, SourceIsNewest, LandedIsThere
  <2>7. Alone' /\ DoneIsSettled'
    BY <2>1, <2>3, <2>5 DEF CacheInv, Alone, AtWork, DoneIsSettled
  <2>8. \A q \in Loaders : (Answered(q)' => Answered(q)) /\ (lPc'[q] = "load" => lPc[q] = "load")
    BY <2>1, <2>3, <2>5 DEF Answered
  <2>9. LandedIsCurrent'
    BY <2>1, <2>8 DEF CacheInv, LandedIsCurrent
  <2> QED  BY <2>4, <2>6, <2>7, <2>9 DEF CacheInv
<1>5. ASSUME NEW p \in Loaders, NEW f \in Objects, Compare(p, f) PROVE CacheInv'
  <2>1. PICK step \in {"get", "done"} :
          /\ Does(p, f, step) /\ lPc[p] = "load"
          /\ step = "done" => cached[f] # 0 /\ SizeOf[cached[f]] = SizeOf[listed[p][f]]
          /\ UNCHANGED <<source, cached, part, lPc, listed, inFlight, crowded, newest, losses>>
    BY <1>5 DEF Compare, MatchesLocal
  <2>2. step = "done" /\ listed[p][f] # 0 => cached[f] = listed[p][f]
    <3>1. newest \in 1 .. Len(SizeOf) /\ cached[f] \in Nat /\ listed[p][f] \in Nat
      BY <1>1, GenerationsAreNumbers DEF CacheTypeOK
    <3>2. cached[f] <= newest /\ listed[p][f] <= newest
      BY DEF CacheInv, SourceIsNewest
    <3>3. cached[f] # 0 /\ listed[p][f] # 0 => cached[f] \in Generations /\ listed[p][f] \in Generations
      BY <3>1, <3>2, GenerationsAreNumbers
    <3> QED  BY <2>1, <3>3 DEF SizesDiffer
  <2>3. /\ lTask' \in [Loaders -> [Objects -> LoaderTasks]] /\ lTask'[p][f] = step /\ cached[f] \in Nat
        /\ \A q \in Loaders, g \in Objects : q # p \/ g # f => lTask'[q][g] = lTask[q][g]
    BY <1>1, <2>1, DoesOne DEF CacheTypeOK, LoaderTasks
  <2>4. CacheTypeOK' /\ SourceIsNewest' /\ Alone'
    BY <1>1, <2>1, <2>3 DEF CacheInv, CacheTypeOK, SourceIsNewest, Alone, AtWork
  <2>5. DoneIsSettled'
    BY <2>1, <2>3 DEF CacheInv, DoneIsSettled
  <2>6. LandedIsThere'
    BY <2>1, <2>3 DEF CacheInv, LandedIsThere
  <2>7. ASSUME NEW r \in Loaders, NEW g \in Objects, Answered(r), listed[r][g] # 0
        PROVE  /\ lTask'[r][g] \in {"clean", "done"} => listed[r][g] <= cached[g]
               /\ \A q \in Loaders : lPc[q] = "load" =>
                    /\ lTask'[q][g] = "land" => listed[r][g] <= inFlight[q][g]
                    /\ lTask'[q][g] = "rename" /\ part[g] # 0 => listed[r][g] <= part[g]
    <3>1. /\ lTask[r][g] \in {"clean", "done"} => listed[r][g] <= cached[g]
          /\ \A q \in Loaders : lPc[q] = "load" =>
               /\ lTask[q][g] = "land" => listed[r][g] <= inFlight[q][g]
               /\ lTask[q][g] = "rename" /\ part[g] # 0 => listed[r][g] <= part[g]
      BY <2>7 DEF CacheInv, LandedIsCurrent
    <3> QED  BY <2>1, <2>2, <2>3, <2>7, <3>1
  <2>8. LandedIsCurrent'
    BY <2>1, <2>7 DEF LandedIsCurrent, Answered
  <2> QED  BY <2>4, <2>5, <2>6, <2>8 DEF CacheInv
<1>6. ASSUME NEW p \in Loaders, NEW f \in Objects, Request(p, f) PROVE CacheInv'
  <2>1. CASE source[f] # 0
    <3>1. /\ inFlight' = [inFlight EXCEPT ![p][f] = source[f]] /\ Does(p, f, "land") /\ lPc[p] = "load"
          /\ UNCHANGED <<source, cached, part, lPc, listed, crowded, newest, losses>>
      BY <1>6, <2>1 DEF Request
    <3>2. /\ lTask' \in [Loaders -> [Objects -> LoaderTasks]] /\ lTask'[p][f] = "land"
          /\ \A q \in Loaders, g \in Objects : q # p \/ g # f => lTask'[q][g] = lTask[q][g]
      BY <1>1, <3>1, DoesOne DEF LoaderTasks
    <3>3. /\ inFlight'[p][f] = source[f] /\ inFlight' \in [Loaders -> [Objects -> Nat]]
          /\ \A q \in Loaders, g \in Objects : q # p \/ g # f => inFlight'[q][g] = inFlight[q][g]
      BY <1>1, <3>1 DEF CacheTypeOK
    <3>4. CacheTypeOK' /\ SourceIsNewest'
      BY <1>1, <3>1, <3>2, <3>3 DEF CacheInv, CacheTypeOK, SourceIsNewest
    <3>5. Alone' /\ LandedIsThere' /\ DoneIsSettled'
      BY <3>1, <3>2 DEF CacheInv, Alone, AtWork, LandedIsThere, DoneIsSettled
    <3>6. ASSUME NEW r \in Loaders, NEW g \in Objects, Answered(r), listed[r][g] # 0
          PROVE  /\ lTask'[r][g] \in {"clean", "done"} => listed[r][g] <= cached[g]
                 /\ \A q \in Loaders : lPc[q] = "load" =>
                      /\ lTask'[q][g] = "land" => listed[r][g] <= inFlight'[q][g]
                      /\ lTask'[q][g] = "rename" /\ part[g] # 0 => listed[r][g] <= part[g]
      <4>1. /\ lTask[r][g] \in {"clean", "done"} => listed[r][g] <= cached[g]
            /\ \A q \in Loaders : lPc[q] = "load" =>
                 /\ lTask[q][g] = "land" => listed[r][g] <= inFlight[q][g]
                 /\ lTask[q][g] = "rename" /\ part[g] # 0 => listed[r][g] <= part[g]
        BY <3>6 DEF CacheInv, LandedIsCurrent
      <4>2. listed[r][f] <= source[f]
        BY <2>1 DEF CacheInv, SourceIsNewest
      <4> QED  BY <3>2, <3>3, <4>1, <4>2
    <3>7. LandedIsCurrent'
      BY <3>1, <3>6 DEF LandedIsCurrent, Answered
    <3> QED  BY <3>4, <3>5, <3>7 DEF CacheInv
  <2>2. CASE source[f] = 0
    BY <1>1, <1>6, <2>2, QuietLoad DEF Request, CacheTypeOK
  <2> QED  BY <2>1, <2>2
<1>7. ASSUME NEW p \in Loaders, NEW f \in Objects, Land(p, f) PROVE CacheInv'
  <2>1. /\ part' = [part EXCEPT ![f] = inFlight[p][f]] /\ Does(p, f, "rename")
        /\ lPc[p] = "load" /\ lTask[p][f] = "land"
        /\ UNCHANGED <<source, cached, lPc, listed, inFlight, crowded, newest, losses>>
    BY <1>7 DEF Land
  <2>2. /\ lTask' \in [Loaders -> [Objects -> LoaderTasks]] /\ lTask'[p][f] = "rename"
        /\ \A q \in Loaders, g \in Objects : q # p \/ g # f => lTask'[q][g] = lTask[q][g]
    BY <1>1, <2>1, DoesOne DEF LoaderTasks
  <2>3. part'[f] = inFlight[p][f] /\ \A g \in Objects : g # f => part'[g] = part[g]
    BY <1>1, <2>1 DEF CacheTypeOK
  <2>4. CacheTypeOK' /\ SourceIsNewest'
    BY <1>1, <2>1, <2>2, <2>3 DEF CacheInv, CacheTypeOK, SourceIsNewest
  <2>5. Alone' /\ LandedIsThere' /\ DoneIsSettled'
    BY <2>1, <2>2 DEF CacheInv, Alone, AtWork, LandedIsThere, DoneIsSettled
  <2>6. LandedIsCurrent'
    BY <2>1, <2>2, <2>3 DEF CacheInv, LandedIsCurrent, Answered
  <2> QED  BY <2>4, <2>5, <2>6 DEF CacheInv
<1>8. ASSUME NEW p \in Loaders, NEW f \in Objects, Rename(p, f) PROVE CacheInv'
  <2>1. CASE part[f] # 0
    <3>1. /\ cached' = [cached EXCEPT ![f] = part[f]] /\ part' = [part EXCEPT ![f] = 0]
          /\ Does(p, f, "clean") /\ lPc[p] = "load" /\ lTask[p][f] = "rename"
          /\ UNCHANGED <<source, lPc, listed, inFlight, crowded, newest, losses>>
      BY <1>8, <2>1 DEF Rename
    <3>2. /\ lTask' \in [Loaders -> [Objects -> LoaderTasks]] /\ lTask'[p][f] = "clean"
          /\ \A q \in Loaders, g \in Objects : q # p \/ g # f => lTask'[q][g] = lTask[q][g]
      BY <1>1, <3>1, DoesOne DEF LoaderTasks
    <3>3. /\ cached'[f] = part[f] /\ part'[f] = 0
          /\ \A g \in Objects : g # f => cached'[g] = cached[g] /\ part'[g] = part[g]
      BY <1>1, <3>1 DEF CacheTypeOK
    <3>4. CacheTypeOK'
      BY <1>1, <3>1, <3>2 DEF CacheTypeOK
    <3>5. SourceIsNewest'
      BY <1>0, <3>1, <3>3 DEF CacheInv, SourceIsNewest
    <3>6. Alone' /\ DoneIsSettled'
      BY <3>1, <3>2 DEF CacheInv, Alone, AtWork, DoneIsSettled
    <3>7. LandedIsThere'
      BY <2>1, <3>1, <3>2, <3>3 DEF CacheInv, LandedIsThere
    <3>8. ASSUME NEW r \in Loaders, NEW g \in Objects, Answered(r), listed[r][g] # 0
          PROVE  /\ lTask'[r][g] \in {"clean", "done"} => listed[r][g] <= cached'[g]
                 /\ \A q \in Loaders : lPc[q] = "load" =>
                      /\ lTask'[q][g] = "land" => listed[r][g] <= inFlight[q][g]
                      /\ lTask'[q][g] = "rename" /\ part'[g] # 0 => listed[r][g] <= part'[g]
      <4>1. /\ lTask[r][g] \in {"clean", "done"} => listed[r][g] <= cached[g]
            /\ \A q \in Loaders : lPc[q] = "load" =>
                 /\ lTask[q][g] = "land" => listed[r][g] <= inFlight[q][g]
                 /\ lTask[q][g] = "rename" /\ part[g] # 0 => listed[r][g] <= part[g]
        BY <3>8 DEF CacheInv, LandedIsCurrent
      <4>2. CASE g # f
        BY <3>2, <3>3, <4>1, <4>2
      <4>3. CASE g = f
        BY <2>1, <3>1, <3>2, <3>3, <4>1, <4>3
      <4> QED  BY <4>2, <4>3
    <3>9. LandedIsCurrent'
      BY <3>1, <3>8 DEF LandedIsCurrent, Answered
    <3> QED  BY <3>4, <3>5, <3>6, <3>7, <3>9 DEF CacheInv
  <2>2. CASE part[f] = 0
    BY <1>1, <1>8, <2>2, QuietLoad DEF Rename, CacheTypeOK
  <2> QED  BY <2>1, <2>2
<1>9. ASSUME NEW p \in Loaders, NEW f \in Objects, CleanPart(p, f) PROVE CacheInv'
  <2>1. /\ part' = [part EXCEPT ![f] = 0] /\ lPc[p] = "load" /\ losses \in 0 .. MaxLosses
        /\ UNCHANGED <<source, cached, lPc, listed, inFlight, crowded, newest, losses>>
    BY <1>1, <1>9 DEF CleanPart, CacheTypeOK
  <2>2. CASE lTask[p][f] = "raised"
    <3>1. Does(p, f, "error")
      BY <1>9, <2>2 DEF CleanPart
    <3> QED  BY <2>1, <3>1, QuietLoad
  <2>3. CASE lTask[p][f] = "clean"
    <3>1. Does(p, f, "done")
      BY <1>9, <2>3 DEF CleanPart
    <3>2. /\ lTask' \in [Loaders -> [Objects -> LoaderTasks]] /\ lTask'[p][f] = "done"
          /\ \A q \in Loaders, g \in Objects : q # p \/ g # f => lTask'[q][g] = lTask[q][g]
      BY <1>1, <3>1, DoesOne DEF LoaderTasks
    <3>3. part'[f] = 0 /\ \A g \in Objects : g # f => part'[g] = part[g]
      BY <1>1, <2>1 DEF CacheTypeOK
    <3>4. CacheTypeOK' /\ SourceIsNewest'
      BY <1>0, <1>1, <2>1, <3>2, <3>3 DEF CacheInv, CacheTypeOK, SourceIsNewest
    <3>5. Alone' /\ DoneIsSettled'
      BY <2>1, <3>2 DEF CacheInv, Alone, AtWork, DoneIsSettled
    <3>6. LandedIsThere'
      BY <2>1, <2>3, <3>2 DEF CacheInv, LandedIsThere
    <3>7. LandedIsCurrent'
      BY <2>1, <2>3, <3>2, <3>3 DEF CacheInv, LandedIsCurrent, Answered
    <3> QED  BY <3>4, <3>5, <3>6, <3>7 DEF CacheInv
  <2> QED  BY <1>9, <2>2, <2>3 DEF CleanPart
<1>10. ASSUME NEW p \in Loaders, NEW f \in Objects, GetFails(p, f) PROVE CacheInv'
  <2>1. /\ Does(p, f, "raised") /\ lPc[p] = "load" /\ losses' \in 0 .. MaxLosses
        /\ UNCHANGED <<source, cached, part, lPc, listed, inFlight, crowded, newest>>
    BY <1>1, <1>10, CacheAssumption DEF CacheTypeOK, GetFails
  <2> QED  BY <2>1, QuietLoad
<1>11. ASSUME NEW f \in Objects, SourceChanges(f) PROVE CacheInv'
  <2>1. PICK g \in {0, newest + 1} :
          /\ newest + 1 \in Generations /\ newest' = newest + 1
          /\ source' = [source EXCEPT ![f] = g]
          /\ UNCHANGED <<cached, part, lPc, listed, inFlight, lTask, crowded, losses>>
    BY <1>11 DEF SourceChanges
  <2>2. CacheTypeOK'
    BY <1>0, <1>1, <2>1 DEF CacheTypeOK
  <2>3. source'[f] = g /\ \A h \in Objects : h # f => source'[h] = source[h]
    BY <1>1, <2>1 DEF CacheTypeOK
  <2>4. SourceIsNewest'
    BY <1>0, <1>1, <2>1, <2>3 DEF CacheInv, CacheTypeOK, SourceIsNewest
  <2>5. Alone' /\ LandedIsThere' /\ LandedIsCurrent' /\ DoneIsSettled'
    BY <2>1 DEF CacheInv, Alone, AtWork, LandedIsThere, LandedIsCurrent, Answered, DoneIsSettled
  <2> QED  BY <2>2, <2>4, <2>5 DEF CacheInv
<1>12. CASE UNCHANGED cacheVars
  BY <1>12 DEF cacheVars, CacheInv, CacheTypeOK, SourceIsNewest, Alone, AtWork, LandedIsThere,
               LandedIsCurrent, Answered, DoneIsSettled
<1> QED
  BY <1>2, <1>3, <1>4, <1>5, <1>6, <1>7, <1>8, <1>9, <1>10, <1>11, <1>12 DEF CacheNext

\* The invariant holds in every behaviour of the loaders, where sizes tell generations apart.
THEOREM CacheInvariant == ASSUME SizesDiffer PROVE CacheSpec => []CacheInv
BY CacheInitInv, CacheStepInv, PTL DEF CacheSpec

\* A loader that is done has every file it listed, and where no other was at work beside it,
\* at least as new as it was listed, whatever later loaders request, land, fail at or leave
\* behind in the same cache directory (download_dir, atomic_download).
THEOREM Current == ASSUME SizesDiffer PROVE CacheSpec => []CacheIsCurrent
<1>1. CacheInv => CacheIsCurrent
  BY DEF CacheInv, LandedIsThere, LandedIsCurrent, Answered, DoneIsSettled, CacheIsCurrent, CacheTypeOK
<1> QED  BY CacheInvariant, <1>1, PTL

-----------------------------------------------------------------------------
(* Batch inference: what lies below an output uri.                         *)
(*                                                                         *)
(* A row, an event or a manifest speaks of files that other steps have     *)
(* written.  Any number of runs may write to one uri at a time; `shared`   *)
(* has those that did.  What is said of the others rests on this: whoever  *)
(* goes on at a uri and is not in `shared` is the last that came there     *)
(* (Apart).  The invariant says which files a run has behind it at each of *)
(* its steps (WrittenFiles) and that no file is of a run later than those  *)
(* written before it (Descending).                                         *)

Steps == {"idle", "build", "predict", "job", "final", "done", "error", "cut"} \cup Kinds
Owner(x) == IF x < 0 THEN -x ELSE x

\* The files a run has written when it is at a step.
Behind(step) ==
  CASE step = "failed" -> {"predictions"}
    [] step = "report" -> {"predictions", "failed"}
    [] step = "manifest" -> {"predictions", "failed", "report"}
    [] step \in {"job", "final", "done"} -> Kinds
    [] OTHER -> {}

InfTypeOK ==
  /\ iPc \in [Runs -> Steps]
  /\ iOut = [r \in Runs |-> iOut[r]]
  /\ \A r \in Runs : iPc[r] \notin {"idle", "error"} => iOut[r] \in Outputs
  /\ iOpen \in [Runs -> BOOLEAN] /\ shared \subseteq Runs
  /\ lake \in [Outputs -> [Kinds -> Int]]
  /\ jobRow = [r \in Runs |-> jobRow[r]] /\ jobEvent = [r \in Runs |-> jobEvent[r]]

Started(r) == iPc[r] # "idle"

\* Runs start in their order, and only then have an output uri.
InOrder == \A q, r \in Runs : q < r /\ Started(r) => Started(q)
NoUriYet == \A r \in Runs : ~Started(r) => iOut[r] \notin Outputs

\* Who goes on at a uri where a later run came has shared it with that run.
Apart ==
  \A q, r \in Runs :
    q < r /\ Started(r) /\ iOut[q] = iOut[r] /\ Live(q) => q \in shared /\ r \in shared

\* A file is of a run that was to write there and came to write;
HasOwner ==
  \A d \in Outputs, k \in Kinds :
    lake[d][k] # 0 =>
      /\ Owner(lake[d][k]) \in Runs
      /\ iOut[Owner(lake[d][k])] = d
      /\ iPc[Owner(lake[d][k])] \in Kinds \cup {"job", "final", "done", "cut"}

\* a later file is never of a later run than one of a run that was alone;
Descending ==
  \A d \in Outputs, k \in Kinds : \A j \in Behind(k) :
    Owner(lake[d][j]) \notin shared => Owner(lake[d][k]) <= Owner(lake[d][j])

\* a file that is open is torn, by whoever has it open alone;
OpenIsTorn ==
  \A r \in Runs : iOpen[r] =>
    iPc[r] \in Kinds /\ (r \notin shared => lake[iOut[r]][iPc[r]] = -r)

\* what a run has behind it is there, or a later run came, or one beside it;
WrittenFiles ==
  \A r \in Runs : \A k \in Behind(iPc[r]) :
    LET x == lake[iOut[r]][k]
    IN  x = r \/ Owner(x) > r \/ (r \in shared /\ Owner(x) \in shared)

\* a manifest is only written when the other files are, and they stay until a later run comes.
ManifestPending == \A r \in Runs : iPc[r] \in {"build", "predict"} \cup Kinds => lake[iOut[r]]["manifest"] # r
ManifestWhole ==
  \A d \in Outputs, k \in Kinds :
    lake[d]["manifest"] > 0 /\ lake[d]["manifest"] \notin shared =>
      lake[d][k] = lake[d]["manifest"] \/ Owner(lake[d][k]) > lake[d]["manifest"]

\* A run that the database or the event log calls ended has its files behind it.
ToldEnded(r) == jobRow[r] \in {"SUCCEEDED", "FAILED"} \/ jobEvent[r] \in {"FINISHED", "FAILED"}
LaterRun(r) == \E q \in Runs : q > r /\ Started(q) /\ iOut[q] = iOut[r]
EndedIsWhole ==
  \A r \in Runs : ToldEnded(r) =>
    /\ iPc[r] \in {"final", "done", "cut"}
    /\ r \notin shared => Whole(iOut[r], r) \/ LaterRun(r)

\* While a build is alone, nobody writes where it reads.
BuildIsCalm ==
  /\ build \in [dir : Outputs \cup {NoUri}, rows : Int, alone : BOOLEAN]
  /\ build.dir # NoUri /\ build.alone =>
       Writers(build.dir) = {} /\ build.rows > 0 /\ lake[build.dir]["predictions"] = build.rows
DistilledIsSettled ==
  distilled.alone /\ distilled.rows \notin shared =>
    \/ distilled.source = distilled.rows
    \/ distilled.rows \in Runs /\ distilled.source < distilled.rows /\ iPc[distilled.rows] = "cut"

InfInv ==
  /\ InfTypeOK /\ InOrder /\ NoUriYet /\ Apart /\ HasOwner /\ Descending /\ OpenIsTorn /\ WrittenFiles
  /\ ManifestPending /\ ManifestWhole /\ EndedIsWhole /\ BuildIsCalm /\ DistilledIsSettled

-----------------------------------------------------------------------------
\* Where a run goes from each of its last steps.
LEMMA StepsInOrder ==
  /\ After("predictions") = "failed" /\ After("failed") = "report" /\ After("report") = "manifest"
  /\ After("manifest") = "job" /\ After("job") = "final" /\ After("final") = "done"
  /\ Ending[1] = "predictions"
<1>1. DOMAIN Ending = 1 .. 7
  BY DEF Ending
<1>2. /\ Ending[1] = "predictions" /\ Ending[2] = "failed" /\ Ending[3] = "report" /\ Ending[4] = "manifest"
      /\ Ending[5] = "job" /\ Ending[6] = "final" /\ Ending[7] = "done"
  BY DEF Ending
<1>3. ASSUME NEW i \in 1 .. 7 PROVE (CHOOSE k \in DOMAIN Ending : Ending[k] = Ending[i]) = i
  <2>1. \A j \in 1 .. 7 : Ending[j] = Ending[i] => j = i
    BY <1>2
  <2> QED  BY <1>1, <2>1
<1>4. \A i \in 1 .. 7 : After(Ending[i]) = Ending[1 + i]
  BY <1>3 DEF After
<1> QED  BY <1>2, <1>4

\* Where a run stands after one of its files.
LEMMA AfterFile ==
  ASSUME NEW k \in Kinds
  PROVE  /\ After(k) \in Kinds \cup {"job"}
         /\ Behind(After(k)) = Behind(k) \cup {k} /\ k \notin Behind(k)
         /\ After(k) = "job" <=> k = "manifest"
         /\ Behind(k) \subseteq Kinds
<1>1. CASE k = "predictions"
  BY <1>1, StepsInOrder DEF Behind, Kinds
<1>2. CASE k = "failed"
  BY <1>2, StepsInOrder DEF Behind, Kinds
<1>3. CASE k = "report"
  BY <1>3, StepsInOrder DEF Behind, Kinds
<1>4. CASE k = "manifest"
  BY <1>4, StepsInOrder DEF Behind, Kinds
<1> QED  BY <1>1, <1>2, <1>3, <1>4 DEF Kinds

\* A run is a number from 1 on, and a file of one has its number.
LEMMA RunsAreNumbers ==
  ASSUME InfTypeOK
  PROVE  /\ \A r \in Runs : r \in Nat \ {0}
         /\ \A d \in Outputs, k \in Kinds : lake[d][k] \in Int /\ Owner(lake[d][k]) \in Nat
BY InferenceAssumption DEF Runs, InfTypeOK, Owner

\* Who else came to the uri of a run that goes on: runs it shares with, or earlier ones that
\* have stopped.
LEMMA Neighbours ==
  ASSUME InfInv, NEW r \in Runs, Live(r), NEW q \in Runs, q # r, Started(q), iOut[q] = iOut[r]
  PROVE  \/ q \in shared /\ r \in shared
         \/ q < r /\ ~Live(q)
<1>1. q \in Nat /\ r \in Nat
  BY RunsAreNumbers DEF InfInv
<1>2. Started(r)
  BY DEF Live, Started
<1> QED  BY <1>1, <1>2 DEF InfInv, Apart

\* While a run goes on alone, no file below its uri is of a later one,
LEMMA NoneIsLater ==
  ASSUME InfInv, NEW r \in Runs, Live(r), r \notin shared, NEW k \in Kinds
  PROVE  Owner(lake[iOut[r]][k]) <= r
<1>1. r \in Nat /\ iOut[r] \in Outputs /\ lake[iOut[r]][k] \in Int
  BY RunsAreNumbers DEF InfInv, InfTypeOK, Live
<1>2. CASE lake[iOut[r]][k] # 0
  <2>0. PICK d, q : d = iOut[r] /\ q = Owner(lake[d][k])
    OBVIOUS
  <2>1. q \in Runs /\ iOut[q] = d /\ Started(q) /\ d = iOut[r] /\ q = Owner(lake[iOut[r]][k])
    BY <1>1, <1>2, <2>0 DEF InfInv, HasOwner, Kinds, Started
  <2>2. CASE q = r
    BY <1>1, <2>1, <2>2
  <2>3. CASE q # r
    BY <1>1, <2>1, <2>3, Neighbours
  <2> QED  BY <2>2, <2>3
<1>3. CASE lake[iOut[r]][k] = 0
  BY <1>1, <1>3 DEF Owner
<1> QED  BY <1>2, <1>3

\* and the files it has behind it are its own.
LEMMA WrittenAreOwn ==
  ASSUME InfInv, NEW r \in Runs, Live(r), r \notin shared, NEW k \in Behind(iPc[r])
  PROVE  k \in Kinds /\ lake[iOut[r]][k] = r
<1>1. k \in Kinds
  BY DEF Behind, Kinds
<1>2. iOut[r] \in Outputs /\ r \in Nat /\ Owner(lake[iOut[r]][k]) \in Nat
  BY <1>1, RunsAreNumbers DEF InfInv, InfTypeOK, Live
<1>3. Owner(lake[iOut[r]][k]) <= r
  BY <1>1, NoneIsLater
<1> QED  BY <1>1, <1>2, <1>3 DEF InfInv, WrittenFiles

\* What a run writes is its own, and whole unless it shares its uri.
LEMMA MixedIsShared ==
  ASSUME InfInv, NEW r \in Runs, iOpen[r], Mixed(r) PROVE r \in shared
<1>1. iPc[r] \in Kinds /\ Live(r)
  BY DEF InfInv, OpenIsTorn, Live, Kinds
<1>2. CASE lake[iOut[r]][iPc[r]] # -r
  BY <1>2 DEF InfInv, OpenIsTorn
<1>3. CASE \E q \in Runs \ {r} : iOpen[q] /\ iOut[q] = iOut[r] /\ iPc[q] = iPc[r]
  <2>1. PICK q \in Runs \ {r} : iOpen[q] /\ iOut[q] = iOut[r] /\ iPc[q] = iPc[r]
    BY <1>3
  <2>2. Live(q) /\ Started(q)
    BY <1>1, <2>1 DEF Live, Started, Kinds
  <2> QED  BY <1>1, <2>1, <2>2, Neighbours
<1> QED  BY <1>2, <1>3 DEF Mixed

\* A step of a run that writes no file.
LEMMA QuietStep ==
  ASSUME InfInv, NEW r \in Runs, Live(r), NEW to \in Steps \ {"idle"},
         iPc' = [iPc EXCEPT ![r] = to], UNCHANGED <<lake, iOut, shared, build, distilled>>,
         iOpen' \in [Runs -> BOOLEAN], \A q \in Runs : iOpen'[q] => iOpen[q], ~iOpen'[r],
         jobRow' = [q \in Runs |-> jobRow'[q]], jobEvent' = [q \in Runs |-> jobEvent'[q]],
         Behind(to) \subseteq Behind(iPc[r]),
         iPc[r] \in Kinds \cup {"job", "final"} => to \in Kinds \cup {"job", "final", "done", "cut"},
         to \in {"build", "predict"} \cup Kinds => iPc[r] \in {"build", "predict"} \cup Kinds,
         \A q \in Runs : q # r => (ToldEnded(q)' => ToldEnded(q)),
         ToldEnded(r)' => to \in {"final", "done", "cut"} /\ (ToldEnded(r) \/ r \in shared \/ Whole(iOut[r], r))
  PROVE  InfInv'
<1>1. InfTypeOK /\ iPc[r] \notin {"idle", "error", "done", "cut"}
  BY DEF InfInv, Live
<1>2. iPc'[r] = to /\ \A q \in Runs : q # r => iPc'[q] = iPc[q]
  BY <1>1 DEF InfTypeOK
<1>3. InfTypeOK'
  BY <1>1 DEF InfTypeOK
<1>4. \A q \in Runs : (Live(q)' => Live(q)) /\ (Started(q)' <=> Started(q))
  BY <1>1, <1>2 DEF Live, Started
<1>5. InOrder' /\ NoUriYet' /\ Apart'
  BY <1>4 DEF InfInv, InOrder, NoUriYet, Apart
<1>6. HasOwner'
  <2>1. ASSUME NEW q \in Runs, iPc[q] \in Kinds \cup {"job", "final", "done", "cut"}
        PROVE  iPc'[q] \in Kinds \cup {"job", "final", "done", "cut"}
    BY <1>1, <1>2, <2>1
  <2> QED  BY <2>1 DEF InfInv, HasOwner
<1>7. Descending' /\ ManifestWhole'
  BY DEF InfInv, Descending, ManifestWhole
<1>8. OpenIsTorn'
  BY <1>2 DEF InfInv, OpenIsTorn
<1>9. WrittenFiles'
  BY <1>2 DEF InfInv, WrittenFiles
<1>10. ManifestPending'
  BY <1>2 DEF InfInv, ManifestPending
<1>11. EndedIsWhole'
  <2>1. ASSUME NEW q \in Runs, ToldEnded(q)'
        PROVE  /\ iPc'[q] \in {"final", "done", "cut"}
               /\ q \notin shared => Whole(iOut[q], q)' \/ LaterRun(q)'
    <3>1. (Whole(iOut[q], q) => Whole(iOut[q], q)') /\ (LaterRun(q) => LaterRun(q)')
      BY <1>4 DEF Whole, LaterRun
    <3>2. CASE q # r
      BY <1>2, <2>1, <3>1, <3>2 DEF InfInv, EndedIsWhole
    <3>3. CASE q = r
      BY <1>2, <2>1, <3>1, <3>3 DEF InfInv, EndedIsWhole
    <3> QED  BY <3>2, <3>3
  <2> QED  BY <2>1 DEF EndedIsWhole
<1>12. BuildIsCalm'
  BY <1>4 DEF InfInv, BuildIsCalm, Writers
<1>13. DistilledIsSettled'
  BY <1>1, <1>2 DEF InfInv, DistilledIsSettled
<1> QED
  BY <1>3, <1>5, <1>6, <1>7, <1>8, <1>9, <1>10, <1>11, <1>12, <1>13 DEF InfInv

\* A file is opened, or written: whole, or torn by two runs that share the uri.
LEMMA FileStep ==
  ASSUME InfInv, NEW r \in Runs, NEW k \in Kinds, iPc[r] = k, NEW to \in Steps, NEW x \in {r, -r},
         (x = -r /\ to = k) \/ (to = After(k) /\ (x = r \/ r \in shared)),
         lake' = [lake EXCEPT ![iOut[r]][k] = x], iPc' = [iPc EXCEPT ![r] = to],
         iOpen' \in [Runs -> BOOLEAN], \A q \in Runs : q # r => (iOpen'[q] => iOpen[q]),
         iOpen'[r] => x = -r /\ to = k,
         UNCHANGED <<iOut, shared, jobRow, jobEvent, build, distilled>>
  PROVE  InfInv'
<1>1. InfTypeOK /\ Live(r) /\ Started(r) /\ iOut[r] \in Outputs /\ r \in Nat \ {0}
  <2>1. InfTypeOK /\ Live(r) /\ Started(r)
    BY DEF InfInv, Live, Started, Kinds
  <2>2. iOut[r] \in Outputs
    BY <2>1 DEF InfTypeOK, Live
  <2> QED  BY <2>1, <2>2, RunsAreNumbers
<1>2. iPc'[r] = to /\ \A q \in Runs : q # r => iPc'[q] = iPc[q]
  BY <1>1 DEF InfTypeOK
<1>3. to \in Kinds \cup {"job"} /\ (to = "job" => k = "manifest")
  BY AfterFile DEF Kinds
<1>4. PICK d \in Outputs : d = iOut[r]
  BY <1>1
<1>5. lake[d] \in [Kinds -> Int] /\ x \in Int /\ Owner(x) = r /\ x # 0
  BY <1>1 DEF InfTypeOK, Owner
<1>6. /\ lake'[d][k] = x /\ \A j \in Kinds : j # k => lake'[d][j] = lake[d][j]
      /\ \A e \in Outputs : e # d => lake'[e] = lake[e]
      /\ lake' \in [Outputs -> [Kinds -> Int]]
  <2>1. PICK row : row = [lake[d] EXCEPT ![k] = x]
    OBVIOUS
  <2>2. row \in [Kinds -> Int] /\ row[k] = x /\ \A j \in Kinds : j # k => row[j] = lake[d][j]
    BY <1>5, <2>1
  <2>3. lake' = [lake EXCEPT ![d] = row]
    BY <1>4, <2>1
  <2> QED  BY <1>1, <2>2, <2>3 DEF InfTypeOK
<1>7. InfTypeOK'
  BY <1>1, <1>3, <1>6 DEF InfTypeOK, Kinds
<1>8. \A q \in Runs : (Live(q)' <=> Live(q)) /\ (Started(q)' <=> Started(q))
  BY <1>1, <1>2, <1>3 DEF Live, Started, Kinds
<1>9. InOrder' /\ NoUriYet' /\ Apart'
  BY <1>8 DEF InfInv, InOrder, NoUriYet, Apart
<1>10. HasOwner'
  <2>1. ASSUME NEW q \in Runs, iPc[q] \in Kinds \cup {"job", "final", "done", "cut"}
        PROVE  iPc'[q] \in Kinds \cup {"job", "final", "done", "cut"}
    BY <1>2, <1>3, <2>1
  <2>2. ASSUME NEW e \in Outputs, NEW j \in Kinds, lake'[e][j] # 0
        PROVE  /\ Owner(lake'[e][j]) \in Runs /\ iOut[Owner(lake'[e][j])] = e
               /\ iPc'[Owner(lake'[e][j])] \in Kinds \cup {"job", "final", "done", "cut"}
    <3>1. CASE e = d /\ j = k
      BY <1>2, <1>3, <1>4, <1>5, <1>6, <3>1
    <3>2. CASE e # d \/ j # k
      BY <1>6, <2>1, <2>2, <3>2 DEF InfInv, HasOwner
    <3> QED  BY <3>1, <3>2
  <2> QED  BY <2>2 DEF HasOwner
<1>11. \A e \in Outputs, j \in Kinds : lake[e][j] \in Int /\ Owner(lake[e][j]) \in Nat
  BY <1>1, RunsAreNumbers
<1>12. r \notin shared => \A j \in Kinds : Owner(lake[d][j]) <= r
  BY <1>1, <1>4, NoneIsLater
<1>13. \A j \in Behind(k) : j # k /\ j \in Kinds
  BY AfterFile
<1>14. Descending'
  <2>1. ASSUME NEW e \in Outputs, NEW i \in Kinds, NEW j \in Behind(i), Owner(lake'[e][j]) \notin shared
        PROVE  Owner(lake'[e][i]) <= Owner(lake'[e][j])
    <3>1. /\ j \in Kinds /\ j # i
          /\ Owner(lake[e][j]) \notin shared => Owner(lake[e][i]) <= Owner(lake[e][j])
      BY <2>1, AfterFile DEF InfInv, Descending
    <3>2. CASE e # d
      BY <1>6, <2>1, <3>1, <3>2
    <3>3. CASE e = d /\ i = k
      <4>1. lake'[d][j] = lake[d][j] /\ Owner(lake'[d][i]) = r
        BY <1>5, <1>6, <3>1, <3>3
      <4>2. lake[d][j] = r \/ Owner(lake[d][j]) > r \/ (r \in shared /\ Owner(lake[d][j]) \in shared)
        BY <1>4, <2>1, <3>3 DEF InfInv, WrittenFiles
      <4> QED  BY <1>1, <1>11, <2>1, <3>1, <3>3, <4>1, <4>2 DEF Owner
    <3>4. CASE e = d /\ j = k
      <4>1. Owner(lake'[e][j]) = r /\ lake'[e][i] = lake[e][i]
        BY <1>5, <1>6, <3>1, <3>4
      <4> QED  BY <1>12, <2>1, <3>4, <4>1
    <3>5. CASE e = d /\ i # k /\ j # k
      BY <1>6, <2>1, <3>1, <3>5
    <3> QED  BY <3>2, <3>3, <3>4, <3>5
  <2> QED  BY <2>1 DEF Descending
<1>15. OpenIsTorn'
  <2>1. ASSUME NEW q \in Runs, iOpen'[q]
        PROVE  iPc'[q] \in Kinds /\ (q \notin shared => lake'[iOut[q]][iPc'[q]] = -q)
    <3>1. CASE q = r
      BY <1>2, <1>4, <1>6, <2>1, <3>1
    <3>2. CASE q # r
      <4>1. iOpen[q] /\ iPc'[q] = iPc[q]
        BY <1>2, <2>1, <3>2
      <4>2. iPc[q] \in Kinds /\ (q \notin shared => lake[iOut[q]][iPc[q]] = -q)
        BY <4>1 DEF InfInv, OpenIsTorn
      <4>3. Live(q) /\ Started(q) /\ iOut[q] \in Outputs
        BY <1>1, <4>2 DEF Live, Started, Kinds, InfTypeOK
      <4>4. CASE iOut[q] = iOut[r]
        BY <1>1, <3>2, <4>1, <4>2, <4>3, <4>4, Neighbours
      <4>5. CASE iOut[q] # iOut[r]
        BY <1>4, <1>6, <4>1, <4>2, <4>3, <4>5
      <4> QED  BY <4>4, <4>5
    <3> QED  BY <3>1, <3>2
  <2> QED  BY <2>1 DEF OpenIsTorn
<1>16. WrittenFiles'
  <2>1. ASSUME NEW q \in Runs, NEW j \in Behind(iPc'[q]), NEW y, y = lake'[iOut[q]][j]
        PROVE  y = q \/ Owner(y) > q \/ (q \in shared /\ Owner(y) \in shared)
    <3>1. j \in Kinds
      BY <2>1 DEF Behind, Kinds
    <3>2. CASE q = r
      <4>1. CASE j = k
        <5>1. to = After(k) /\ (x = r \/ r \in shared)
          BY <1>2, <2>1, <3>2, <4>1, AfterFile
        <5> QED  BY <1>4, <1>5, <1>6, <2>1, <3>2, <4>1, <5>1
      <4>2. CASE j # k
        <5>1. j \in Behind(k) /\ y = lake[iOut[q]][j]
          BY <1>2, <1>4, <1>6, <2>1, <3>1, <3>2, <4>2, AfterFile
        <5> QED  BY <3>2, <5>1 DEF InfInv, WrittenFiles
      <4> QED  BY <4>1, <4>2
    <3>3. CASE q # r
      <4>1. j \in Behind(iPc[q])
        BY <1>2, <2>1, <3>3
      <4>2. iOut[q] \in Outputs /\ Started(q)
        BY <1>1, <4>1 DEF InfTypeOK, Behind, Kinds, Started
      <4>3. CASE iOut[q] = d /\ j = k
        <5>1. Owner(y) = r /\ q \in Nat
          BY <1>1, <1>5, <1>6, <2>1, <4>3, RunsAreNumbers
        <5>2. (q \in shared /\ r \in shared) \/ q < r
          BY <1>1, <1>4, <3>3, <4>2, <4>3, Neighbours
        <5> QED  BY <1>1, <5>1, <5>2
      <4>4. CASE iOut[q] # d \/ j # k
        <5>1. y = lake[iOut[q]][j]
          BY <1>6, <2>1, <3>1, <4>2, <4>4
        <5> QED  BY <4>1, <5>1 DEF InfInv, WrittenFiles
      <4> QED  BY <4>3, <4>4
    <3> QED  BY <3>2, <3>3
  <2> QED  BY <2>1 DEF WrittenFiles
<1>17. ManifestPending'
  <2>1. ASSUME NEW q \in Runs, iPc'[q] \in {"build", "predict"} \cup Kinds
        PROVE  lake'[iOut[q]]["manifest"] # q
    <3>1. iPc[q] \in {"build", "predict"} \cup Kinds
      BY <1>2, <2>1
    <3>2. lake[iOut[q]]["manifest"] # q /\ iOut[q] \in Outputs
      BY <1>1, <3>1 DEF InfInv, ManifestPending, InfTypeOK, Kinds
    <3>3. CASE iOut[q] = d /\ k = "manifest"
      <4>1. CASE q = r
        <5>1. to # "job"
          BY <1>2, <2>1, <4>1 DEF Kinds
        <5>2. x = -r
          BY <3>3, <5>1, AfterFile
        <5> QED  BY <1>1, <1>6, <3>3, <4>1, <5>2
      <4>2. CASE q # r
        <5>1. q \in Nat
          BY <1>1, RunsAreNumbers
        <5> QED  BY <1>1, <1>6, <3>3, <4>2, <5>1
      <4> QED  BY <4>1, <4>2
    <3>4. CASE iOut[q] # d \/ k # "manifest"
      BY <1>6, <3>2, <3>4 DEF Kinds
    <3> QED  BY <3>3, <3>4
  <2> QED  BY <2>1 DEF ManifestPending
<1>18. ManifestWhole'
  <2>1. ASSUME NEW e \in Outputs, NEW j \in Kinds, lake'[e]["manifest"] > 0,
               lake'[e]["manifest"] \notin shared
        PROVE  lake'[e][j] = lake'[e]["manifest"] \/ Owner(lake'[e][j]) > lake'[e]["manifest"]
    <3>1. CASE e # d
      BY <1>6, <2>1, <3>1 DEF InfInv, ManifestWhole
    <3>2. CASE e = d /\ k = "manifest"
      <4>1. x = r /\ r \notin shared /\ lake'[d]["manifest"] = r
        BY <1>1, <1>6, <2>1, <3>2
      <4>2. CASE j = "manifest"
        BY <3>2, <4>1, <4>2
      <4>3. CASE j # "manifest"
        <5>1. j \in Behind(k)
          BY <3>2, <4>3 DEF Behind, Kinds
        <5>2. lake[d][j] = r
          BY <1>1, <1>4, <4>1, <5>1, WrittenAreOwn
        <5> QED  BY <1>6, <3>2, <4>1, <4>3, <5>2
      <4> QED  BY <4>2, <4>3
    <3>3. CASE e = d /\ k # "manifest"
      <4>1. PICK m : m = lake[d]["manifest"]
        OBVIOUS
      <4>2. /\ lake'[d]["manifest"] = m /\ m # r /\ m \in Int /\ m > 0 /\ m \notin shared /\ m = Owner(m)
            /\ lake[d][j] = m \/ Owner(lake[d][j]) > m
        BY <1>1, <1>4, <1>5, <1>6, <2>1, <3>3, <4>1 DEF InfInv, ManifestPending, ManifestWhole, Kinds, Owner
      <4>3. m \in Runs /\ iOut[m] = d /\ Started(m)
        BY <4>1, <4>2 DEF InfInv, HasOwner, Kinds, Started
      <4>4. m < r
        BY <1>1, <1>4, <4>2, <4>3, Neighbours
      <4>5. CASE j = k
        BY <1>5, <1>6, <3>3, <4>2, <4>4, <4>5
      <4>6. CASE j # k
        BY <1>6, <3>3, <4>2, <4>6
      <4> QED  BY <4>5, <4>6
    <3> QED  BY <3>1, <3>2, <3>3
  <2> QED  BY <2>1 DEF ManifestWhole
<1>19. EndedIsWhole'
  <2>1. ASSUME NEW q \in Runs, ToldEnded(q)'
        PROVE  /\ iPc'[q] \in {"final", "done", "cut"}
               /\ q \notin shared => Whole(iOut[q], q)' \/ LaterRun(q)'
    <3>1. iPc[q] \in {"final", "done", "cut"} /\ (q \notin shared => Whole(iOut[q], q) \/ LaterRun(q))
      BY <2>1 DEF InfInv, EndedIsWhole, ToldEnded
    <3>2. q # r /\ iPc'[q] = iPc[q] /\ Started(q)
      BY <1>2, <3>1 DEF Kinds, Started
    <3>3. LaterRun(q) => LaterRun(q)'
      BY <1>8 DEF LaterRun
    <3>4. CASE iOut[q] = d
      <4>1. (q \in shared /\ r \in shared) \/ q < r
        BY <1>1, <1>4, <3>2, <3>4, Neighbours
      <4> QED  BY <1>1, <1>4, <1>8, <3>1, <3>2, <3>4, <4>1 DEF LaterRun
    <3>5. CASE iOut[q] # d
      <4>1. iOut[q] \in Outputs
        BY <1>1, <3>1 DEF InfTypeOK
      <4>2. Whole(iOut[q], q) => Whole(iOut[q], q)'
        BY <1>6, <3>5, <4>1 DEF Whole
      <4> QED  BY <3>1, <3>2, <3>3, <4>2
    <3> QED  BY <3>4, <3>5
  <2> QED  BY <2>1 DEF EndedIsWhole
<1>20. BuildIsCalm'
  <2>1. build.dir # NoUri /\ build.alone => build.dir \in Outputs /\ build.dir # d
    BY <1>1, <1>4 DEF InfInv, BuildIsCalm, Writers
  <2> QED  BY <1>6, <1>8, <2>1 DEF InfInv, BuildIsCalm, Writers
<1>21. DistilledIsSettled'
  BY <1>1, <1>2 DEF InfInv, DistilledIsSettled, Kinds
<1> QED
  BY <1>7, <1>9, <1>10, <1>14, <1>15, <1>16, <1>17, <1>18, <1>19, <1>20, <1>21 DEF InfInv

\* It holds below an empty lake.
LEMMA InfInitInv == InfInit => InfInv
<1> SUFFICES ASSUME InfInit PROVE InfInv
  OBVIOUS
<1>1. InfTypeOK
  BY DEF InfInit, InfTypeOK, Steps
<1>2. Descending /\ WrittenFiles
  <2>1. \A r \in Runs : Behind(iPc[r]) = {}
    BY DEF InfInit, Behind
  <2>2. \A k \in Kinds : Behind(k) \subseteq Kinds
    BY AfterFile
  <2>3. Descending
    BY <2>2 DEF InfInit, Descending, Owner
  <2> QED  BY <2>1, <2>3 DEF WrittenFiles
<1>3. InOrder /\ NoUriYet /\ Apart /\ HasOwner /\ OpenIsTorn
  BY InferenceAssumption DEF InfInit, NoUri, InOrder, NoUriYet, Apart, Started, HasOwner, OpenIsTorn
<1>4. ManifestPending /\ ManifestWhole /\ EndedIsWhole
  BY DEF InfInit, ManifestPending, ManifestWhole, EndedIsWhole, ToldEnded, Kinds
<1>5. BuildIsCalm /\ DistilledIsSettled
  BY DEF InfInit, BuildIsCalm, NoBuild, DistilledIsSettled
<1> QED  BY <1>1, <1>2, <1>3, <1>4, <1>5 DEF InfInv

\* A step that no file, no output and no row is part of.
LEMMA FrameStep ==
  ASSUME InfInv, UNCHANGED <<iPc, iOut, iOpen, shared, lake, jobRow, jobEvent, build, distilled>>
  PROVE  InfInv'
<1>1. InfTypeOK' /\ InOrder' /\ NoUriYet' /\ Apart' /\ HasOwner'
  BY DEF InfInv, InfTypeOK, InOrder, NoUriYet, Apart, Started, Live, HasOwner
<1>2. Descending' /\ OpenIsTorn' /\ WrittenFiles' /\ ManifestPending' /\ ManifestWhole'
  BY DEF InfInv, Descending, OpenIsTorn, WrittenFiles, ManifestPending, ManifestWhole
<1>3. EndedIsWhole'
  BY DEF InfInv, EndedIsWhole, ToldEnded, LaterRun, Started, Whole
<1>4. BuildIsCalm' /\ DistilledIsSettled'
  BY DEF InfInv, BuildIsCalm, Writers, Live, DistilledIsSettled
<1> QED  BY <1>1, <1>2, <1>3, <1>4 DEF InfInv

\* A run starts, or finds no model.  Whoever goes on at its uri shares it from now on.
LEMMA StartStep ==
  ASSUME InfInv, NEW r \in Runs, NEW from, NEW d \in Outputs, NEW fast, InfStart(r, from, d, fast)
  PROVE  InfInv'
<1>1. /\ InfTypeOK /\ iPc[r] = "idle" /\ UNCHANGED <<lake, iOpen, distilled>>
      /\ \A q \in Runs : q \in Nat /\ (q < r => Started(q)) /\ (r <= q => ~Started(q))
  <2>1. InfTypeOK /\ iPc[r] = "idle" /\ UNCHANGED <<lake, iOpen, distilled>>
    BY DEF InfStart, InfInv
  <2>2. \A q \in Runs : q \in Nat /\ (q < r => Started(q))
    BY InferenceAssumption DEF InfStart, Runs, Started
  <2>3. \A q \in Runs : r <= q => ~Started(q)
    BY <2>1, <2>2 DEF InfInv, InOrder, Started
  <2> QED  BY <2>1, <2>2, <2>3
<1>2. PICK to \in {"build", "error"} :
        /\ iPc' = [iPc EXCEPT ![r] = to]
        /\ to = "build" => /\ iOut' = [iOut EXCEPT ![r] = d]
                           /\ shared' = shared \cup IF Writers(d) = {} THEN {} ELSE Writers(d) \cup {r}
                           /\ build' = [build EXCEPT !.alone = @ /\ build.dir # d]
        /\ to = "error" => UNCHANGED <<iOut, shared, build>>
        /\ jobRow' = [q \in Runs |-> jobRow'[q]] /\ jobEvent' = [q \in Runs |-> jobEvent'[q]]
        /\ \A q \in Runs : q # r => jobRow'[q] = jobRow[q] /\ jobEvent'[q] = jobEvent[q]
        /\ jobRow'[r] \in {jobRow[r], "CREATED"} /\ jobEvent'[r] \in {jobEvent[r], "CREATED"}
  <2>1. CASE Found
    BY <1>1, <2>1 DEF InfStart, InfTypeOK
  <2>2. CASE ~Found
    BY <1>1, <2>2 DEF InfStart, InfTypeOK
  <2> QED  BY <2>1, <2>2
<1>3. /\ iPc'[r] = to /\ \A q \in Runs : q # r => iPc'[q] = iPc[q] /\ iOut'[q] = iOut[q]
      /\ to = "build" => iOut'[r] = d
      /\ iOut' = [q \in Runs |-> iOut'[q]]
  BY <1>1, <1>2 DEF InfTypeOK
<1>4. shared \subseteq shared' /\ shared' \subseteq Runs
  BY <1>1, <1>2 DEF Writers, InfTypeOK
<1>5. InfTypeOK'
  <2>1. iPc' \in [Runs -> Steps]
    BY <1>1, <1>2 DEF InfTypeOK, Steps
  <2>2. \A q \in Runs : iPc'[q] \notin {"idle", "error"} => iOut'[q] \in Outputs
    BY <1>1, <1>2, <1>3 DEF InfTypeOK
  <2> QED  BY <1>1, <1>2, <1>3, <1>4, <2>1, <2>2 DEF InfTypeOK
<1>6. \A q \in Runs : /\ q # r => (Started(q)' <=> Started(q)) /\ (Live(q)' <=> Live(q))
                      /\ Started(q) => q # r /\ Started(q)'
  BY <1>1, <1>2, <1>3 DEF Started, Live
<1>7. InOrder'
  <2>1. ASSUME NEW q \in Runs, NEW p \in Runs, q < p, Started(p)' PROVE Started(q)'
    <3>1. CASE p = r
      BY <1>1, <1>6, <2>1, <3>1
    <3>2. CASE p # r
      BY <1>1, <1>6, <2>1, <3>2 DEF InfInv, InOrder
    <3> QED  BY <3>1, <3>2
  <2> QED  BY <2>1 DEF InOrder
<1>8. Apart'
  <2>1. ASSUME NEW q \in Runs, NEW p \in Runs, q < p, Started(p)', iOut'[q] = iOut'[p], Live(q)'
        PROVE  q \in shared' /\ p \in shared'
    <3>1. CASE q = r
      BY <1>1, <1>6, <2>1, <3>1
    <3>2. CASE q # r /\ p # r
      BY <1>3, <1>4, <1>6, <2>1, <3>2 DEF InfInv, Apart
    <3>3. CASE q # r /\ p = r
      <4>1. Live(q) /\ iOut[q] = iOut'[r]
        BY <1>3, <1>6, <2>1, <3>3
      <4>2. CASE to = "build"
        <5>1. q \in Writers(d)
          BY <1>3, <4>1, <4>2 DEF Writers
        <5> QED  BY <1>2, <3>3, <4>2, <5>1
      <4>3. CASE to = "error"
        <5>1. iOut[q] \in Outputs /\ iOut[q] = iOut[r] /\ ~Started(r)
          BY <1>1, <1>2, <4>1, <4>3 DEF InfTypeOK, Live, Started
        <5> QED  BY <5>1 DEF InfInv, NoUriYet
      <4> QED  BY <1>2, <4>2, <4>3
    <3> QED  BY <3>1, <3>2, <3>3
  <2> QED  BY <2>1 DEF Apart
<1>9. \A e \in Outputs, k \in Kinds : lake[e][k] # 0 => Owner(lake[e][k]) \in Runs /\ Owner(lake[e][k]) # r
  BY <1>1 DEF InfInv, HasOwner, Kinds
<1>10. HasOwner'
  BY <1>1, <1>3, <1>9 DEF InfInv, HasOwner
<1>11. Descending' /\ ManifestWhole'
  BY <1>1, <1>4 DEF InfInv, Descending, ManifestWhole
<1>12. OpenIsTorn'
  <2>1. \A q \in Runs : iOpen[q] => q # r
    BY <1>1 DEF InfInv, OpenIsTorn, Kinds
  <2> QED  BY <1>1, <1>3, <1>4, <2>1 DEF InfInv, OpenIsTorn
<1>13. WrittenFiles'
  <2>1. Behind(to) = {}
    BY <1>2 DEF Behind
  <2> QED  BY <1>1, <1>3, <1>4, <2>1 DEF InfInv, WrittenFiles
<1>14. ManifestPending'
  <2>1. to = "build" => lake[d]["manifest"] # r
    <3>1. r > 0 /\ r \in Nat
      BY InferenceAssumption DEF Runs
    <3> QED  BY <1>9, <3>1 DEF Kinds, Owner
  <2>2. to = "error" => to \notin {"build", "predict"} \cup Kinds
    BY DEF Kinds
  <2> QED  BY <1>1, <1>2, <1>3, <2>1, <2>2 DEF InfInv, ManifestPending
<1>15. EndedIsWhole'
  <2>1. ASSUME NEW q \in Runs, ToldEnded(q)'
        PROVE  /\ iPc'[q] \in {"final", "done", "cut"}
               /\ q \notin shared' => Whole(iOut[q], q)' \/ LaterRun(q)'
    <3>1. q # r /\ ToldEnded(q)
      BY <1>1, <1>2, <2>1 DEF InfInv, EndedIsWhole, ToldEnded
    <3>2. iPc[q] \in {"final", "done", "cut"} /\ (q \notin shared => Whole(iOut[q], q) \/ LaterRun(q))
      BY <3>1 DEF InfInv, EndedIsWhole
    <3>3. LaterRun(q) => LaterRun(q)'
      BY <1>3, <1>6, <3>1 DEF LaterRun
    <3>4. Whole(iOut[q], q) => Whole(iOut[q], q)'
      BY <1>1, <1>3, <3>1 DEF Whole
    <3> QED  BY <1>3, <1>4, <3>1, <3>2, <3>3, <3>4
  <2> QED  BY <2>1 DEF EndedIsWhole
<1>16. BuildIsCalm'
  <2>1. CASE to = "error"
    <3>1. \A q \in Runs : Live(q)' => q # r
      BY <1>3, <2>1 DEF Live
    <3> QED  BY <1>1, <1>2, <1>3, <1>6, <2>1, <3>1 DEF InfInv, BuildIsCalm, Writers
  <2>2. CASE to = "build"
    <3>1. /\ build' \in [dir : Outputs \cup {NoUri}, rows : Int, alone : BOOLEAN]
          /\ build'.dir = build.dir /\ build'.rows = build.rows
          /\ build'.alone => build.alone /\ build.dir # d
      BY <1>2, <2>2 DEF InfInv, BuildIsCalm
    <3>2. ASSUME build'.dir # NoUri, build'.alone PROVE Writers(build.dir)' = {}
      BY <1>3, <1>6, <2>2, <3>1, <3>2 DEF InfInv, BuildIsCalm, Writers
    <3> QED  BY <1>1, <3>1, <3>2 DEF InfInv, BuildIsCalm
  <2> QED  BY <1>2, <2>1, <2>2
<1>18. NoUriYet'
  BY <1>2, <1>3, <1>6 DEF InfInv, NoUriYet, Started
<1>17. DistilledIsSettled'
  BY <1>1, <1>3, <1>4 DEF InfInv, DistilledIsSettled
<1> QED
  BY <1>5, <1>7, <1>8, <1>10, <1>11, <1>12, <1>13, <1>14, <1>15, <1>16, <1>17, <1>18 DEF InfInv

\* Distillation data are built from what lies there; they are judged when nobody wrote meanwhile.
LEMMA DistillStep ==
  ASSUME InfInv, DistillBuild \/ \E d \in Outputs : DistillRead(d) PROVE InfInv'
<1>1. UNCHANGED <<iPc, iOut, iOpen, shared, lake, jobRow, jobEvent>>
  BY DEF DistillBuild, DistillRead, runVars, dbVars
<1>2. /\ InfTypeOK' /\ InOrder' /\ NoUriYet' /\ Apart' /\ HasOwner' /\ Descending' /\ OpenIsTorn' /\ WrittenFiles'
      /\ ManifestPending' /\ ManifestWhole' /\ EndedIsWhole'
  BY <1>1 DEF InfInv, InfTypeOK, InOrder, NoUriYet, Apart, Started, HasOwner, Descending, OpenIsTorn, WrittenFiles,
       ManifestPending, ManifestWhole, EndedIsWhole, ToldEnded, LaterRun, Whole, Live
<1>3. ASSUME NEW d \in Outputs, DistillRead(d) PROVE BuildIsCalm' /\ DistilledIsSettled'
  <2>1. /\ build' = [dir |-> d, rows |-> lake[d]["predictions"], alone |-> Writers(d) = {}]
        /\ lake[d]["predictions"] > 0 /\ UNCHANGED distilled
    BY <1>3 DEF DistillRead
  <2>2. lake[d]["predictions"] \in Int
    BY DEF InfInv, InfTypeOK, Kinds
  <2>3. /\ build' \in [dir : Outputs \cup {NoUri}, rows : Int, alone : BOOLEAN]
        /\ build'.dir = d /\ build'.rows = lake[d]["predictions"]
        /\ build'.alone => Writers(d) = {}
    BY <2>1, <2>2
  <2>4. Writers(d)' = Writers(d)
    BY <1>1 DEF Writers, Live
  <2> QED  BY <1>1, <2>1, <2>3, <2>4 DEF InfInv, BuildIsCalm, DistilledIsSettled
<1>4. ASSUME DistillBuild PROVE BuildIsCalm' /\ DistilledIsSettled'
  <2>1. build.dir # NoUri /\ build' = NoBuild
        /\ distilled' = [rows |-> build.rows, source |-> Teacher(build.dir), alone |-> build.alone]
    BY <1>4 DEF DistillBuild
  <2>2. PICK d \in Outputs, x \in Int, y \in Int :
          d = build.dir /\ x = lake[d]["predictions"] /\ y = lake[d]["report"]
    BY <2>1 DEF InfInv, BuildIsCalm, InfTypeOK, Kinds
  <2>3. ASSUME distilled'.alone, distilled'.rows \notin shared
        PROVE  \/ distilled'.source = distilled'.rows
               \/ /\ distilled'.rows \in Runs /\ distilled'.source < distilled'.rows
                  /\ iPc[distilled'.rows] = "cut"
    <3>1. Writers(d) = {} /\ x > 0 /\ build.rows = x /\ distilled'.rows = x /\ x \notin shared
      BY <2>1, <2>2, <2>3 DEF InfInv, BuildIsCalm
    <3>2. Owner(x) = x /\ x \in Runs /\ iOut[x] = d /\ iPc[x] \in Kinds \cup {"job", "final", "done", "cut"}
      BY <2>2, <3>1 DEF InfInv, HasOwner, Owner, Kinds
    <3>3. iPc[x] \in {"done", "cut"}
      BY <3>1, <3>2 DEF Writers, Live, Kinds
    <3>4. Owner(y) <= x
      BY <2>2, <3>1, <3>2 DEF InfInv, Descending, Behind, Kinds
    <3>5. iPc[x] = "done" => y = x
      <4>1. ASSUME iPc[x] = "done" PROVE y = x \/ Owner(y) > x
        BY <2>2, <3>1, <3>2, <4>1 DEF InfInv, WrittenFiles, Behind, Kinds
      <4> QED  BY <3>1, <3>4, <4>1 DEF Owner
    <3>6. Teacher(d) = IF y > 0 THEN y ELSE 0
      BY <2>2 DEF Teacher, Max
    <3>7. distilled'.source = IF y > 0 THEN y ELSE 0
      BY <2>1, <2>2, <3>6
    <3>8. y = x \/ y < x
      BY <3>1, <3>4 DEF Owner
    <3> QED  BY <3>1, <3>2, <3>3, <3>5, <3>7, <3>8
  <2>4. DistilledIsSettled'
    BY <1>1, <2>3 DEF DistilledIsSettled
  <2>5. BuildIsCalm'
    BY <2>1 DEF BuildIsCalm, NoBuild
  <2> QED  BY <2>4, <2>5
<1> QED  BY <1>2, <1>3, <1>4 DEF InfInv

\* Every step of a run, of the outages and of distillation keeps it.
LEMMA InfStepInv == InfInv /\ [InfNext]_infVars => InfInv'
<1> SUFFICES ASSUME InfInv, [InfNext]_infVars PROVE InfInv'
  OBVIOUS
<1>1. InfTypeOK
  BY DEF InfInv
<1>2. ASSUME NEW r \in Runs, InfRun(r) PROVE InfInv'
  <2>0. iPc[r] \notin Kinds => ~iOpen[r]
    BY DEF InfInv, OpenIsTorn
  <2>1. CASE InfBuild(r)
    <3>1. PICK to \in {"error", "predict"} :
            /\ iPc[r] = "build" /\ iPc' = [iPc EXCEPT ![r] = to]
            /\ UNCHANGED <<lake, iOut, iOpen, shared, build, distilled>>
            /\ jobRow' = [q \in Runs |-> jobRow'[q]] /\ jobEvent' = [q \in Runs |-> jobEvent'[q]]
            /\ \A q \in Runs : q # r => jobRow'[q] = jobRow[q] /\ jobEvent'[q] = jobEvent[q]
            /\ jobRow'[r] \in {jobRow[r], "RUNNING"} /\ jobEvent'[r] \in {jobEvent[r], "STARTED"}
      <4>1. UNCHANGED <<lake, iOut, iOpen, shared, build, distilled>> /\ iPc[r] = "build"
        BY <2>1 DEF InfBuild, distillVars
      <4>2. \/ iPc' = [iPc EXCEPT ![r] = "error"] /\ UNCHANGED <<jobRow, jobEvent>>
            \/ /\ iPc' = [iPc EXCEPT ![r] = "predict"] /\ RowIs(r, "RUNNING")
               /\ jobEvent' = [jobEvent EXCEPT ![r] = "STARTED"]
        BY <2>1 DEF InfBuild
      <4> QED  BY <1>1, <4>1, <4>2 DEF InfTypeOK, RowIs
    <3>2. ~ToldEnded(r) /\ Live(r)
      BY <3>1 DEF InfInv, EndedIsWhole, Live
    <3>3. ~ToldEnded(r)' /\ \A q \in Runs : q # r => (ToldEnded(q)' => ToldEnded(q))
      BY <3>1, <3>2 DEF ToldEnded
    <3>4. Behind(to) = {} /\ to \in Steps \ {"idle"}
      BY <3>1 DEF Behind, Steps
    <3>5. iPc[r] \notin Kinds \cup {"job", "final"}
      BY <3>1 DEF Kinds
    <3>6. iOpen' \in [Runs -> BOOLEAN] /\ ~iOpen'[r]
      BY <1>1, <2>0, <3>1, <3>5 DEF InfTypeOK
    <3> QED  BY <3>1, <3>2, <3>3, <3>4, <3>5, <3>6, QuietStep
  <2>2. CASE InfCollect(r)
    <3>1. /\ iPc[r] = "predict" /\ iPc' = [iPc EXCEPT ![r] = "predictions"]
          /\ UNCHANGED <<lake, iOut, iOpen, shared, build, distilled, jobRow, jobEvent>>
      BY <2>2, StepsInOrder DEF InfCollect, distillVars, dbVars
    <3>2. ~ToldEnded(r)' /\ \A q \in Runs : q # r => (ToldEnded(q)' => ToldEnded(q))
      BY <3>1 DEF InfInv, EndedIsWhole, ToldEnded
    <3>3. Behind("predictions") = {} /\ "predictions" \in Steps \ {"idle"} /\ Live(r)
      BY <3>1 DEF Behind, Steps, Kinds, Live
    <3>4. iPc[r] \notin Kinds \cup {"job", "final"}
      BY <3>1 DEF Kinds
    <3>5. jobRow' = [q \in Runs |-> jobRow'[q]] /\ jobEvent' = [q \in Runs |-> jobEvent'[q]]
      BY <1>1, <3>1 DEF InfTypeOK
    <3>6. iOpen' \in [Runs -> BOOLEAN] /\ ~iOpen'[r]
      BY <1>1, <2>0, <3>1, <3>4 DEF InfTypeOK
    <3> QED  BY <3>1, <3>2, <3>3, <3>4, <3>5, <3>6, QuietStep
  <2>3. CASE InfOpen(r)
    <3>1. PICK k \in Kinds : k = iPc[r]
      BY <2>3 DEF InfOpen
    <3>2. /\ lake' = [lake EXCEPT ![iOut[r]][k] = -r] /\ iPc' = [iPc EXCEPT ![r] = k] /\ k \in Steps
          /\ iOpen' = [iOpen EXCEPT ![r] = TRUE]
          /\ UNCHANGED <<iOut, shared, jobRow, jobEvent, build, distilled>>
      BY <1>1, <2>3, <3>1 DEF InfOpen, dbVars, distillVars, InfTypeOK, Steps
    <3>3. iOpen' \in [Runs -> BOOLEAN] /\ \A q \in Runs : q # r => (iOpen'[q] => iOpen[q])
      BY <1>1, <3>2 DEF InfTypeOK
    <3>4. PICK x \in {r, -r} : x = -r
      OBVIOUS
    <3> QED  BY <3>1, <3>2, <3>3, <3>4, FileStep
  <2>4. CASE InfWrite(r)
    <3>1. PICK k \in Kinds : k = iPc[r]
      BY <2>4 DEF InfWrite
    <3>2. /\ iPc' = [iPc EXCEPT ![r] = After(k)] /\ iOpen' = [iOpen EXCEPT ![r] = FALSE]
          /\ UNCHANGED <<iOut, shared, jobRow, jobEvent, build, distilled>>
      BY <2>4, <3>1 DEF InfWrite, dbVars, distillVars
    <3>3. PICK x \in {r, -r} : lake' = [lake EXCEPT ![iOut[r]][k] = x] /\ (x # r => Mixed(r))
      BY <2>4, <3>1 DEF InfWrite
    <3>4. x = r \/ r \in shared
      <4>1. Mixed(r) => iOpen[r]
        BY <2>4 DEF InfWrite, Mixed
      <4> QED  BY <3>3, <4>1, MixedIsShared
    <3>5. /\ iOpen' \in [Runs -> BOOLEAN] /\ ~iOpen'[r]
          /\ \A q \in Runs : q # r => (iOpen'[q] => iOpen[q])
      BY <1>1, <3>2 DEF InfTypeOK
    <3>6. After(k) \in Steps
      BY AfterFile DEF Steps
    <3> QED  BY <3>1, <3>2, <3>3, <3>4, <3>5, <3>6, FileStep
  <2>5. CASE InfRecord(r) \/ InfFinal(r)
    <3>1. PICK to \in {"final", "done"} :
            /\ iPc[r] \in {"job", "final"} /\ iPc' = [iPc EXCEPT ![r] = to]
            /\ UNCHANGED <<lake, iOut, iOpen, shared, build, distilled>>
            /\ jobRow' = [q \in Runs |-> jobRow'[q]] /\ jobEvent' = [q \in Runs |-> jobEvent'[q]]
            /\ \A q \in Runs : q # r => jobRow'[q] = jobRow[q] /\ jobEvent'[q] = jobEvent[q]
      BY <1>1, <2>5, StepsInOrder DEF InfRecord, InfFinal, RowIs, distillVars, InfTypeOK
    <3>2. Live(r) /\ Behind(to) = Kinds /\ Behind(iPc[r]) = Kinds /\ to \in Steps \ {"idle"}
      BY <3>1 DEF Live, Behind, Steps
    <3>3. r \in shared \/ Whole(iOut[r], r)
      BY <3>2, WrittenAreOwn DEF Whole
    <3>4. \A q \in Runs : q # r => (ToldEnded(q)' => ToldEnded(q))
      BY <3>1 DEF ToldEnded
    <3>5. to \notin {"build", "predict"} \cup Kinds /\ iPc[r] \notin Kinds
      BY <3>1 DEF Kinds
    <3>6. iOpen' \in [Runs -> BOOLEAN] /\ ~iOpen'[r]
      BY <1>1, <2>0, <3>1, <3>5 DEF InfTypeOK
    <3> QED  BY <3>1, <3>2, <3>3, <3>4, <3>5, <3>6, QuietStep
  <2>6. CASE InfCut(r)
    <3>1. /\ Live(r) /\ iPc' = [iPc EXCEPT ![r] = "cut"] /\ iOpen' = [iOpen EXCEPT ![r] = FALSE]
          /\ UNCHANGED <<lake, iOut, shared, build, distilled, jobRow, jobEvent>>
      BY <2>6 DEF InfCut, distillVars, dbVars
    <3>2. Behind("cut") = {} /\ "cut" \in Steps \ {"idle"}
      BY DEF Behind, Steps
    <3>3. \A q \in Runs : ToldEnded(q)' => ToldEnded(q)
      BY <3>1 DEF ToldEnded
    <3>4. jobRow' = [q \in Runs |-> jobRow'[q]] /\ jobEvent' = [q \in Runs |-> jobEvent'[q]]
      BY <1>1, <3>1 DEF InfTypeOK
    <3>5. "cut" \notin {"build", "predict"} \cup Kinds
      BY DEF Kinds
    <3>6. iOpen' \in [Runs -> BOOLEAN] /\ ~iOpen'[r] /\ \A q \in Runs : iOpen'[q] => iOpen[q]
      BY <1>1, <3>1 DEF InfTypeOK
    <3> QED  BY <3>1, <3>2, <3>3, <3>4, <3>5, <3>6, QuietStep
  <2>7. ASSUME NEW b, InfCall(r, b) PROVE InfInv'
    <3>1. iPc[r] = "predict" /\ UNCHANGED <<iOut, iOpen, shared, lake, jobRow, jobEvent, build, distilled>>
      BY <2>7 DEF InfCall, dbVars, distillVars
    <3>2. UNCHANGED iPc \/ iPc' = [iPc EXCEPT ![r] = "error"]
      BY <2>7 DEF InfCall
    <3>3. CASE UNCHANGED iPc
      BY <3>1, <3>3, FrameStep
    <3>4. CASE iPc' = [iPc EXCEPT ![r] = "error"]
      <4>1. ~ToldEnded(r)' /\ \A q \in Runs : ToldEnded(q)' => ToldEnded(q)
        BY <3>1 DEF InfInv, EndedIsWhole, ToldEnded
      <4>2. Behind("error") = {} /\ "error" \in Steps \ {"idle"} /\ Live(r)
        BY <3>1 DEF Behind, Steps, Kinds, Live
      <4>3. iPc[r] \notin Kinds \cup {"job", "final"} /\ "error" \notin {"build", "predict"} \cup Kinds
        BY <3>1 DEF Kinds
      <4>4. jobRow' = [q \in Runs |-> jobRow'[q]] /\ jobEvent' = [q \in Runs |-> jobEvent'[q]]
        BY <1>1, <3>1 DEF InfTypeOK
      <4>5. iOpen' \in [Runs -> BOOLEAN] /\ ~iOpen'[r]
        BY <1>1, <2>0, <3>1, <4>3 DEF InfTypeOK
      <4> QED  BY <3>1, <3>4, <4>1, <4>2, <4>3, <4>4, <4>5, QuietStep
    <3> QED  BY <3>2, <3>3, <3>4
  <2>8. ASSUME NEW from, NEW d \in Outputs, NEW fast, InfStart(r, from, d, fast) PROVE InfInv'
    BY <2>8, StartStep
  <2> QED  BY <1>2, <2>1, <2>2, <2>3, <2>4, <2>5, <2>6, <2>7, <2>8 DEF InfRun
<1>3. CASE Register \/ DbFlips \/ UNCHANGED infVars
  <2>1. UNCHANGED <<iPc, iOut, iOpen, shared, lake, jobRow, jobEvent, build, distilled>>
    BY <1>3 DEF Register, DbFlips, infVars, runVars, dbVars, distillVars
  <2> QED  BY <2>1, FrameStep
<1>4. CASE DistillBuild \/ \E d \in Outputs : DistillRead(d)
  BY <1>4, DistillStep
<1> QED  BY <1>2, <1>3, <1>4 DEF InfNext

\* The invariant holds in every behaviour of runs, retries, outages, deaths and distillation.
THEOREM InfInvariant == InfSpec => []InfInv
BY InfInitInv, InfStepInv, PTL DEF InfSpec

\* The files below an output uri are those of the run that the row, the log or the manifest speaks
\* of, unless that run had company there (run_inference: files, then rows, then the final event).
THEOREM FilesOfTheRun == InfSpec => []FilesAreOfTheRun
<1>1. ASSUME InfInv PROVE EndedHasFiles
  <2>1. \A r \in Runs : LaterRun(r) => Rewritten(r)
    BY DEF LaterRun, Rewritten
  <2> QED  BY <1>1, <2>1 DEF InfInv, EndedIsWhole, ToldEnded, EndedHasFiles
<1>2. ASSUME InfInv PROVE ManifestIsLast
  <2>1. ASSUME NEW d \in Outputs, NEW k \in Kinds, lake[d]["manifest"] > 0, lake[d]["manifest"] \notin shared,
               lake[d][k] # lake[d]["manifest"]
        PROVE  \E q \in Runs : q \in {lake[d][k], -lake[d][k]} /\ q > lake[d]["manifest"] /\ iPc[q] # "done"
    <3>1. PICK m, x, q : m = lake[d]["manifest"] /\ x = lake[d][k] /\ q = Owner(x)
      OBVIOUS
    <3>2. m \in Int /\ x \in Int /\ q > m /\ m > 0
      BY <1>2, <2>1, <3>1 DEF InfInv, ManifestWhole, InfTypeOK, Kinds
    <3>3. q \in {x, -x} /\ x # 0
      BY <3>1, <3>2 DEF Owner
    <3>4. q \in Runs /\ iOut[q] = d
      BY <1>2, <3>1, <3>3 DEF InfInv, HasOwner
    <3>5. q \in Int /\ Owner(m) = m
      BY <3>1, <3>2 DEF Owner
    <3>6. iPc[q] = "done" => m = q \/ Owner(m) > q \/ Owner(m) \in shared
      BY <1>2, <3>1, <3>4 DEF InfInv, WrittenFiles, Behind, Kinds
    <3> QED  BY <2>1, <3>1, <3>2, <3>3, <3>4, <3>5, <3>6
  <2> QED  BY <2>1 DEF ManifestIsLast
<1>3. InfInv => FilesAreOfTheRun
  BY <1>1, <1>2 DEF FilesAreOfTheRun
<1> QED  BY InfInvariant, <1>3, PTL

\* Distillation data name the job whose predictions they hold (build_distill), but for a run that was
\* cut before its report, one that had company at its uri, and a build that had.
THEOREM SourceNamed == InfSpec => []DistilledNamesSource
<1>1. InfInv => DistilledNamesSource
  BY DEF InfInv, DistilledIsSettled, DistilledNamesSource
<1> QED  BY InfInvariant, <1>1, PTL

-----------------------------------------------------------------------------
(* Batch inference: whose answers they are.                                *)
(*                                                                         *)
(* While a batch is under way its answers lie under the ids they carry     *)
(* (OwnDict); from there they are put into the slot of the batch, each at  *)
(* the place of the sample that has the id (InOwnSlot).  The predictions   *)
(* are the slots of all batches put together: the answers lie where their  *)
(* samples do unless a batch without answers comes before one with         *)
(* answers, and fail-fast, the only way to stop early, calls one batch     *)
(* after the other (NoGap).                                                *)

IsList(s) == Len(s) \in Nat /\ s = [i \in 1 .. Len(s) |-> s[i]]

\* The samples of a batch: those after Start, up to End.
Start(b) == (b - 1) * BatchSize
End(n, b) == IF b * BatchSize <= n THEN b * BatchSize ELSE n

\* What was asked about a sample with that id.
AskedOf(answer, samples, id) ==
  \E k \in 1 .. Len(samples) : samples[k].id = id /\ answer.ask = Prompt(samples[k])

\* Answers under the ids they carry, to samples that have them.
OwnDict(dict, samples) ==
  \A i \in DOMAIN dict : dict[i].id = i /\ AskedOf(dict[i], samples, i)
OwnDicts(dicts, samples) ==
  /\ dicts = [b \in 1 .. Batches(Len(samples)) |-> dicts[b]]
  /\ \A b \in 1 .. Batches(Len(samples)) : OwnDict(dicts[b], samples)

\* An answer that may stand for the sample at a place.
AnswerTo(answer, samples, i) == answer.id = samples[i].id /\ AskedOf(answer, samples, samples[i].id)

\* Answers to the samples of a batch, each at the place of its sample.
AnswersFor(answers, samples, b) ==
  /\ IsList(answers) /\ Len(answers) = End(Len(samples), b) - Start(b)
  /\ \A k \in 1 .. Len(answers) : AnswerTo(answers[k], samples, Start(b) + k)

InOwnSlot(slots, samples) ==
  /\ slots = [b \in 1 .. Batches(Len(samples)) |-> slots[b]]
  /\ \A b \in 1 .. Batches(Len(samples)) : slots[b] # <<>> => AnswersFor(slots[b], samples, b)

\* Nothing comes after a batch that has no answers yet.
NoGap(slots) == \A b \in DOMAIN slots : slots[b] # <<>> => \A c \in 1 .. b - 1 : slots[c] # <<>>

AnsTypeOK ==
  /\ iFast = [r \in Runs |-> iFast[r]] /\ iSamples = [r \in Runs |-> iSamples[r]]
  /\ iResults = [r \in Runs |-> iResults[r]] /\ iBusy = [r \in Runs |-> iBusy[r]]
  /\ iPreds = [r \in Runs |-> iPreds[r]]
  /\ \A r \in Runs : IsList(iSamples[r])

PredictsInSlots ==
  \A r \in Runs : iPc[r] = "predict" =>
    /\ iSamples[r] # <<>>
    /\ InOwnSlot(iResults[r], iSamples[r]) /\ OwnDicts(iBusy[r], iSamples[r])
    /\ iFast[r] => NoGap(iResults[r])

NoneBefore == \A r \in Runs : iPc[r] \in {"idle", "build", "predict"} => iPreds[r] = <<>>

AnsInv == InfInv /\ AnsTypeOK /\ PredictsInSlots /\ NoneBefore /\ AnswersItsSample

\* A list is a sequence of its elements, and the other way round.
LEMMA ListIsSeq == ASSUME NEW s, IsList(s) PROVE s \in Seq({s[i] : i \in 1 .. Len(s)})
BY DEF IsList

\* A sequence is a list.
LEMMA SeqIsList == ASSUME NEW U, NEW s \in Seq(U) PROVE IsList(s)
<1>1. Len(s) \in Nat /\ s \in [1 .. Len(s) -> U]
  BY LenProperties
<1> QED  BY <1>1 DEF IsList

\* The parts of a list, put together.
LEMMA FlattenIsList ==
  ASSUME NEW U, NEW s \in Seq(Seq(U)) PROVE FlattenSeq(s) \in Seq(U)
<1>1. CASE s = <<>>
  BY <1>1 DEF FlattenSeq
<1>2. CASE s # <<>>
  <2>1. PICK F : Joins(F, s) /\ FlattenSeq(s) = F[Len(s)]
    BY <1>2, Flattening
  <2>2. Len(s) \in 1 .. Len(s)
    BY <1>2
  <2> QED  BY <2>1, <2>2, JoinsAreLists
<1> QED  BY <1>1, <1>2

\* Where the batches lie.
LEMMA BatchBounds ==
  ASSUME NEW n \in Nat \ {0}, NEW b \in 1 .. Batches(n)
  PROVE  /\ Batches(n) \in Nat
         /\ Start(b) \in Nat /\ Start(b) < End(n, b) /\ End(n, b) \in Nat /\ End(n, b) <= n
         /\ b > 1 => Start(b) = End(n, b - 1)
         /\ b * BatchSize \in Nat /\ b * BatchSize = Start(b) + BatchSize
<1>1. BatchSize \in Nat \ {0}
  BY InferenceAssumption
<1>2. /\ Batches(n) \in Nat /\ BatchSize * Batches(n) <= n + BatchSize - 1
  BY <1>1 DEF Batches
<1>3. b \in Nat \ {0} /\ b <= Batches(n)
  BY <1>2
<1>4. b * BatchSize <= BatchSize * Batches(n)
  BY <1>1, <1>2, <1>3
<1>5. Start(b) \in Nat /\ b * BatchSize = Start(b) + BatchSize /\ b * BatchSize \in Nat
  BY <1>1, <1>3 DEF Start
<1>6. Start(b) < n
  BY <1>1, <1>2, <1>4, <1>5
<1>7. b > 1 => Start(b) = End(n, b - 1)
  <2>1. Start(b) = (b - 1) * BatchSize
    BY DEF Start
  <2> QED  BY <1>5, <1>6, <2>1 DEF End
<1> QED  BY <1>1, <1>2, <1>5, <1>6, <1>7 DEF End
\* There is a batch, however few samples there are.
LEMMA OneBatch == ASSUME NEW n \in Nat \ {0} PROVE Batches(n) \in Nat \ {0}
BY InferenceAssumption DEF Batches

\* Slots are lists of answers, so that FlattenSeq puts them together.
LEMMA SlotsAreLists ==
  ASSUME NEW samples, IsList(samples), samples # <<>>, NEW slots, InOwnSlot(slots, samples)
  PROVE  /\ Len(samples) \in Nat \ {0} /\ Len(slots) = Batches(Len(samples)) /\ slots # <<>>
         /\ \E U : slots \in Seq(Seq(U))
<1>1. Len(samples) \in Nat \ {0}
  BY ListIsSeq DEF IsList
<1>2. Batches(Len(samples)) \in Nat \ {0}
  BY <1>1, OneBatch
<1> DEFINE U == {slots[bk[1]][bk[2]] : bk \in (1 .. Batches(Len(samples))) \X Nat}
<1>3. ASSUME NEW b \in 1 .. Batches(Len(samples)) PROVE slots[b] \in Seq(U)
  <2>1. CASE slots[b] = <<>>
    BY <2>1
  <2>2. CASE slots[b] # <<>>
    <3>1. IsList(slots[b])
      BY <2>2 DEF InOwnSlot, AnswersFor
    <3>2. ASSUME NEW k \in 1 .. Len(slots[b]) PROVE slots[b][k] \in U
      <4>1. k \in Nat
        BY <3>1 DEF IsList
      <4>2. <<b, k>> \in (1 .. Batches(Len(samples))) \X Nat /\ <<b, k>>[1] = b /\ <<b, k>>[2] = k
        BY <4>1
      <4> QED  BY <4>2
    <3> HIDE DEF U
    <3> QED  BY <3>1, <3>2 DEF IsList
  <2> QED  BY <2>1, <2>2
<1> HIDE DEF U
<1>4. slots \in Seq(Seq(U)) /\ Len(slots) = Batches(Len(samples))
  BY <1>2, <1>3 DEF InOwnSlot
<1>5. slots # <<>>
  BY <1>2, <1>4
<1> QED  BY <1>1, <1>4, <1>5

\* Put together, the answers lie where their samples do: the only way to shift them is a
\* batch without answers in front of one with answers.
LEMMA InTheirPlaces ==
  ASSUME NEW samples, IsList(samples), samples # <<>>,
         NEW slots, InOwnSlot(slots, samples), NoGap(slots)
  PROVE  \A i \in 1 .. Len(samples) :
           i <= Len(FlattenSeq(slots)) => AnswerTo(FlattenSeq(slots)[i], samples, i)
<1>1. PICK n \in Nat \ {0}, m \in Nat \ {0} : n = Len(samples) /\ m = Batches(n) /\ m = Len(slots)
  BY SlotsAreLists, OneBatch
<1>2. PICK U : slots \in Seq(Seq(U)) /\ slots # <<>>
  BY SlotsAreLists
<1>3. PICK F : Joins(F, slots) /\ FlattenSeq(slots) = F[m]
  BY <1>1, <1>2, Flattening
<1>4. \A b \in 1 .. m : F[b] \in Seq(U) /\ slots[b] \in Seq(U)
  BY <1>1, <1>2, <1>3, JoinsAreLists
<1>5. \A b \in 1 .. m : /\ Start(b) \in Nat /\ Start(b) < End(n, b) /\ End(n, b) \in Nat /\ End(n, b) <= n
                        /\ b > 1 => Start(b) = End(n, b - 1)
  BY <1>1, BatchBounds
<1>6. \A b \in 1 .. m : slots[b] # <<>> =>
        /\ Len(slots[b]) = End(n, b) - Start(b)
        /\ \A k \in 1 .. Len(slots[b]) : AnswerTo(slots[b][k], samples, Start(b) + k)
  BY <1>1 DEF InOwnSlot, AnswersFor
<1>7. ASSUME NEW b \in 1 .. m - 1, slots[b + 1] # <<>> PROVE slots[b] # <<>>
  <2>1. b + 1 \in DOMAIN slots /\ b \in 1 .. (b + 1) - 1
    BY <1>1, <1>2
  <2> QED  BY <1>7, <2>1 DEF NoGap
<1> DEFINE Good(b) == /\ Len(F[b]) <= End(n, b)
                      /\ \A i \in 1 .. Len(F[b]) : AnswerTo(F[b][i], samples, i)
                      /\ slots[b] # <<>> => Len(F[b]) = End(n, b)
           S == {k \in Nat : k + 1 \in 1 .. m => Good(k + 1)}
<1>8. 0 \in S
  <2>1. 1 \in 1 .. m /\ F[1] = slots[1] /\ Start(1) = 0
    BY <1>1, <1>3, InferenceAssumption DEF Joins, Start
  <2>2. CASE slots[1] = <<>>
    <3>1. Len(F[1]) = 0 /\ End(n, 1) \in Nat
      BY <1>5, <2>1, <2>2
    <3>2. Good(1)
      BY <2>2, <3>1
    <3> QED  BY <3>2
  <2>3. CASE slots[1] # <<>>
    <3>1. /\ Len(F[1]) = End(n, 1) /\ End(n, 1) \in Nat
          /\ \A i \in 1 .. Len(F[1]) : AnswerTo(F[1][i], samples, 0 + i)
      BY <1>5, <1>6, <2>1, <2>3
    <3>2. \A i \in 1 .. Len(F[1]) : AnswerTo(F[1][i], samples, i)
      BY <3>1
    <3>3. Good(1)
      BY <3>1, <3>2
    <3> QED  BY <3>3
  <2> QED  BY <2>2, <2>3
<1>9. ASSUME NEW k \in S PROVE k + 1 \in S
  <2>1. SUFFICES ASSUME k + 2 \in 1 .. m PROVE Good(k + 2)
    <3>1. PICK j : j = k + 2 /\ j = (k + 1) + 1
      BY <1>9
    <3>2. j \in 1 .. m => Good(j)
      BY <2>1, <3>1
    <3> QED  BY <1>9, <3>1, <3>2
  <2>2. PICK b \in 1 .. m, c \in 1 .. m - 1 : b = k + 2 /\ c = k + 1 /\ b = c + 1 /\ b # 1 /\ b - 1 = c /\ c \in 1 .. m
    BY <1>1, <1>9, <2>1
  <2>3. Good(c)
    BY <1>9, <2>2
  <2>4. F[b] = F[c] \o slots[b] /\ F[c] \in Seq(U) /\ slots[b] \in Seq(U)
    BY <1>1, <1>3, <1>4, <2>2 DEF Joins
  <2>5. Start(b) = End(n, c) /\ Start(b) < End(n, b) /\ End(n, b) \in Nat /\ End(n, c) \in Nat
    BY <1>5, <2>2
  <2>6. CASE slots[b] = <<>>
    <3>1. F[b] = F[c]
      BY <2>4, <2>6
    <3>2. Good(b)
      BY <2>3, <2>4, <2>5, <2>6, <3>1
    <3> QED  BY <2>2, <3>2
  <2>7. CASE slots[b] # <<>>
    <3>1. Len(F[c]) = Start(b)
      BY <1>7, <2>2, <2>3, <2>5, <2>7
    <3>2. Len(slots[b]) = End(n, b) - Start(b) /\ Len(F[b]) = End(n, b)
      <4>1. Len(slots[b]) = End(n, b) - Start(b)
        BY <1>6, <2>7
      <4>2. Len(F[b]) = Len(F[c]) + Len(slots[b])
        BY <2>4
      <4> QED  BY <2>5, <3>1, <4>1, <4>2
    <3>3. ASSUME NEW i \in 1 .. Len(F[b]) PROVE AnswerTo(F[b][i], samples, i)
      <4>1. CASE i <= Len(F[c])
        <5>1. F[b][i] = F[c][i] /\ i \in 1 .. Len(F[c])
          BY <2>4, <4>1
        <5> QED  BY <2>3, <5>1
      <4>2. CASE i > Len(F[c])
        <5>1. PICK h \in 1 .. Len(slots[b]) : i = Start(b) + h
          <6>1. i - Start(b) \in 1 .. Len(slots[b]) /\ i = Start(b) + (i - Start(b))
            BY <2>4, <2>5, <3>1, <3>2, <4>2
          <6> QED  BY <6>1
        <5>2. F[b][i] = slots[b][h]
          BY <2>4, <2>5, <3>1, <4>2, <5>1, SMTT(30)
        <5> QED  BY <1>6, <2>2, <2>7, <5>1, <5>2, SMTT(30)
      <4> QED  BY <2>4, <4>1, <4>2
    <3>4. Good(b)
      BY <2>5, <3>2, <3>3
    <3> QED  BY <2>2, <3>4
  <2> QED  BY <2>6, <2>7
<1>10. Good(m)
  <2>1. \A k \in Nat : k \in S
    <3>1. S \subseteq Nat
      OBVIOUS
    <3> HIDE DEF S
    <3> QED  BY <1>8, <1>9, <3>1, Induction
  <2>2. m - 1 \in S /\ (m - 1) + 1 = m /\ m \in 1 .. m
    <3> HIDE DEF S
    <3>1. m - 1 \in Nat /\ (m - 1) + 1 = m /\ m \in 1 .. m
      BY <1>1
    <3> QED  BY <2>1, <3>1
  <2>3. PICK j : j = m /\ j = (m - 1) + 1
    BY <2>2
  <2> QED  BY <2>2, <2>3
<1> QED
  <2>1. FlattenSeq(slots) = F[m] /\ F[m] \in Seq(U)
    BY <1>1, <1>3, <1>4
  <2> QED  BY <1>1, <1>10, <2>1
\* Lists of rows put together are a list.
LEMMA FlatIsList ==
  ASSUME NEW n \in Nat, NEW s, s = [k \in 1 .. n |-> s[k]], \A k \in 1 .. n : IsList(s[k])
  PROVE  IsList(FlattenSeq(s))
<1> DEFINE U == {s[kj[1]][kj[2]] : kj \in (1 .. n) \X Nat}
<1>1. ASSUME NEW k \in 1 .. n PROVE s[k] \in Seq(U)
  <2>1. ASSUME NEW j \in 1 .. Len(s[k]) PROVE s[k][j] \in U
    <3>1. j \in Nat
      BY DEF IsList
    <3>2. <<k, j>> \in (1 .. n) \X Nat /\ <<k, j>>[1] = k /\ <<k, j>>[2] = j
      BY <3>1
    <3> QED  BY <3>2
  <2> HIDE DEF U
  <2> QED  BY <2>1 DEF IsList
<1> HIDE DEF U
<1>2. s \in Seq(Seq(U))
  BY <1>1
<1>3. FlattenSeq(s) \in Seq(U)
  BY <1>2, FlattenIsList
<1> QED  BY <1>3, SeqIsList

\* The samples of a run are a list, whatever files it reads and however few.
LEMMA SamplesAreList ==
  ASSUME NEW files, \A f \in DOMAIN files : IsList(files[f]), NEW split
  PROVE  IsList(BuildSamples(files, split))
<1>1. PICK m \in Nat : DOMAIN ResolveFiles(files, split) = 1 .. m
  <2>1. DOMAIN SplitFiles(split) = 1 .. 1 \/ DOMAIN SplitFiles(split) = 1 .. 3
    <3>1. \A x, y, z : DOMAIN <<x>> = 1 .. 1 /\ DOMAIN <<x, y, z>> = 1 .. 3
      OBVIOUS
    <3> QED  BY <3>1 DEF SplitFiles
  <2>2. \A x, y, z, v, w : DOMAIN <<x>> = 1 .. 1 /\ DOMAIN <<x, y, z, v, w>> = 1 .. 5
    OBVIOUS
  <2>3. \/ DOMAIN ResolveFiles(files, split) = 1 .. 1
        \/ DOMAIN ResolveFiles(files, split) = 1 .. 3
        \/ DOMAIN ResolveFiles(files, split) = 1 .. 5
    BY <2>1, <2>2, Zenon DEF ResolveFiles
  <2> QED  BY <2>3
<1>2. PICK s : s = [k \in 1 .. m |-> RowsIn(files, ResolveFiles(files, split)[k])]
  OBVIOUS
<1>3. \A name : IsList(RowsIn(files, name))
  BY DEF RowsIn, IsList
<1>4. PICK flat : flat = FlattenSeq(s)
  OBVIOUS
<1>5. Len(flat) \in Nat
  BY <1>2, <1>3, <1>4, FlatIsList DEF IsList
<1>6. PICK n \in Nat : n = IF Limit > 0 THEN Min({Limit, Len(flat)}) ELSE Len(flat)
  BY <1>5, InferenceAssumption DEF Min
<1>7. BuildSamples(files, split) = [i \in 1 .. n |-> ToSample(flat[i], i)]
  BY <1>1, <1>2, <1>4, <1>6 DEF BuildSamples
<1> QED  BY <1>7 DEF IsList

\* What is there to read are lists of rows.
LEMMA InputIsList ==
  ASSUME AnsInv, NEW from PROVE \A f \in DOMAIN InputFiles(from) : IsList(InputFiles(from)[f])
<1>1. CASE from \notin Outputs
  <2>1. \A f \in DOMAIN Input : IsList(Input[f])
    BY InferenceAssumption DEF IsList
  <2> QED  BY <1>1, <2>1 DEF InputFiles
<1>2. CASE from \in Outputs /\ lake[from].failed > 0
  <2>1. PICK q : q = lake[from].failed
    OBVIOUS
  <2>2. q \in Runs
    <3>1. lake[from]["failed"] \in Int
      BY <1>2 DEF AnsInv, InfInv, InfTypeOK, Kinds
    <3>2. Owner(q) = q /\ q # 0
      BY <1>2, <2>1, <3>1 DEF Owner
    <3> QED  BY <1>2, <2>1, <3>2 DEF AnsInv, InfInv, HasOwner, Kinds
  <2>3. PICK n \in Nat : DOMAIN iSamples[q] = 1 .. n
    BY <2>2 DEF AnsInv, AnsTypeOK, IsList
  <2>4. PICK s : s = [i \in 1 .. n |-> IF iPreds[q][i].status = "OK" THEN <<>> ELSE <<FailedRow(iSamples[q][i])>>]
    OBVIOUS
  <2>5. \A i \in 1 .. n : IsList(s[i])
    BY <2>4 DEF IsList
  <2>6. IsList(FailedRows(q))
    BY <2>3, <2>4, <2>5, FlatIsList DEF FailedRows
  <2> QED  BY <1>2, <2>1, <2>6 DEF InputFiles
<1>3. CASE from \in Outputs /\ ~(lake[from].failed > 0)
  BY <1>3 DEF InputFiles
<1> QED  BY <1>1, <1>2, <1>3

\* A batch is as many samples as there are up to its end.
LEMMA BatchIsPart ==
  ASSUME NEW r \in Runs, IsList(iSamples[r]), iSamples[r] # <<>>,
         NEW b \in 1 .. Batches(Len(iSamples[r]))
  PROVE  /\ DOMAIN BatchOf(r, b) = 1 .. (End(Len(iSamples[r]), b) - Start(b))
         /\ \A k \in DOMAIN BatchOf(r, b) : BatchOf(r, b)[k] = iSamples[r][Start(b) + k]
<1>0. PICK s : s = iSamples[r]
  OBVIOUS
<1>1. PICK n \in Nat \ {0} : n = Len(iSamples[r])
  BY ListIsSeq DEF IsList
<1>2. PICK p \in Nat, e \in Nat :
        /\ p = Start(b) /\ e = End(n, b) /\ p < e /\ e <= n
  <2>1. b \in 1 .. Batches(n)
    BY <1>1
  <2>2. /\ Start(b) \in Nat /\ End(n, b) \in Nat /\ Start(b) < End(n, b) /\ End(n, b) <= n
    BY <2>1, BatchBounds
  <2> QED  BY <2>2
<1>3. (b - 1) * BatchSize + 1 = p + 1
  BY <1>2 DEF Start
<1>4. Min({b * BatchSize, n}) = e
  <2>1. PICK h \in Nat : h = b * BatchSize
    BY <1>1, BatchBounds
  <2>2. e = IF h <= n THEN h ELSE n
    BY <1>2, <2>1 DEF End
  <2> QED  BY <1>1, <2>1, <2>2 DEF Min
<1>5. BatchOf(r, b) = SubSeq(s, p + 1, e)
  BY <1>0, <1>1, <1>3, <1>4 DEF BatchOf
<1>6. PICK U : s \in Seq(U) /\ Len(s) = n
  BY <1>0, <1>1, ListIsSeq
<1>7. Len(SubSeq(s, p + 1, e)) = e - p /\ \A k \in 1 .. e - p : SubSeq(s, p + 1, e)[k] = s[p + k]
  BY <1>2, <1>6, SMTT(30)
<1>8. DOMAIN SubSeq(s, p + 1, e) = 1 .. e - p
  BY <1>2, <1>6, <1>7
<1> QED  BY <1>0, <1>1, <1>2, <1>5, <1>7, <1>8

\* A set of numbers that has a bound has a greatest one.
LEMMA HasGreatest ==
  ASSUME NEW n \in Nat, NEW T \in SUBSET (1 .. n), T # {} PROVE \E x \in T : \A y \in T : y <= x
<1>1. PICK D : D = {d \in Nat : n - d \in T}
  OBVIOUS
<1>2. D # {} /\ D \in SUBSET Nat
  <2>1. PICK x \in T : TRUE
    OBVIOUS
  <2>2. n - x \in Nat /\ n - (n - x) = x
    OBVIOUS
  <2> QED  BY <1>1, <2>1, <2>2
<1>3. PICK d \in D : \A c \in D : d <= c
  BY <1>2, HasLeast
<1>4. ASSUME NEW y \in T PROVE y <= n - d
  <2>1. n - y \in Nat /\ n - (n - y) = y
    OBVIOUS
  <2>2. d <= n - y
    BY <1>1, <1>3, <2>1
  <2> QED  BY <1>1, <1>3, <2>2
<1> QED  BY <1>1, <1>3, <1>4

\* What a backend returns: a list of answers to samples of the batch, whatever their order.
LEMMA RepliesAreOwn ==
  ASSUME NEW r \in Runs, NEW b, NEW n \in Nat, DOMAIN BatchOf(r, b) = 1 .. n, NEW reply \in Replies(r, b)
  PROVE  \E m \in Nat : /\ DOMAIN reply = 1 .. m
                        /\ \A j \in 1 .. m : \E k \in 1 .. n : /\ reply[j].id = BatchOf(r, b)[k].id
                                                              /\ reply[j].ask = Prompt(BatchOf(r, b)[k])
<1>1. PICK batch : batch = BatchOf(r, b)
  OBVIOUS
<1>0. PICK S \in SUBSET Asked(r, b) : \E order \in SetToSeqs(S) :
        \E status \in [DOMAIN order -> Answers] :
          reply = [j \in DOMAIN order |-> [id |-> batch[order[j]].id, ask |-> Prompt(batch[order[j]]),
                                           status |-> status[j]]]
  BY <1>1 DEF Replies
<1>2. PICK order \in SetToSeqs(S) : \E status \in [DOMAIN order -> Answers] :
        reply = [j \in DOMAIN order |-> [id |-> batch[order[j]].id, ask |-> Prompt(batch[order[j]]),
                                         status |-> status[j]]]
  BY <1>0
<1>3. PICK status : reply = [j \in DOMAIN order |-> [id |-> batch[order[j]].id, ask |-> Prompt(batch[order[j]]),
                                                   status |-> status[j]]]
  BY <1>2
<1>4. S \subseteq 1 .. n
  BY <1>0 DEF Asked
<1>5. Cardinality(S) \in Nat
  <2>1. IsFiniteSet(1 .. n)
    BY FS_Interval
  <2>2. IsFiniteSet(S)
    BY <1>4, <2>1, FS_Subset
  <2> QED  BY <2>2, FS_CardinalityType
<1>6. order \in [1 .. Cardinality(S) -> S]
  BY <1>2 DEF SetToSeqs
<1>7. DOMAIN reply = 1 .. Cardinality(S)
  BY <1>3, <1>6
<1>8. ASSUME NEW j \in 1 .. Cardinality(S)
      PROVE  order[j] \in 1 .. n /\ reply[j].id = batch[order[j]].id /\ reply[j].ask = Prompt(batch[order[j]])
  BY <1>3, <1>4, <1>6
<1> QED  BY <1>1, <1>5, <1>7, <1>8

\* by_id[p.sample_id] = p: an answer lies under the id it carries.
LEMMA DictStaysOwn ==
  ASSUME NEW r \in Runs, NEW b, NEW samples, OwnDict(iBusy[r][b], samples),
         NEW reply, NEW m \in Nat, DOMAIN reply = 1 .. m,
         \A j \in 1 .. m : AskedOf(reply[j], samples, reply[j].id)
  PROVE  OwnDict(ById(r, b, reply), samples)
<1>1. PICK dict : dict = iBusy[r][b]
  OBVIOUS
<1>2. PICK ids : ids = {reply[j].id : j \in DOMAIN reply}
  OBVIOUS
<1> DEFINE LastWith(i) == CHOOSE j \in DOMAIN reply :
                        reply[j].id = i /\ \A h \in DOMAIN reply : reply[h].id = i => h <= j
<1>3. ById(r, b, reply) = [i \in DOMAIN dict \cup ids |-> IF i \in ids THEN reply[LastWith(i)] ELSE dict[i]]
  BY <1>1, <1>2 DEF ById
<1>4. ASSUME NEW i \in ids PROVE LastWith(i) \in 1 .. m /\ reply[LastWith(i)].id = i
  <2>1. PICK T : T = {j \in 1 .. m : reply[j].id = i}
    OBVIOUS
  <2>2. T # {} /\ T \in SUBSET (1 .. m)
    BY <1>2, <2>1
  <2>3. PICK x \in T : \A y \in T : y <= x
    BY <2>2, HasGreatest
  <2>4. \E j \in DOMAIN reply : reply[j].id = i /\ \A h \in DOMAIN reply : reply[h].id = i => h <= j
    BY <2>1, <2>3
  <2> QED  BY <2>4
<1> HIDE DEF LastWith
<1>5. ASSUME NEW i \in DOMAIN dict \cup ids, NEW a, a = ById(r, b, reply)[i]
      PROVE  a.id = i /\ AskedOf(a, samples, i)
  <2>1. CASE i \in ids
    <3>1. a = reply[LastWith(i)] /\ LastWith(i) \in 1 .. m /\ reply[LastWith(i)].id = i
      BY <1>3, <1>4, <1>5, <2>1
    <3> QED  BY <3>1
  <2>2. CASE i \notin ids
    <3>1. a = dict[i] /\ i \in DOMAIN dict
      BY <1>3, <1>5, <2>2
    <3> QED  BY <1>1, <3>1 DEF OwnDict
  <2> QED  BY <2>1, <2>2
<1>6. DOMAIN ById(r, b, reply) = DOMAIN dict \cup ids
  BY <1>3
<1> QED  BY <1>5, <1>6 DEF OwnDict

\* What a call makes of the answers to its batch.
LEMMA CallAnswers ==
  ASSUME AnsInv, NEW r \in Runs, iPc[r] = "predict", NEW b \in DOMAIN iResults[r],
         NEW reply \in Replies(r, b), NEW byId, byId = ById(r, b, reply)
  PROVE  /\ b \in 1 .. Batches(Len(iSamples[r])) /\ OwnDict(byId, iSamples[r])
         /\ \A answers :
              /\ answers = [k \in DOMAIN BatchOf(r, b) |-> byId[BatchOf(r, b)[k].id]]
              /\ \A k \in DOMAIN BatchOf(r, b) : BatchOf(r, b)[k].id \in DOMAIN byId
              => AnswersFor(answers, iSamples[r], b)
<1>1. /\ IsList(iSamples[r]) /\ iSamples[r] # <<>>
      /\ InOwnSlot(iResults[r], iSamples[r]) /\ OwnDicts(iBusy[r], iSamples[r])
  BY DEF AnsInv, AnsTypeOK, PredictsInSlots
<1>2. b \in 1 .. Batches(Len(iSamples[r]))
  BY <1>1 DEF InOwnSlot
<1>a. PICK samples : samples = iSamples[r]
  OBVIOUS
<1>3. PICK n \in Nat \ {0} : n = Len(samples)
  BY <1>1, <1>a, ListIsSeq DEF IsList
<1>4. PICK p \in Nat, e \in Nat : p = Start(b) /\ e = End(n, b) /\ p < e /\ e <= n
  <2>1. Start(b) \in Nat /\ End(n, b) \in Nat /\ Start(b) < End(n, b) /\ End(n, b) <= n
    BY <1>2, <1>a, <1>3, BatchBounds
  <2> QED  BY <2>1
<1>b. PICK batch : batch = BatchOf(r, b)
  OBVIOUS
<1>5. PICK w \in Nat : /\ w = e - p /\ DOMAIN batch = 1 .. w
                       /\ \A k \in 1 .. w : batch[k] = samples[p + k]
  <2>1. e - p \in Nat
    BY <1>4
  <2>2. DOMAIN batch = 1 .. e - p /\ \A k \in DOMAIN batch : batch[k] = samples[p + k]
    BY <1>1, <1>2, <1>a, <1>3, <1>4, <1>b, BatchIsPart
  <2> QED  BY <2>1, <2>2
<1>6. OwnDict(byId, samples)
  <2>1. PICK m \in Nat : /\ DOMAIN reply = 1 .. m
                         /\ \A j \in 1 .. m : \E k \in 1 .. w : /\ reply[j].id = batch[k].id
                                                               /\ reply[j].ask = Prompt(batch[k])
    <3>1. DOMAIN BatchOf(r, b) = 1 .. w
      BY <1>b, <1>5
    <3>2. PICK m \in Nat : /\ DOMAIN reply = 1 .. m
                           /\ \A j \in 1 .. m : \E k \in 1 .. w : /\ reply[j].id = BatchOf(r, b)[k].id
                                                                 /\ reply[j].ask = Prompt(BatchOf(r, b)[k])
      BY <3>1, RepliesAreOwn
    <3> QED  BY <1>b, <3>2
  <2>2. ASSUME NEW j \in 1 .. m PROVE AskedOf(reply[j], samples, reply[j].id)
    <3>1. PICK k \in 1 .. w : reply[j].id = batch[k].id /\ reply[j].ask = Prompt(batch[k])
      BY <2>1
    <3>2. p + k \in 1 .. n /\ batch[k] = samples[p + k]
      BY <1>4, <1>5
    <3> QED  BY <1>3, <3>1, <3>2 DEF AskedOf
  <2>3. OwnDict(iBusy[r][b], samples)
    BY <1>1, <1>2, <1>a DEF OwnDicts
  <2> QED  BY <2>1, <2>2, <2>3, DictStaysOwn
<1>7. ASSUME NEW answers, answers = [k \in 1 .. w |-> byId[batch[k].id]],
             \A k \in 1 .. w : batch[k].id \in DOMAIN byId
      PROVE  AnswersFor(answers, samples, b)
  <2>1. IsList(answers) /\ Len(answers) = w
    BY <1>7 DEF IsList
  <2>2. ASSUME NEW k \in 1 .. w PROVE AnswerTo(answers[k], samples, p + k)
    <3>1. answers[k] = byId[batch[k].id] /\ batch[k].id \in DOMAIN byId /\ batch[k] = samples[p + k]
      BY <1>5, <1>7
    <3> QED  BY <1>6, <3>1 DEF OwnDict, AnswerTo
  <2> QED  BY <1>3, <1>4, <1>5, <2>1, <2>2 DEF AnswersFor
<1> QED  BY <1>2, <1>a, <1>b, <1>5, <1>6, <1>7

\* Fail-fast calls a batch only when all before it have answered.
LEMMA OneByOne ==
  ASSUME NEW r \in Runs, iFast[r], NEW b \in Nat, InFlight(r, b)
  PROVE  \A c \in 1 .. b - 1 : Finished(r, c)
<1> DEFINE T == {c \in 1 .. b - 1 : ~Finished(r, c)}
<1>1. IsFiniteSet(1 .. b - 1)
  BY FS_Interval
<1>2. IsFiniteSet(T)
  BY <1>1, FS_Subset
<1>3. Cardinality(T) \in Nat /\ Cardinality(T) < 1
  BY <1>2, FS_CardinalityType DEF InFlight
<1>4. T = {}
  <2> HIDE DEF T
  <2> QED  BY <1>2, <1>3, FS_EmptySet
<1> QED  BY <1>4

\* Answers put in their slot keep the slots as they have to be.
LEMMA SlotFilled ==
  ASSUME NEW samples, NEW slots, InOwnSlot(slots, samples),
         NEW b \in 1 .. Batches(Len(samples)), NEW answers,
         answers = <<>> \/ AnswersFor(answers, samples, b)
  PROVE  InOwnSlot([slots EXCEPT ![b] = answers], samples)
BY DEF InOwnSlot

\* The same for what lies under ids.
LEMMA DictFilled ==
  ASSUME NEW samples, NEW dicts, OwnDicts(dicts, samples),
         NEW b \in 1 .. Batches(Len(samples)), NEW dict, OwnDict(dict, samples)
  PROVE  OwnDicts([dicts EXCEPT ![b] = dict], samples)
BY DEF OwnDicts

\* A step after which a run is no further from its predictions than before.
LEMMA OtherStep ==
  ASSUME AnsInv, UNCHANGED <<iSamples, iPreds>>,
         \A q \in Runs : iPc'[q] \in {"idle", "build", "predict"} => iPreds[q] = <<>>,
         \A q \in Runs : iPc'[q] = "predict" =>
            iPc[q] = "predict" /\ iFast'[q] = iFast[q] /\ iBusy'[q] = iBusy[q] /\ iResults'[q] = iResults[q],
         iFast' = [q \in Runs |-> iFast'[q]], iBusy' = [q \in Runs |-> iBusy'[q]],
         iResults' = [q \in Runs |-> iResults'[q]]
  PROVE  AnsTypeOK' /\ PredictsInSlots' /\ NoneBefore' /\ AnswersItsSample'
<1>1. AnsTypeOK' /\ NoneBefore' /\ AnswersItsSample'
  BY DEF AnsInv, AnsTypeOK, NoneBefore, AnswersItsSample
<1>2. PredictsInSlots'
  BY DEF AnsInv, PredictsInSlots
<1> QED  BY <1>1, <1>2

\* A batch is called or answers, or lacks an answer.
LEMMA CallStep ==
  ASSUME AnsInv, NEW r \in Runs, NEW b \in DOMAIN iResults[r], InfCall(r, b)
  PROVE  AnsTypeOK' /\ PredictsInSlots' /\ NoneBefore' /\ AnswersItsSample'
<1>1. /\ iPc[r] = "predict" /\ InFlight(r, b) /\ UNCHANGED <<iFast, iSamples, iPreds>>
  BY DEF InfCall
<1>a. PICK reply \in Replies(r, b) :
        LET byId == ById(r, b, reply)
            id(k) == BatchOf(r, b)[k].id
        IN  \/ /\ iBusy' = [iBusy EXCEPT ![r][b] = byId] /\ UNCHANGED <<iPc, iResults>>
            \/ /\ \A k \in DOMAIN BatchOf(r, b) : id(k) \in DOMAIN byId
               /\ iResults' = [iResults EXCEPT ![r][b] = [k \in DOMAIN BatchOf(r, b) |-> byId[id(k)]]]
               /\ iBusy' = [iBusy EXCEPT ![r][b] = <<>>] /\ UNCHANGED iPc
            \/ /\ iPc' = [iPc EXCEPT ![r] = "error"]
               /\ iResults' = [iResults EXCEPT ![r] = <<>>] /\ iBusy' = [iBusy EXCEPT ![r] = <<>>]
  BY DEF InfCall, Place
<1>b. PICK byId : byId = ById(r, b, reply)
  OBVIOUS
<1>c. PICK answers : answers = [k \in DOMAIN BatchOf(r, b) |-> byId[BatchOf(r, b)[k].id]]
  OBVIOUS
<1>2. \/ /\ iBusy' = [iBusy EXCEPT ![r][b] = byId] /\ UNCHANGED <<iPc, iResults>>
      \/ /\ \A k \in DOMAIN BatchOf(r, b) : BatchOf(r, b)[k].id \in DOMAIN byId
         /\ iResults' = [iResults EXCEPT ![r][b] = answers]
         /\ iBusy' = [iBusy EXCEPT ![r][b] = <<>>] /\ UNCHANGED iPc
      \/ /\ iPc' = [iPc EXCEPT ![r] = "error"]
         /\ iResults' = [iResults EXCEPT ![r] = <<>>] /\ iBusy' = [iBusy EXCEPT ![r] = <<>>]
  BY <1>a, <1>b, <1>c
<1>0. /\ OwnDict(byId, iSamples[r]) /\ b \in 1 .. Batches(Len(iSamples[r]))
      /\ (\A k \in DOMAIN BatchOf(r, b) : BatchOf(r, b)[k].id \in DOMAIN byId)
         => AnswersFor(answers, iSamples[r], b)
  BY <1>1, <1>b, <1>c, CallAnswers
<1>3. /\ InOwnSlot(iResults[r], iSamples[r]) /\ OwnDicts(iBusy[r], iSamples[r])
      /\ iFast[r] => NoGap(iResults[r])
      /\ IsList(iSamples[r]) /\ iSamples[r] # <<>>
  BY <1>1 DEF AnsInv, AnsTypeOK, PredictsInSlots
<1>4. CASE iPc' = [iPc EXCEPT ![r] = "error"] /\ iResults' = [iResults EXCEPT ![r] = <<>>]
           /\ iBusy' = [iBusy EXCEPT ![r] = <<>>]
  <2>1. \A q \in Runs : iPc'[q] \in {"idle", "build", "predict"} => q # r /\ iPc'[q] = iPc[q]
    BY <1>4 DEF AnsInv, InfInv, InfTypeOK
  <2> QED  BY <1>1, <1>4, <2>1, OtherStep DEF AnsInv, NoneBefore, AnsTypeOK
<1>5. ASSUME NEW done, NEW busy, UNCHANGED iPc,
             iResults' = [iResults EXCEPT ![r] = done], iBusy' = [iBusy EXCEPT ![r] = busy],
             InOwnSlot(done, iSamples[r]), OwnDicts(busy, iSamples[r]), iFast[r] => NoGap(done)
      PROVE  AnsTypeOK' /\ PredictsInSlots' /\ NoneBefore' /\ AnswersItsSample'
  <2>1. AnsTypeOK'
    BY <1>1, <1>5 DEF AnsInv, AnsTypeOK
  <2>2. PredictsInSlots'
    BY <1>1, <1>3, <1>5 DEF AnsInv, AnsTypeOK, PredictsInSlots
  <2> QED  BY <1>1, <1>5, <2>1, <2>2 DEF AnsInv, NoneBefore, AnswersItsSample
<1>6. CASE iBusy' = [iBusy EXCEPT ![r][b] = byId] /\ UNCHANGED <<iPc, iResults>>
  <2>1. PICK busy : busy = [iBusy[r] EXCEPT ![b] = byId]
    OBVIOUS
  <2>2. iBusy' = [iBusy EXCEPT ![r] = busy] /\ iResults' = [iResults EXCEPT ![r] = iResults[r]]
    BY <1>6, <2>1 DEF AnsInv, AnsTypeOK
  <2>3. OwnDicts(busy, iSamples[r])
    BY <1>0, <1>3, <2>1, DictFilled
  <2> QED  BY <1>3, <1>5, <1>6, <2>2, <2>3
<1>7. CASE /\ \A k \in DOMAIN BatchOf(r, b) : BatchOf(r, b)[k].id \in DOMAIN byId
           /\ iResults' = [iResults EXCEPT ![r][b] = answers]
           /\ iBusy' = [iBusy EXCEPT ![r][b] = <<>>] /\ UNCHANGED iPc
  <2>1. PICK done, busy : done = [iResults[r] EXCEPT ![b] = answers] /\ busy = [iBusy[r] EXCEPT ![b] = <<>>]
    OBVIOUS
  <2>2. iResults' = [iResults EXCEPT ![r] = done] /\ iBusy' = [iBusy EXCEPT ![r] = busy]
    BY <1>7, <2>1
  <2>3. AnswersFor(answers, iSamples[r], b)
    BY <1>0, <1>7
  <2>4. InOwnSlot(done, iSamples[r]) /\ OwnDicts(busy, iSamples[r])
    <3>1. OwnDict(<<>>, iSamples[r])
      BY DEF OwnDict
    <3> QED  BY <1>0, <1>3, <2>1, <2>3, <3>1, SlotFilled, DictFilled
  <2>5. ASSUME iFast[r] PROVE NoGap(done)
    <3>1. \A c \in 1 .. b - 1 : iResults[r][c] # <<>>
      <4>1. b \in Nat
        BY <1>0, <1>3, SlotsAreLists
      <4> QED  BY <1>1, <2>5, <4>1, OneByOne DEF Finished
    <3>2. DOMAIN done = DOMAIN iResults[r] /\ \A c \in DOMAIN done : c # b => done[c] = iResults[r][c]
      BY <2>1
    <3>3. DOMAIN done = 1 .. Batches(Len(iSamples[r])) /\ Batches(Len(iSamples[r])) \in Nat
      BY <1>3, <3>2, SlotsAreLists, OneBatch DEF InOwnSlot
    <3>4. done[b] # <<>>
      <4>1. Len(answers) > 0
        <5>1. PICK n \in Nat \ {0} : n = Len(iSamples[r])
          BY <1>3, ListIsSeq DEF IsList
        <5>2. Start(b) \in Nat /\ End(n, b) \in Nat /\ Start(b) < End(n, b)
          BY <1>0, <5>1, BatchBounds
        <5> QED  BY <2>3, <5>1, <5>2 DEF AnswersFor
      <4> QED  BY <2>1, <3>2, <4>1
    <3> QED  BY <1>3, <2>5, <3>1, <3>2, <3>3, <3>4 DEF NoGap
  <2> QED  BY <1>5, <1>7, <2>2, <2>4, <2>5
<1> QED  BY <1>2, <1>4, <1>6, <1>7

\* A run has its samples: as many slots as batches, all of them empty.
LEMMA BuildStep ==
  ASSUME AnsInv, NEW r \in Runs, InfBuild(r)
  PROVE  AnsTypeOK' /\ PredictsInSlots' /\ NoneBefore' /\ AnswersItsSample'
<1>1. iPc[r] = "build" /\ UNCHANGED <<iFast, iPreds>> /\ iPreds[r] = <<>>
  BY DEF InfBuild, AnsInv, NoneBefore
<1>2. PICK samples : samples = BuildSamples(InputFiles(iFrom[r]), iFrom[r])
  OBVIOUS
<1>3. IsList(samples)
  BY <1>2, InputIsList, SamplesAreList
<1>4. CASE samples = <<>>
  <2>1. iPc' = [iPc EXCEPT ![r] = "error"] /\ UNCHANGED <<iSamples, iBusy, iResults>>
    BY <1>2, <1>4 DEF InfBuild
  <2>2. \A q \in Runs : (iPc'[q] \in {"idle", "build", "predict"} => iPc[q] = iPc'[q])
    BY <2>1 DEF AnsInv, InfInv, InfTypeOK
  <2>3. PredictsInSlots' /\ NoneBefore'
    BY <1>1, <2>1, <2>2 DEF AnsInv, PredictsInSlots, NoneBefore
  <2> QED  BY <1>1, <2>1, <2>3 DEF AnsInv, AnsTypeOK, AnswersItsSample
<1>5. CASE samples # <<>>
  <2>1. PICK none : none = [b \in 1 .. Batches(Len(samples)) |-> <<>>]
    OBVIOUS
  <2>2. /\ iPc' = [iPc EXCEPT ![r] = "predict"] /\ iSamples' = [iSamples EXCEPT ![r] = samples]
        /\ iBusy' = [iBusy EXCEPT ![r] = none] /\ iResults' = [iResults EXCEPT ![r] = none]
    BY <1>2, <1>5, <2>1 DEF InfBuild
  <2>3. InOwnSlot(none, samples) /\ OwnDicts(none, samples) /\ NoGap(none)
    BY <2>1 DEF InOwnSlot, OwnDicts, OwnDict, NoGap
  <2>4. /\ iPc'[r] = "predict" /\ iSamples'[r] = samples /\ iBusy'[r] = none /\ iResults'[r] = none
        /\ \A q \in Runs : q # r => /\ iPc'[q] = iPc[q] /\ iSamples'[q] = iSamples[q]
                                    /\ iBusy'[q] = iBusy[q] /\ iResults'[q] = iResults[q]
    BY <2>2 DEF AnsInv, InfInv, InfTypeOK, AnsTypeOK
  <2>5. AnsTypeOK'
    BY <1>1, <1>3, <2>2, <2>4 DEF AnsInv, AnsTypeOK
  <2>6. PredictsInSlots'
    BY <1>1, <1>5, <2>3, <2>4 DEF AnsInv, PredictsInSlots
  <2>7. NoneBefore'
    BY <1>1, <2>4 DEF AnsInv, NoneBefore
  <2>8. AnswersItsSample'
    BY <1>1, <2>4 DEF AnsInv, AnswersItsSample
  <2> QED  BY <2>5, <2>6, <2>7, <2>8
<1> QED  BY <1>4, <1>5

\* The predictions of a run: the answers it got, and for the rest the reason why not.
LEMMA CollectStep ==
  ASSUME AnsInv, NEW r \in Runs, InfCollect(r)
  PROVE  AnsTypeOK' /\ PredictsInSlots' /\ NoneBefore' /\ AnswersItsSample'
<1>1. /\ iPc[r] = "predict" /\ UNCHANGED <<iFast, iSamples>> /\ iPc' = [iPc EXCEPT ![r] = "predictions"]
      /\ iResults' = [iResults EXCEPT ![r] = <<>>] /\ iBusy' = [iBusy EXCEPT ![r] = <<>>]
  BY StepsInOrder DEF InfCollect
<1>2. PICK samples, slots : samples = iSamples[r] /\ slots = iResults[r]
  OBVIOUS
<1>3. IsList(samples) /\ samples # <<>> /\ InOwnSlot(slots, samples) /\ (iFast[r] => NoGap(slots))
  BY <1>1, <1>2 DEF AnsInv, AnsTypeOK, PredictsInSlots
<1>4. NoGap(slots)
  <2>1. CASE Broken(r)
    BY <1>3, <2>1 DEF Broken
  <2>2. CASE \A b \in DOMAIN iResults[r] : Finished(r, b)
    <3>1. DOMAIN slots = 1 .. Batches(Len(samples)) /\ Batches(Len(samples)) \in Nat
      BY <1>3, SlotsAreLists, OneBatch DEF InOwnSlot
    <3> QED  BY <1>2, <2>2, <3>1 DEF NoGap, Finished
  <2> QED  BY <2>1, <2>2 DEF InfCollect
<1>5. PICK got : got = FlattenSeq(slots)
  OBVIOUS
<1>6. PICK preds : /\ iPreds' = [iPreds EXCEPT ![r] = preds]
                   /\ preds = [i \in DOMAIN samples |-> IF i <= Len(got) THEN got[i] ELSE Skipped(samples[i])]
  BY <1>2, <1>5 DEF InfCollect
<1>7. ASSUME NEW i \in DOMAIN preds PROVE AnswerTo(preds[i], samples, i)
  <2>1. i \in 1 .. Len(samples) /\ i \in DOMAIN samples
    BY <1>3, <1>6 DEF IsList
  <2>2. CASE i <= Len(got)
    BY <1>3, <1>4, <1>5, <1>6, <2>1, <2>2, InTheirPlaces
  <2>3. CASE ~(i <= Len(got))
    BY <1>6, <2>1, <2>3 DEF Skipped, AnswerTo, AskedOf
  <2> QED  BY <2>2, <2>3
<1>8. /\ iPc'[r] = "predictions" /\ iPreds'[r] = preds
      /\ \A q \in Runs : q # r => /\ iPc'[q] = iPc[q] /\ iPreds'[q] = iPreds[q]
                                  /\ iBusy'[q] = iBusy[q] /\ iResults'[q] = iResults[q]
  BY <1>1, <1>6 DEF AnsInv, InfInv, InfTypeOK, AnsTypeOK
<1>9. AnsTypeOK'
  BY <1>1, <1>6 DEF AnsInv, AnsTypeOK
<1>10. PredictsInSlots'
  BY <1>1, <1>8 DEF AnsInv, PredictsInSlots
<1>11. NoneBefore'
  BY <1>8 DEF AnsInv, NoneBefore
<1>12. AnswersItsSample'
  <2>1. DOMAIN samples = 1 .. Len(samples)
    BY <1>3 DEF IsList
  <2> QED  BY <1>1, <1>2, <1>7, <1>8, <2>1 DEF AnsInv, AnswersItsSample, AnswerTo, AskedOf
<1> QED  BY <1>9, <1>10, <1>11, <1>12

\* Every step keeps it.
LEMMA AnsStepInv == AnsInv /\ [InfNext]_infVars => AnsInv'
<1> SUFFICES ASSUME AnsInv, [InfNext]_infVars
             PROVE  AnsTypeOK' /\ PredictsInSlots' /\ NoneBefore' /\ AnswersItsSample'
  BY InfStepInv DEF AnsInv
<1>1. InfTypeOK /\ AnsTypeOK
  BY DEF AnsInv, InfInv
<1>2. CASE \E r \in Runs : InfRun(r)
  <2>1. PICK r \in Runs : InfRun(r)
    BY <1>2
  <2>2. ASSUME NEW from, NEW d, NEW fast, InfStart(r, from, d, fast)
        PROVE  AnsTypeOK' /\ PredictsInSlots' /\ NoneBefore' /\ AnswersItsSample'
    <3>1. /\ iPc[r] = "idle" /\ UNCHANGED <<iSamples, iPreds, iBusy, iResults>>
          /\ iPc' = [iPc EXCEPT ![r] = IF Found THEN "build" ELSE "error"]
          /\ iFast' = [q \in Runs |-> iFast'[q]] /\ \A q \in Runs : q # r => iFast'[q] = iFast[q]
      BY <1>1, <2>2 DEF InfStart, AnsTypeOK
    <3>2. \A q \in Runs : iPc'[q] \in {"idle", "build", "predict"} => iPc[q] \in {"idle", "build", "predict"}
      BY <1>1, <3>1 DEF InfTypeOK
    <3>3. \A q \in Runs : iPc'[q] = "predict" => q # r /\ iPc[q] = "predict"
      BY <1>1, <3>1 DEF InfTypeOK
    <3> QED  BY <1>1, <3>1, <3>2, <3>3, OtherStep DEF AnsInv, NoneBefore, AnsTypeOK
  <2>3. CASE InfOpen(r)
    BY <1>1, <2>3, OtherStep DEF InfOpen, AnsInv, NoneBefore, AnsTypeOK
  <2>4. CASE InfWrite(r) \/ InfRecord(r) \/ InfFinal(r)
    <3>1. PICK to \in Kinds \cup {"job", "final", "done"} :
            /\ iPc' = [iPc EXCEPT ![r] = to] /\ UNCHANGED <<iSamples, iPreds, iBusy, iResults>>
            /\ iFast' = [q \in Runs |-> iFast'[q]] /\ \A q \in Runs : q # r => iFast'[q] = iFast[q]
      BY <1>1, <2>4, StepsInOrder, AfterFile DEF InfWrite, InfRecord, InfFinal, AnsTypeOK, InfTypeOK
    <3>2. to \notin {"idle", "build", "predict"}
      BY <3>1 DEF Kinds
    <3>3. \A q \in Runs : iPc'[q] \in {"idle", "build", "predict"} => q # r /\ iPc'[q] = iPc[q]
      BY <1>1, <3>1, <3>2 DEF InfTypeOK
    <3> QED  BY <1>1, <3>1, <3>2, <3>3, OtherStep DEF AnsInv, NoneBefore, AnsTypeOK
  <2>5. CASE InfCut(r)
    <3>1. /\ iPc' = [iPc EXCEPT ![r] = "cut"] /\ UNCHANGED <<iSamples, iPreds, iFast>>
          /\ iBusy' = [iBusy EXCEPT ![r] = <<>>] /\ iResults' = [iResults EXCEPT ![r] = <<>>]
      BY <2>5 DEF InfCut
    <3>2. \A q \in Runs : iPc'[q] \in {"idle", "build", "predict"} => q # r /\ iPc'[q] = iPc[q]
      BY <1>1, <3>1 DEF InfTypeOK
    <3> QED  BY <1>1, <3>1, <3>2, OtherStep DEF AnsInv, NoneBefore, AnsTypeOK
  <2> QED  BY <2>1, <2>2, <2>3, <2>4, <2>5, BuildStep, CallStep, CollectStep DEF InfRun
<1>3. CASE Register \/ DbFlips \/ DistillBuild \/ (\E d \in Outputs : DistillRead(d)) \/ UNCHANGED infVars
  <2>1. UNCHANGED <<iPc, iFast, iSamples, iPreds, iBusy, iResults>>
    BY <1>3 DEF Register, DbFlips, DistillBuild, DistillRead, infVars, runVars
  <2> QED  BY <1>1, <2>1, OtherStep DEF AnsInv, NoneBefore, AnsTypeOK
<1> QED  BY <1>2, <1>3 DEF InfNext

\* Every prediction carries the id of the sample it is zipped with and answers a sample of that id, for
\* any number of samples and workers and any batch size, however the batches finish and in whatever
\* order, and with whatever gaps, a backend answers (_predict_with_retry, run_batches_concurrent).
THEOREM OwnAnswers == InfSpec => []AnswersItsSample
<1>1. InfInit => AnsInv
  <2>1. ASSUME InfInit PROVE AnsTypeOK /\ PredictsInSlots /\ NoneBefore /\ AnswersItsSample
    BY <2>1 DEF InfInit, AnsTypeOK, IsList, PredictsInSlots, NoneBefore, AnswersItsSample
  <2> QED  BY <2>1, InfInitInv DEF AnsInv
<1>2. AnsInv => AnswersItsSample
  BY DEF AnsInv
<1> QED  BY <1>1, <1>2, AnsStepInv, PTL DEF InfSpec

-----------------------------------------------------------------------------
(* The metadata tables: TablesHold for any clients and any interleaving of *)
(* their sessions, outages of the database and deaths between two writes.  *)
(*                                                                         *)
(* A session writes what differs from the row that it found, so a write is *)
(* in its row when the row still is what the session found, or when another *)
(* client has stored its own value in between (SeenIsCurrent).  From there *)
(* on the row keeps it until a write to the same column, which is the      *)
(* client's own next one or again that of another (ClaimsHold).            *)

MetaTables ==
  {LakeAssets, EtlJobs, LineageEdges, DatasetVersions, QualitySnapshots, EtlShards, BenchmarkRuns,
   BenchmarkCases, RuntimeEvents, ArgoWorkflows, QcContracts, QcContractRuns, WorkflowRuns,
   WorkflowSteps, AssetProfiles, MlReadyDatasets, Partitions, Heartbeats, OpenLineage}
Unlimited == {"lineage_edges", "quality_snapshots", "task_heartbeats"}

\* The writes of a program, done or to be done, and a row with all its columns.
Plan(s) == IsList(s) /\ \A k \in 1 .. Len(s) : s[k].table \in MetaTables
IsRow(r) == r = [table |-> r.table, key |-> r.key, metrics |-> r.metrics,
                 cols |-> [col \in Columns |-> r.cols[col]]]
OnRow(op, row) == row.table = op.table.name /\ row.key = op.key

StoreTypeOK ==
  /\ IsList(rows) /\ \A i \in 1 .. Len(rows) : IsRow(rows[i])
  /\ todo = [c \in Clients |-> todo[c]] /\ \A c \in Clients : Plan(todo[c])
  /\ stored = [c \in Clients |-> stored[c]] /\ \A c \in Clients : Plan(stored[c])
  /\ seen = [c \in Clients |-> seen[c]]

\* A session that has made its SELECT has a write to make, to the row that it found.
SeenFits ==
  \A c \in Clients : seen[c] # Nothing =>
    /\ todo[c] # <<>> /\ seen[c].at \in 0 .. Len(rows)
    /\ seen[c].at # 0 => IsRow(seen[c].row) /\ OnRow(Head(todo[c]), rows[seen[c].at])

StoreInv == StoreTypeOK /\ SeenFits /\ OneRowPerKey

\* A column that no longer holds what a session found in it holds what another client has
\* stored there.
OthersMeant(done, c, op, col, value) ==
  \E d \in Clients \ {c} : \E k \in 1 .. Len(done[d]) :
     SameRow(done[d][k], op) /\ Cares(done[d][k], col) /\ value = Meant(done[d][k], col)
SeenIsCurrent ==
  \A c \in Clients : seen[c] # Nothing /\ seen[c].at # 0 => \A col \in Columns :
    \/ rows[seen[c].at].cols[col] = seen[c].row.cols[col]
    \/ OthersMeant(stored, c, Head(todo[c]), col, rows[seen[c].at].cols[col])

\* A stored write holds in its row, or another client has stored its own value there.
Claim(c, k, col) ==
  Cares(stored[c][k], col)
  /\ (\A j \in k + 1 .. Len(stored[c]) : ~(SameRow(stored[c][j], stored[c][k]) /\ Cares(stored[c][j], col)))
Held(c, k, col) ==
  \E i \in 1 .. Len(rows) :
    /\ OnRow(stored[c][k], rows[i])
    /\ \/ rows[i].cols[col] = Meant(stored[c][k], col)
       \/ OthersMeant(stored, c, stored[c][k], col, rows[i].cols[col])
ClaimsHold ==
  \A c \in Clients : \A k \in 1 .. Len(stored[c]) : \A col \in Columns : Claim(c, k, col) => Held(c, k, col)

\* A client of ProgramsSpec runs one program.
OncePerClient ==
  /\ program = [c \in Clients |-> program[c]]
  /\ \A c \in Clients : /\ program[c] \in {"none", "writes"}
                        /\ program[c] = "none" => todo[c] = <<>> /\ stored[c] = <<>>

ProgramsInv == StoreInv /\ SeenIsCurrent /\ ClaimsHold /\ OncePerClient

\* A name is that of one table, and those without a unique constraint are the three above.
LEMMA TablesApart ==
  \A t, u \in MetaTables : (t.name = u.name => t = u) /\ (t.unique = <<>> <=> t.name \in Unlimited)
<1> USE DEF LakeAssets, EtlJobs, LineageEdges, DatasetVersions, QualitySnapshots, EtlShards, BenchmarkRuns,
   BenchmarkCases, RuntimeEvents, ArgoWorkflows, QcContracts, QcContractRuns, WorkflowRuns,
   WorkflowSteps, AssetProfiles, MlReadyDatasets, Partitions, Heartbeats, OpenLineage
<1>1. \A t \in MetaTables : t.unique = <<>> <=> t.name \in Unlimited
  BY DEF MetaTables, Unlimited
<1>2. ASSUME NEW u \in MetaTables
      PROVE  /\ (u.name = "lake_assets" => u = LakeAssets) /\ (u.name = "etl_jobs" => u = EtlJobs)
             /\ (u.name = "lineage_edges" => u = LineageEdges) /\ (u.name = "dataset_versions" => u = DatasetVersions)
             /\ (u.name = "quality_snapshots" => u = QualitySnapshots) /\ (u.name = "etl_shards" => u = EtlShards)
             /\ (u.name = "benchmark_runs" => u = BenchmarkRuns) /\ (u.name = "benchmark_cases" => u = BenchmarkCases)
             /\ (u.name = "runtime_events" => u = RuntimeEvents) /\ (u.name = "argo_workflow_runs" => u = ArgoWorkflows)
             /\ (u.name = "qc_contracts" => u = QcContracts) /\ (u.name = "qc_contract_runs" => u = QcContractRuns)
             /\ (u.name = "workflow_runs" => u = WorkflowRuns) /\ (u.name = "workflow_steps" => u = WorkflowSteps)
             /\ (u.name = "asset_profiles" => u = AssetProfiles) /\ (u.name = "ml_ready_datasets" => u = MlReadyDatasets)
             /\ (u.name = "dataset_partitions" => u = Partitions) /\ (u.name = "task_heartbeats" => u = Heartbeats)
             /\ (u.name = "openlineage_events" => u = OpenLineage)
  BY DEF MetaTables
<1>3. \A t, u \in MetaTables : t.name = u.name => t = u
  BY <1>2 DEF MetaTables
<1> QED  BY <1>1, <1>3

\* All write methods are those of a table.
LEMMA WritesAreKnown ==
  \A a, b, c, d, e, f, g :
    /\ RecordLakeAsset(a, b).table \in MetaTables /\ RecordEtlJobStart(a).table \in MetaTables
    /\ RecordEtlJobFinish(a, b, c, d).table \in MetaTables /\ RecordLineageEdge(a, b).table \in MetaTables
    /\ UpsertDatasetVersion(a, b, c, d).table \in MetaTables
    /\ RecordQualitySnapshot(a, b, c).table \in MetaTables
    /\ RecordEtlShard(a, b, c, d, e, f).table \in MetaTables
    /\ RecordBenchmarkRun(a, b, c).table \in MetaTables
    /\ RecordBenchmarkCase(a, b, c, d).table \in MetaTables
    /\ RecordRuntimeEvent(a, b).table \in MetaTables /\ UpsertQcContract(a, b).table \in MetaTables
    /\ RecordQcContractRun(a, b, c).table \in MetaTables /\ RecordAssetProfile(a, b, c).table \in MetaTables
    /\ RecordMlReadyDataset(a, b, c).table \in MetaTables
    /\ RecordDatasetPartition(a, b, c, d).table \in MetaTables
    /\ UpsertWorkflowRun(a, b, c, d).table \in MetaTables
    /\ UpsertWorkflowStep(a, b, c, d, e, f, g).table \in MetaTables
    /\ RecordTaskHeartbeat(a, b, c).table \in MetaTables
BY DEF MetaTables, Write, RecordLakeAsset, RecordEtlJobStart, RecordEtlJobFinish, RecordLineageEdge,
       UpsertDatasetVersion, RecordQualitySnapshot, RecordEtlShard, RecordBenchmarkRun,
       RecordBenchmarkCase, RecordRuntimeEvent, UpsertQcContract, RecordQcContractRun,
       RecordAssetProfile, RecordMlReadyDataset, RecordDatasetPartition, UpsertWorkflowRun,
       UpsertWorkflowStep, RecordTaskHeartbeat

\* A tuple of writes to known tables is the plan of a program.
LEMMA TuplesArePlans ==
  ASSUME NEW a, NEW b, NEW c, NEW d, NEW e, NEW f, a.table \in MetaTables, b.table \in MetaTables,
         c.table \in MetaTables, d.table \in MetaTables, e.table \in MetaTables, f.table \in MetaTables
  PROVE  /\ Plan(<<a>>) /\ Plan(<<a, b>>) /\ Plan(<<a, b, c>>) /\ Plan(<<a, b, c, d>>)
         /\ Plan(<<a, b, c, d, e>>) /\ Plan(<<a, b, c, d, e, f>>)
<1>2. IsList(<<a>>) /\ IsList(<<a, b>>) /\ IsList(<<a, b, c>>) /\ IsList(<<a, b, c, d>>)
  BY DEF IsList
<1>3. IsList(<<a, b, c, d, e>>) /\ IsList(<<a, b, c, d, e, f>>)
  BY DEF IsList
<1>4. Plan(<<a>>)
  BY <1>2 DEF Plan
<1>5. Plan(<<a, b>>)
  BY <1>2 DEF Plan
<1>6. Plan(<<a, b, c>>)
  BY <1>2 DEF Plan
<1>7. Plan(<<a, b, c, d>>)
  BY <1>2 DEF Plan
<1>8. Plan(<<a, b, c, d, e>>)
  BY <1>3 DEF Plan
<1>9. Plan(<<a, b, c, d, e, f>>)
  BY <1>3 DEF Plan
<1> QED  BY <1>4, <1>5, <1>6, <1>7, <1>8, <1>9

\* Every program writes to known tables.
LEMMA ProgramsArePlans == ASSUME NEW c PROVE \A p \in Programs(c) : Plan(p)
<1>1. Plan(NormalizeWrites(c))
  BY WritesAreKnown, TuplesArePlans DEF NormalizeWrites
<1>2. Plan(AdsWrites(c))
  BY WritesAreKnown, TuplesArePlans DEF AdsWrites
<1>3. Plan(FailedFeatures(c))
  BY WritesAreKnown, TuplesArePlans DEF FailedFeatures
<1>4. ASSUME NEW status PROVE Plan(ShardWrites(c, status))
  BY WritesAreKnown, TuplesArePlans DEF ShardWrites
<1>5. Plan(BenchmarkWrites(c))
  BY WritesAreKnown, TuplesArePlans DEF BenchmarkWrites
<1>6. ASSUME NEW status PROVE Plan(ContractWrites(c, status))
  BY WritesAreKnown, TuplesArePlans DEF ContractWrites
<1>7. Plan(ProfileWrites(c)) /\ Plan(MlReadyWrites(c)) /\ Plan(PlanWrites(c))
  BY WritesAreKnown, TuplesArePlans DEF ProfileWrites, MlReadyWrites, PlanWrites
<1>8. Plan(PartitionWrites(c))
  BY WritesAreKnown, TuplesArePlans DEF PartitionWrites
<1> QED  BY <1>1, <1>2, <1>3, <1>4, <1>5, <1>6, <1>7, <1>8 DEF Programs

\* A list with one more element.
LEMMA Appending ==
  ASSUME NEW s, IsList(s), NEW x
  PROVE  /\ IsList(Append(s, x)) /\ Len(Append(s, x)) = Len(s) + 1 /\ Append(s, x)[Len(s) + 1] = x
         /\ \A i \in 1 .. Len(s) : Append(s, x)[i] = s[i]
<1>1. PICK U : U = {s[i] : i \in 1 .. Len(s)} \cup {x}
  OBVIOUS
<1>2. s \in Seq(U)
  BY <1>1 DEF IsList
<1>3. Append(s, x) \in Seq(U) /\ Len(s) \in Nat
  BY <1>1, <1>2 DEF IsList
<1>4. IsList(Append(s, x))
  BY <1>3, SeqIsList
<1>5. /\ Len(Append(s, x)) = Len(s) + 1 /\ Append(s, x)[Len(s) + 1] = x
      /\ \A i \in 1 .. Len(s) : Append(s, x)[i] = s[i]
  BY <1>1, <1>2, <1>3
<1> QED  BY <1>4, <1>5

\* A plan stays one when a write is added, and when the first is taken from it.
LEMMA PlansGrow ==
  ASSUME NEW s, Plan(s), NEW op, op.table \in MetaTables
  PROVE  Plan(Append(s, op))
BY Appending DEF Plan

\* The first write of a plan, and what is left of it.
LEMMA PlansShrink ==
  ASSUME NEW s, Plan(s), s # <<>>
  PROVE  Plan(Tail(s)) /\ Head(s).table \in MetaTables
<1>1. PICK U : U = {s[i] : i \in 1 .. Len(s)}
  OBVIOUS
<1>2. s \in Seq(U) /\ \A op \in U : op.table \in MetaTables
  BY <1>1 DEF Plan, IsList
<1>3. Tail(s) \in Seq(U) /\ Head(s) \in U
  BY <1>2
<1>4. IsList(Tail(s))
  BY <1>3, SeqIsList
<1> QED  BY <1>2, <1>3, <1>4 DEF Plan

\* What a session writes, a row of its own or a column of another.
LEMMA NewRow ==
  ASSUME NEW op
  PROVE  /\ IsRow(Inserted(op)) /\ OnRow(op, Inserted(op))
         /\ \A col \in Columns : Cares(op, col) => Inserted(op).cols[col] = Meant(op, col)
BY DEF IsRow, OnRow, Inserted, Cares, Meant

\* An UPDATE keeps the row that it is, and touches the columns that the session has changed.
LEMMA ChangedRow ==
  ASSUME NEW op, NEW row, NEW old, IsRow(row), IsRow(old), NEW upd, upd = Updated(row, old, Assigned(op, old))
  PROVE  /\ IsRow(upd) /\ upd.table = row.table /\ upd.key = row.key
         /\ \A col \in Columns :
              IF Cares(op, col) /\ Meant(op, col) # old.cols[col] THEN upd.cols[col] = Meant(op, col)
              ELSE upd.cols[col] = row.cols[col]
<1>1. PICK new : new = Assigned(op, old)
  OBVIOUS
<1>2. /\ IsRow(new)
      /\ \A col \in Columns : new.cols[col] = IF Cares(op, col) THEN Meant(op, col) ELSE old.cols[col]
  BY <1>1 DEF IsRow, Assigned, Cares, Meant
<1>3. /\ IsRow(upd) /\ upd.table = row.table /\ upd.key = row.key
      /\ \A col \in Columns :
           upd.cols[col] = IF new.cols[col] # old.cols[col] THEN new.cols[col] ELSE row.cols[col]
  BY <1>1 DEF IsRow, Updated
<1> QED  BY <1>2, <1>3

\* A commit appends a row or changes one, and only columns that its write cares about; a
\* write that is stored has its row, with the values it means or, where the session found
\* them already, what is there now.
Committed(c, op, ok) ==
  /\ todo' = [todo EXCEPT ![c] = Tail(todo[c])] /\ seen' = [seen EXCEPT ![c] = Nothing]
  /\ stored' = [stored EXCEPT ![c] = IF ok THEN Append(stored[c], op) ELSE stored[c]]
  /\ IsList(rows') /\ Len(rows) <= Len(rows') /\ \A i \in 1 .. Len(rows') : IsRow(rows'[i])
  /\ \A i \in 1 .. Len(rows) :
       /\ rows'[i].table = rows[i].table /\ rows'[i].key = rows[i].key
       /\ \A col \in Columns :
            \/ rows'[i].cols[col] = rows[i].cols[col]
            \/ ok /\ OnRow(op, rows[i]) /\ Cares(op, col) /\ rows'[i].cols[col] = Meant(op, col)
  /\ ok => \E i \in 1 .. Len(rows') :
       /\ OnRow(op, rows'[i])
       /\ \A col \in Columns : Cares(op, col) =>
            \/ rows'[i].cols[col] = Meant(op, col)
            \/ /\ seen[c].at = i /\ i \in 1 .. Len(rows) /\ Meant(op, col) = seen[c].row.cols[col]
               /\ rows'[i].cols[col] = rows[i].cols[col]

\* What a commit does is one of the two, and no key gets a second row.
LEMMA CommitStep ==
  ASSUME StoreInv, NEW c \in Clients, Commit(c)
  PROVE  /\ \E ok \in BOOLEAN : Committed(c, Head(todo[c]), ok)
         /\ OneRowPerKey'
<1> DEFINE op == Head(todo[c])
           at == seen[c].at
           ok == online /\ (at = 0 => ~Taken(op))
<1>1. /\ todo' = [todo EXCEPT ![c] = Tail(todo[c])] /\ seen' = [seen EXCEPT ![c] = Nothing]
      /\ stored' = [stored EXCEPT ![c] = IF ok THEN Append(stored[c], op) ELSE stored[c]]
      /\ rows' = IF ~ok THEN rows
                 ELSE IF at = 0 THEN Append(rows, Inserted(op))
                 ELSE [rows EXCEPT ![at] = Updated(rows[at], seen[c].row, Assigned(op, seen[c].row))]
  BY DEF Commit, Returns
<1>2. /\ IsList(rows) /\ \A i \in 1 .. Len(rows) : IsRow(rows[i])
      /\ op.table \in MetaTables /\ at \in 0 .. Len(rows)
      /\ at # 0 => IsRow(seen[c].row) /\ OnRow(op, rows[at])
      /\ OneRowPerKey
  BY PlansShrink DEF StoreInv, StoreTypeOK, SeenFits, Commit
<1>3. Len(rows) \in Nat /\ DOMAIN rows = 1 .. Len(rows)
  BY <1>2 DEF IsList
<1> HIDE DEF op, at
<1>0. ok \in BOOLEAN
  OBVIOUS
<1>4. CASE ~ok
  <2>1. rows' = rows
    BY <1>1, <1>4
  <2>2. /\ todo' = [todo EXCEPT ![c] = Tail(todo[c])] /\ seen' = [seen EXCEPT ![c] = Nothing]
        /\ stored' = [stored EXCEPT ![c] = stored[c]]
    BY <1>1, <1>4
  <2>3. Committed(c, op, FALSE)
    BY <1>2, <1>3, <2>1, <2>2 DEF Committed
  <2> QED  BY <1>2, <2>1, <2>3 DEF OneRowPerKey, op
<1>5. CASE ok /\ at = 0
  <2>1. PICK new : new = Inserted(op)
    OBVIOUS
  <2>2. /\ IsList(rows') /\ Len(rows') = Len(rows) + 1 /\ rows'[Len(rows) + 1] = new
        /\ \A i \in 1 .. Len(rows) : rows'[i] = rows[i]
    BY <1>1, <1>2, <1>5, <2>1, Appending
  <2>3. /\ IsRow(new) /\ OnRow(op, new)
        /\ \A col \in Columns : Cares(op, col) => new.cols[col] = Meant(op, col)
    BY <2>1, NewRow
  <2>4. ~Taken(op)
    BY <1>5
  <2>5. OneRowPerKey'
    <3>1. op.table.name \in Unlimited \/ \A i \in 1 .. Len(rows) : ~OnRow(op, rows[i])
      BY <1>2, <1>3, <2>4, TablesApart DEF Taken, RowsOf, OnRow
    <3>2. DOMAIN rows' = 1 .. Len(rows) + 1
      BY <2>2 DEF IsList
    <3> QED  BY <1>2, <1>3, <2>2, <2>3, <3>1, <3>2 DEF OneRowPerKey, OnRow, Unlimited
  <2>6. Len(rows) + 1 \in 1 .. Len(rows') /\ Len(rows) <= Len(rows')
    BY <1>3, <2>2
  <2>7. \A i \in 1 .. Len(rows') : IsRow(rows'[i])
    BY <1>2, <1>3, <2>2, <2>3
  <2>8. Committed(c, op, TRUE)
    BY <1>1, <1>2, <1>3, <1>5, <2>2, <2>3, <2>6, <2>7 DEF Committed
  <2> QED  BY <2>5, <2>8 DEF op
<1>6. CASE ok /\ at # 0
  <2>1. PICK old : old = seen[c].row
    OBVIOUS
  <2>2. PICK new : new = Updated(rows[at], old, Assigned(op, old))
    OBVIOUS
  <2>3. at \in 1 .. Len(rows) /\ IsRow(rows[at]) /\ IsRow(old) /\ OnRow(op, rows[at])
    BY <1>2, <1>3, <1>6, <2>1
  <2>4. /\ IsRow(new) /\ new.table = rows[at].table /\ new.key = rows[at].key
        /\ \A col \in Columns :
             IF Cares(op, col) /\ Meant(op, col) # old.cols[col] THEN new.cols[col] = Meant(op, col)
             ELSE new.cols[col] = rows[at].cols[col]
    BY <2>2, <2>3, ChangedRow
  <2>5. rows' = [rows EXCEPT ![at] = new]
    BY <1>1, <1>6, <2>1, <2>2
  <2>6. /\ IsList(rows') /\ Len(rows') = Len(rows) /\ rows'[at] = new
        /\ \A i \in 1 .. Len(rows) : i # at => rows'[i] = rows[i]
    <3>1. PICK U : U = {rows[i] : i \in 1 .. Len(rows)} \cup {new}
      OBVIOUS
    <3>2. rows \in Seq(U) /\ new \in U /\ at \in 1 .. Len(rows)
      BY <1>2, <2>3, <3>1 DEF IsList
    <3>3. rows' \in Seq(U) /\ Len(rows') = Len(rows)
      BY <2>5, <3>2
    <3>4. IsList(rows')
      BY <3>3, SeqIsList
    <3>5. rows'[at] = new /\ \A i \in 1 .. Len(rows) : i # at => rows'[i] = rows[i]
      BY <1>3, <2>3, <2>5
    <3> QED  BY <3>3, <3>4, <3>5
  <2>7. \A i \in 1 .. Len(rows) : rows'[i].table = rows[i].table /\ rows'[i].key = rows[i].key
    BY <2>4, <2>6
  <2>8. OneRowPerKey'
    <3>1. DOMAIN rows' = DOMAIN rows
      BY <1>3, <2>5
    <3> QED  BY <1>2, <1>3, <2>7, <3>1 DEF OneRowPerKey
  <2>9. OnRow(op, rows'[at])
    BY <2>3, <2>4, <2>6 DEF OnRow
  <2>10. ASSUME NEW i \in 1 .. Len(rows), NEW col \in Columns
         PROVE  \/ rows'[i].cols[col] = rows[i].cols[col]
                \/ OnRow(op, rows[i]) /\ Cares(op, col) /\ rows'[i].cols[col] = Meant(op, col)
    BY <2>3, <2>4, <2>6
  <2>11. ASSUME NEW col \in Columns, Cares(op, col)
         PROVE  \/ rows'[at].cols[col] = Meant(op, col)
                \/ Meant(op, col) = old.cols[col] /\ rows'[at].cols[col] = rows[at].cols[col]
    BY <2>4, <2>6, <2>11
  <2>12. \A i \in 1 .. Len(rows') : IsRow(rows'[i])
    BY <1>2, <2>4, <2>6
  <2>13. at \in 1 .. Len(rows') /\ Len(rows) <= Len(rows') /\ seen[c].at = at
    BY <1>3, <2>3, <2>6 DEF at
  <2>14. /\ todo' = [todo EXCEPT ![c] = Tail(todo[c])] /\ seen' = [seen EXCEPT ![c] = Nothing]
         /\ stored' = [stored EXCEPT ![c] = Append(stored[c], op)]
    BY <1>1, <1>6
  <2>15. \E i \in 1 .. Len(rows') :
           /\ OnRow(op, rows'[i])
           /\ \A col \in Columns : Cares(op, col) =>
                \/ rows'[i].cols[col] = Meant(op, col)
                \/ /\ seen[c].at = i /\ i \in 1 .. Len(rows) /\ Meant(op, col) = seen[c].row.cols[col]
                   /\ rows'[i].cols[col] = rows[i].cols[col]
    BY <2>1, <2>3, <2>9, <2>11, <2>13
  <2>16. Committed(c, op, TRUE)
    BY <2>6, <2>7, <2>10, <2>12, <2>13, <2>14, <2>15 DEF Committed
  <2> QED  BY <2>8, <2>16 DEF op
<1> QED  BY <1>4, <1>5, <1>6

\* A step that leaves the rows alone: what client c has to do, has stored and has seen.
Becomes(c, p, q, s) ==
  /\ rows' = rows /\ todo' = [todo EXCEPT ![c] = p] /\ stored' = [stored EXCEPT ![c] = q]
  /\ seen' = [seen EXCEPT ![c] = s]
Quiet(c, p, q, s) ==
  /\ Becomes(c, p, q, s) /\ Plan(p) /\ Plan(q)
  /\ s # Nothing => /\ p # <<>> /\ s.at \in 0 .. Len(rows)
                    /\ s.at # 0 => IsRow(s.row) /\ OnRow(Head(p), rows[s.at])

\* A program that is over has nothing to write.
LEMMA EmptyPlan == Plan(<<>>)
BY DEF Plan, IsList

\* Nothing changes with the database going away and coming back, or with other parts of the model.
LEMMA StillKeeps ==
  ASSUME UNCHANGED <<rows, todo, seen, stored>>
  PROVE  (StoreInv => StoreInv') /\ (SeenIsCurrent => SeenIsCurrent') /\ (ClaimsHold => ClaimsHold')
<1>1. StoreInv => StoreInv'
  BY DEF StoreInv, StoreTypeOK, SeenFits, OneRowPerKey
<1>2. SeenIsCurrent => SeenIsCurrent'
  BY DEF SeenIsCurrent
<1>3. ClaimsHold => ClaimsHold'
  BY DEF ClaimsHold, Claim, Held
<1> QED  BY <1>1, <1>2, <1>3

\* A process that dies leaves the tables as they are.
LEMMA AbandonIsQuiet == ASSUME StoreInv, NEW c \in Clients, Abandon(c) PROVE Quiet(c, <<>>, stored[c], Nothing)
<1>1. Becomes(c, <<>>, stored[c], Nothing)
  BY DEF StoreInv, StoreTypeOK, Becomes, Abandon
<1> QED  BY <1>1, EmptyPlan DEF StoreInv, StoreTypeOK, Quiet

\* So does one that starts.
LEMMA LaunchIsQuiet ==
  ASSUME StoreInv, NEW c \in Clients, NEW p, Plan(p), Launch(c, p) PROVE Quiet(c, p, <<>>, Nothing)
<1>1. seen[c] = Nothing
  BY DEF StoreInv, SeenFits, Launch, Busy
<1>2. Becomes(c, p, <<>>, Nothing)
  BY <1>1 DEF StoreInv, StoreTypeOK, Becomes, Launch
<1> QED  BY <1>2, EmptyPlan DEF Quiet

\* So does a SELECT, which finds the row of its key or none.
LEMMA LookIsQuiet ==
  ASSUME StoreInv, NEW c \in Clients, Look(c)
  PROVE  \E p, s : /\ Quiet(c, p, stored[c], s)
                   /\ s # Nothing => p = todo[c] /\ (s.at # 0 => s.row = rows[s.at])
<1>0. /\ Plan(todo[c]) /\ Plan(stored[c]) /\ todo[c] # <<>> /\ IsList(rows) /\ seen[c] = Nothing
      /\ \A i \in 1 .. Len(rows) : IsRow(rows[i])
  BY DEF StoreInv, StoreTypeOK, Look
<1>1. CASE ~online
  <2>1. Becomes(c, Tail(todo[c]), stored[c], Nothing)
    BY <1>1 DEF StoreInv, StoreTypeOK, Becomes, Look, Returns
  <2>2. Quiet(c, Tail(todo[c]), stored[c], Nothing)
    BY <1>0, <2>1, PlansShrink DEF Quiet
  <2> QED  BY <2>2
<1>2. CASE online
  <2>1. PICK s : /\ seen' = [seen EXCEPT ![c] = s] /\ UNCHANGED <<rows, todo, stored>>
                 /\ \/ s = [at |-> 0]
                    \/ \E i \in RowsOf(Head(todo[c]).table, Head(todo[c]).key) : s = [at |-> i, row |-> rows[i]]
    BY <1>2 DEF Look
  <2>2. Becomes(c, todo[c], stored[c], s)
    BY <2>1 DEF StoreInv, StoreTypeOK, Becomes
  <2>3. /\ s.at \in 0 .. Len(rows)
        /\ s.at # 0 => /\ s.row = rows[s.at] /\ IsRow(s.row)
                       /\ OnRow(Head(todo[c]), rows[s.at])
    <3>1. Len(rows) \in Nat /\ DOMAIN rows = 1 .. Len(rows)
      BY <1>0 DEF IsList
    <3> QED  BY <1>0, <2>1, <3>1 DEF RowsOf, OnRow
  <2> QED  BY <1>0, <2>2, <2>3 DEF Quiet
<1> QED  BY <1>1, <1>2

\* The tables are well-formed after such a step.
LEMMA QuietKeepsStore ==
  ASSUME StoreInv, NEW c \in Clients, NEW p, NEW q, NEW s, Quiet(c, p, q, s) PROVE StoreInv'
<1>1. /\ rows' = rows /\ todo' = [d \in Clients |-> IF d = c THEN p ELSE todo[d]]
      /\ stored' = [d \in Clients |-> IF d = c THEN q ELSE stored[d]]
      /\ seen' = [d \in Clients |-> IF d = c THEN s ELSE seen[d]]
  BY DEF StoreInv, StoreTypeOK, Quiet, Becomes
<1>2. StoreTypeOK'
  BY <1>1 DEF StoreInv, StoreTypeOK, Quiet
<1>3. SeenFits'
  BY <1>1 DEF StoreInv, SeenFits, Quiet
<1>4. OneRowPerKey'
  BY <1>1 DEF StoreInv, OneRowPerKey
<1> QED  BY <1>2, <1>3, <1>4 DEF StoreInv

\* And after a commit.
LEMMA CommitKeepsStore ==
  ASSUME StoreInv, NEW c \in Clients, Commit(c) PROVE StoreInv'
<1>1. PICK ok \in BOOLEAN : Committed(c, Head(todo[c]), ok)
  BY CommitStep
<1>2. Plan(Tail(todo[c])) /\ Head(todo[c]).table \in MetaTables /\ Plan(stored[c])
  BY PlansShrink DEF StoreInv, StoreTypeOK, SeenFits, Commit
<1>3. PICK p, q : /\ Plan(p) /\ Plan(q)
                  /\ todo' = [todo EXCEPT ![c] = p] /\ stored' = [stored EXCEPT ![c] = q]
  BY <1>1, <1>2, PlansGrow DEF Committed
<1>4. /\ seen' = [seen EXCEPT ![c] = Nothing] /\ IsList(rows') /\ Len(rows) <= Len(rows')
      /\ \A i \in 1 .. Len(rows') : IsRow(rows'[i])
      /\ \A i \in 1 .. Len(rows) : rows'[i].table = rows[i].table /\ rows'[i].key = rows[i].key
  BY <1>1 DEF Committed
<1>5. StoreTypeOK'
  BY <1>3, <1>4 DEF StoreInv, StoreTypeOK
<1>6. SeenFits'
  <2>1. SUFFICES ASSUME NEW d \in Clients, seen'[d] # Nothing
                 PROVE  /\ todo'[d] # <<>> /\ seen'[d].at \in 0 .. Len(rows')
                        /\ seen'[d].at # 0 => IsRow(seen'[d].row) /\ OnRow(Head(todo'[d]), rows'[seen'[d].at])
    BY DEF SeenFits
  <2>2. d # c /\ seen'[d] = seen[d] /\ todo'[d] = todo[d]
    BY <1>3, <1>4, <2>1 DEF StoreInv, StoreTypeOK
  <2>3. Len(rows) \in Nat /\ Len(rows') \in Nat
    BY <1>4 DEF StoreInv, StoreTypeOK, IsList
  <2> QED  BY <1>4, <2>1, <2>2, <2>3 DEF StoreInv, SeenFits, OnRow
<1> QED  BY <1>5, <1>6, CommitStep DEF StoreInv

\* Stored writes stay stored while clients run one program each.
LEMMA OthersStay ==
  ASSUME StoreInv, StoreInv', NEW c \in Clients, NEW q, stored' = [stored EXCEPT ![c] = q],
         q = stored[c] \/ \E op : q = Append(stored[c], op)
  PROVE  /\ \A d \in Clients : /\ Len(stored[d]) \in Nat /\ Len(stored'[d]) \in Nat
                               /\ Len(stored[d]) <= Len(stored'[d])
                               /\ \A k \in 1 .. Len(stored[d]) : stored'[d][k] = stored[d][k]
         /\ \A d \in Clients : \A op, col, value : OthersMeant(stored, d, op, col, value) => OthersMeant(stored', d, op, col, value)
<1>1. ASSUME NEW d \in Clients
      PROVE  /\ Len(stored[d]) \in Nat /\ Len(stored'[d]) \in Nat /\ Len(stored[d]) <= Len(stored'[d])
             /\ \A k \in 1 .. Len(stored[d]) : stored'[d][k] = stored[d][k]
  <2>1. IsList(stored[d]) /\ stored'[d] = IF d = c THEN q ELSE stored[d]
    BY DEF StoreInv, StoreTypeOK, Plan
  <2>2. Len(stored[d]) \in Nat
    BY <2>1 DEF IsList
  <2>3. CASE stored'[d] = stored[d]
    BY <2>2, <2>3
  <2>4. CASE \E op : stored'[d] = Append(stored[d], op)
    BY <2>1, <2>2, <2>4, Appending
  <2> QED  BY <2>1, <2>3, <2>4
<1>2. ASSUME NEW d \in Clients, NEW op, NEW col, NEW value, OthersMeant(stored, d, op, col, value)
      PROVE  OthersMeant(stored', d, op, col, value)
  <2>1. PICK e \in Clients \ {d} : \E k \in 1 .. Len(stored[e]) :
           SameRow(stored[e][k], op) /\ Cares(stored[e][k], col) /\ value = Meant(stored[e][k], col)
    BY <1>2 DEF OthersMeant
  <2>2. PICK k \in 1 .. Len(stored[e]) :
           SameRow(stored[e][k], op) /\ Cares(stored[e][k], col) /\ value = Meant(stored[e][k], col)
    BY <2>1
  <2>3. k \in 1 .. Len(stored'[e]) /\ stored'[e][k] = stored[e][k]
    BY <1>1, <2>2
  <2> QED  BY <2>2, <2>3 DEF OthersMeant, SameRow, Cares, Meant
<1> QED  BY <1>1, <1>2

\* Nothing that was stored goes away in such a step.
LEMMA QuietKeepsMeaning ==
  ASSUME StoreInv, SeenIsCurrent, ClaimsHold, NEW c \in Clients, NEW p, NEW s, Quiet(c, p, stored[c], s),
         s # Nothing => p = todo[c] /\ (s = seen[c] \/ (s.at # 0 => s.row = rows[s.at]))
  PROVE  SeenIsCurrent' /\ ClaimsHold'
<1>1. /\ rows' = rows /\ todo' = [d \in Clients |-> IF d = c THEN p ELSE todo[d]]
      /\ stored' = stored
      /\ seen' = [d \in Clients |-> IF d = c THEN s ELSE seen[d]]
  BY DEF StoreInv, StoreTypeOK, Quiet, Becomes
<1>2. ClaimsHold'
  BY <1>1 DEF ClaimsHold, Claim, Held, OthersMeant, SameRow, Cares, Meant, OnRow
<1>3. \A d \in Clients : \A op, col, value : OthersMeant(stored, d, op, col, value) => OthersMeant(stored', d, op, col, value)
  BY <1>1 DEF OthersMeant, SameRow, Cares, Meant
<1>4. SeenIsCurrent'
  <2>1. SUFFICES ASSUME NEW d \in Clients, seen'[d] # Nothing, seen'[d].at # 0, NEW col \in Columns
                 PROVE  \/ rows'[seen'[d].at].cols[col] = seen'[d].row.cols[col]
                        \/ OthersMeant(stored', d, Head(todo'[d]), col, rows'[seen'[d].at].cols[col])
    BY DEF SeenIsCurrent
  <2>2. CASE seen'[d] = seen[d] /\ todo'[d] = todo[d]
    <3>1. \/ rows[seen[d].at].cols[col] = seen[d].row.cols[col]
          \/ OthersMeant(stored, d, Head(todo[d]), col, rows[seen[d].at].cols[col])
      BY <2>1, <2>2 DEF SeenIsCurrent
    <3> QED  BY <1>1, <2>2, <3>1
  <2>3. CASE d = c /\ s # seen[c]
    BY <1>1, <2>1, <2>3
  <2> QED  BY <1>1, <2>1, <2>2, <2>3
<1> QED  BY <1>2, <1>4

\* Nor in a commit: the columns it changes are those of its own write, for all others its row is as it was.
LEMMA CommitKeepsMeaning ==
  ASSUME StoreInv, SeenIsCurrent, ClaimsHold, NEW c \in Clients, Commit(c)
  PROVE  SeenIsCurrent' /\ ClaimsHold'
<1>1. PICK ok \in BOOLEAN : Committed(c, Head(todo[c]), ok)
  BY CommitStep
<1>2. PICK op : op = Head(todo[c])
  OBVIOUS
<1>3. op.table \in MetaTables
  BY <1>2, PlansShrink DEF StoreInv, StoreTypeOK, SeenFits, Commit
<1>4. PICK q : stored' = [stored EXCEPT ![c] = q] /\ q = IF ok THEN Append(stored[c], op) ELSE stored[c]
  BY <1>1, <1>2 DEF Committed
<1>5. StoreInv'
  BY CommitKeepsStore
<1>6. \A d \in Clients : /\ Len(stored[d]) \in Nat /\ Len(stored'[d]) \in Nat
                         /\ Len(stored[d]) <= Len(stored'[d])
                         /\ \A k \in 1 .. Len(stored[d]) : stored'[d][k] = stored[d][k]
  BY <1>4, <1>5, OthersStay
<1>7. \A d \in Clients : \A o, col, value : OthersMeant(stored, d, o, col, value) => OthersMeant(stored', d, o, col, value)
  BY <1>4, <1>5, OthersStay
<1>8. /\ \A d \in Clients \ {c} : stored'[d] = stored[d] /\ seen'[d] = seen[d] /\ todo'[d] = todo[d]
      /\ seen'[c] = Nothing /\ stored'[c] = q
  BY <1>1, <1>4 DEF Committed, StoreInv, StoreTypeOK
<1>9. /\ ok => Len(stored'[c]) = Len(stored[c]) + 1 /\ stored'[c][Len(stored[c]) + 1] = op
      /\ ~ok => stored'[c] = stored[c]
  BY <1>4, <1>8, Appending DEF StoreInv, StoreTypeOK, Plan
<1>10. Len(rows) \in Nat /\ Len(rows') \in Nat /\ Len(rows) <= Len(rows')
  BY <1>1 DEF Committed, IsList, StoreInv, StoreTypeOK
<1>11. ASSUME NEW i \in 1 .. Len(rows), NEW col \in Columns
       PROVE  /\ rows'[i].table = rows[i].table /\ rows'[i].key = rows[i].key
              /\ \/ rows'[i].cols[col] = rows[i].cols[col]
                 \/ ok /\ OnRow(op, rows[i]) /\ Cares(op, col) /\ rows'[i].cols[col] = Meant(op, col)
  BY <1>1, <1>2 DEF Committed
<1>12. ASSUME NEW o, o.table \in MetaTables, NEW row, OnRow(op, row), OnRow(o, row)
       PROVE  SameRow(op, o)
  BY <1>3, <1>12, TablesApart DEF OnRow, SameRow
\* What c has just stored is what another client is told of.
<1>13. ASSUME ok, NEW d \in Clients \ {c}, NEW o, SameRow(op, o), NEW col, Cares(op, col)
       PROVE  OthersMeant(stored', d, o, col, Meant(op, col))
  <2>1. c \in Clients \ {d} /\ Len(stored[c]) + 1 \in 1 .. Len(stored'[c])
        /\ stored'[c][Len(stored[c]) + 1] = op
    BY <1>6, <1>9, <1>13
  <2> QED  BY <1>13, <2>1 DEF OthersMeant, SameRow, Cares, Meant
<1>14. SeenIsCurrent'
  <2>1. SUFFICES ASSUME NEW d \in Clients, seen'[d] # Nothing, seen'[d].at # 0, NEW col \in Columns
                 PROVE  \/ rows'[seen'[d].at].cols[col] = seen'[d].row.cols[col]
                        \/ OthersMeant(stored', d, Head(todo'[d]), col, rows'[seen'[d].at].cols[col])
    BY DEF SeenIsCurrent
  <2>2. d # c /\ seen'[d] = seen[d] /\ todo'[d] = todo[d]
    BY <1>8, <2>1
  <2>3. PICK i : i = seen[d].at
    OBVIOUS
  <2>4. i \in 1 .. Len(rows) /\ OnRow(Head(todo[d]), rows[i]) /\ Head(todo[d]).table \in MetaTables
    BY <1>10, <2>1, <2>2, <2>3, PlansShrink DEF StoreInv, StoreTypeOK, SeenFits
  <2>5. CASE rows'[i].cols[col] = rows[i].cols[col]
    <3>1. \/ rows[i].cols[col] = seen[d].row.cols[col]
          \/ OthersMeant(stored', d, Head(todo[d]), col, rows[i].cols[col])
      BY <1>7, <2>1, <2>2, <2>3 DEF SeenIsCurrent
    <3> QED  BY <2>2, <2>3, <2>5, <3>1
  <2>6. CASE rows'[i].cols[col] # rows[i].cols[col]
    <3>1. ok /\ OnRow(op, rows[i]) /\ Cares(op, col) /\ rows'[i].cols[col] = Meant(op, col)
      BY <1>11, <2>4, <2>6
    <3>2. SameRow(op, Head(todo[d]))
      BY <1>12, <2>4, <3>1
    <3>3. OthersMeant(stored', d, Head(todo[d]), col, Meant(op, col))
      BY <1>13, <2>2, <3>1, <3>2
    <3> QED  BY <2>2, <2>3, <3>1, <3>3
  <2> QED  BY <2>5, <2>6
<1>15. ClaimsHold'
  <2>1. SUFFICES ASSUME NEW d \in Clients, NEW k \in 1 .. Len(stored'[d]), NEW col \in Columns,
                        Claim(d, k, col)'
                 PROVE  Held(d, k, col)'
    BY DEF ClaimsHold
  <2>2. CASE k \in 1 .. Len(stored[d])
    <3>1. PICK o : o = stored[d][k] /\ o = stored'[d][k]
      BY <1>6, <2>2
    <3>2. o.table \in MetaTables
      BY <2>2, <3>1 DEF StoreInv, StoreTypeOK, Plan
    <3>3. Claim(d, k, col)
      <4>1. Cares(o, col) /\ \A j \in k + 1 .. Len(stored'[d]) : ~(SameRow(stored'[d][j], o) /\ Cares(stored'[d][j], col))
        BY <2>1, <3>1 DEF Claim, Cares, SameRow
      <4>2. ASSUME NEW j \in k + 1 .. Len(stored[d])
            PROVE  j \in 1 .. Len(stored[d]) /\ j \in k + 1 .. Len(stored'[d])
        BY <1>6, <2>2
      <4>3. \A j \in k + 1 .. Len(stored[d]) : ~(SameRow(stored[d][j], o) /\ Cares(stored[d][j], col))
        BY <1>6, <4>1, <4>2
      <4> QED  BY <3>1, <4>1, <4>3 DEF Claim
    <3>4. PICK i \in 1 .. Len(rows) :
             /\ OnRow(o, rows[i])
             /\ rows[i].cols[col] = Meant(o, col) \/ OthersMeant(stored, d, o, col, rows[i].cols[col])
      BY <2>2, <3>1, <3>3 DEF ClaimsHold, Held
    <3>5. OnRow(o, rows'[i]) /\ i \in 1 .. Len(rows')
      BY <1>10, <1>11, <3>4 DEF OnRow
    <3>6. rows'[i].cols[col] = Meant(o, col) \/ OthersMeant(stored', d, o, col, rows'[i].cols[col])
      <4>1. CASE rows'[i].cols[col] = rows[i].cols[col]
        <5>1. rows[i].cols[col] = Meant(o, col) \/ OthersMeant(stored', d, o, col, rows[i].cols[col])
          BY <1>7, <3>4
        <5> QED  BY <4>1, <5>1
      <4>2. CASE rows'[i].cols[col] # rows[i].cols[col]
        <5>1. ok /\ OnRow(op, rows[i]) /\ Cares(op, col) /\ rows'[i].cols[col] = Meant(op, col)
          BY <1>11, <4>2
        <5>2. SameRow(op, o)
          BY <1>12, <3>2, <3>4, <5>1
        <5>3. d # c
          <6>1. SUFFICES ASSUME d = c PROVE FALSE
            OBVIOUS
          <6>2. PICK j : j = Len(stored[c]) + 1 /\ j \in k + 1 .. Len(stored'[c]) /\ stored'[c][j] = op
            BY <1>6, <1>9, <2>2, <5>1, <6>1
          <6>3. ~(SameRow(op, o) /\ Cares(op, col))
            BY <2>1, <3>1, <6>1, <6>2 DEF Claim, SameRow, Cares
          <6> QED  BY <5>1, <5>2, <6>3
        <5>4. OthersMeant(stored', d, o, col, Meant(op, col))
          BY <1>13, <5>1, <5>2, <5>3
        <5> QED  BY <5>1, <5>4
      <4> QED  BY <4>1, <4>2
    <3> QED  BY <3>1, <3>5, <3>6 DEF Held, OnRow, Meant
  <2>3. CASE k \notin 1 .. Len(stored[d])
    <3>1. d = c /\ ok /\ k = Len(stored[c]) + 1 /\ stored'[d][k] = op
      BY <1>6, <1>8, <1>9, <2>1, <2>3
    <3>2. Cares(op, col)
      BY <2>1, <3>1 DEF Claim, Cares
    <3>3. PICK i \in 1 .. Len(rows') :
             /\ OnRow(op, rows'[i])
             /\ \/ rows'[i].cols[col] = Meant(op, col)
                \/ /\ seen[c].at = i /\ i \in 1 .. Len(rows) /\ Meant(op, col) = seen[c].row.cols[col]
                   /\ rows'[i].cols[col] = rows[i].cols[col]
      BY <1>1, <1>2, <3>1, <3>2 DEF Committed
    <3>4. CASE rows'[i].cols[col] = Meant(op, col)
      BY <3>1, <3>3, <3>4 DEF Held, OnRow, Meant
    <3>5. CASE rows'[i].cols[col] # Meant(op, col)
      <4>1. /\ seen[c].at = i /\ i # 0 /\ seen[c] # Nothing /\ Meant(op, col) = seen[c].row.cols[col]
            /\ rows'[i].cols[col] = rows[i].cols[col]
        BY <1>10, <3>3, <3>5, SMTT(30) DEF Commit
      <4>2. OthersMeant(stored', c, op, col, rows[i].cols[col])
        BY <1>2, <1>7, <3>5, <4>1 DEF SeenIsCurrent
      <4>3. OthersMeant(stored', c, op, col, rows'[i].cols[col])
        BY <4>1, <4>2
      <4> QED  BY <3>1, <3>3, <4>3 DEF Held, OnRow, Meant
    <3> QED  BY <3>4, <3>5
  <2> QED  BY <2>2, <2>3
<1> QED  BY <1>14, <1>15

\* Of empty tables it all holds.
LEMMA StoreInitInv == StoreInit => StoreInv /\ SeenIsCurrent /\ ClaimsHold
<1> SUFFICES ASSUME StoreInit PROVE StoreInv /\ SeenIsCurrent /\ ClaimsHold
  OBVIOUS
<1>1. rows = <<>> /\ IsList(rows) /\ Len(rows) = 0
  BY DEF StoreInit, IsList
<1>2. StoreTypeOK
  BY <1>1, EmptyPlan DEF StoreInit, StoreTypeOK
<1>3. SeenFits /\ SeenIsCurrent
  BY DEF StoreInit, SeenFits, SeenIsCurrent
<1>4. OneRowPerKey
  BY <1>1 DEF OneRowPerKey
<1>5. ClaimsHold
  BY DEF StoreInit, ClaimsHold
<1> QED  BY <1>2, <1>3, <1>4, <1>5 DEF StoreInv

\* The invariant holds at the start.
LEMMA ProgramsInitInv == MetaInit => ProgramsInv
BY StoreInitInv DEF MetaInit, StoreInit, ProgramsInv, OncePerClient

\* Every step of the programs, deaths and outages keeps it.
LEMMA ProgramsStepInv == ProgramsInv /\ [ProgramsNext]_metaVars => ProgramsInv'
<1> SUFFICES ASSUME ProgramsInv, [ProgramsNext]_metaVars PROVE ProgramsInv'
  OBVIOUS
<1>0. StoreInv /\ SeenIsCurrent /\ ClaimsHold /\ OncePerClient
  BY DEF ProgramsInv
<1>1. CASE Flips
  <2>1. UNCHANGED <<rows, todo, seen, stored>> /\ UNCHANGED program
    BY <1>1 DEF Flips, DatabaseFlips
  <2> QED  BY <1>0, <2>1, StillKeeps DEF ProgramsInv, OncePerClient
<1>2. CASE UNCHANGED metaVars
  <2>1. UNCHANGED <<rows, todo, seen, stored>> /\ UNCHANGED program
    BY <1>2 DEF metaVars, storeVars
  <2> QED  BY <1>0, <2>1, StillKeeps DEF ProgramsInv, OncePerClient
<1>3. ASSUME NEW c \in Clients, RunsProgram(c) PROVE ProgramsInv'
  <2>1. PICK p \in Programs(c) : Launch(c, p)
    BY <1>3 DEF RunsProgram
  <2>2. Quiet(c, p, <<>>, Nothing)
    BY <1>0, <2>1, ProgramsArePlans, LaunchIsQuiet
  <2>3. stored[c] = <<>>
    BY <1>0, <1>3 DEF OncePerClient, RunsProgram
  <2>4. StoreInv' /\ SeenIsCurrent' /\ ClaimsHold'
    BY <1>0, <2>2, <2>3, QuietKeepsStore, QuietKeepsMeaning
  <2>5. OncePerClient'
    BY <1>0, <1>3, <2>2 DEF OncePerClient, RunsProgram, Quiet, Becomes, StoreInv, StoreTypeOK
  <2> QED  BY <2>4, <2>5 DEF ProgramsInv
<1>4. ASSUME NEW c \in Clients, Writes(c) PROVE ProgramsInv'
  <2>1. UNCHANGED program /\ todo[c] # <<>>
    BY <1>0, <1>4 DEF Writes, Look, Commit, StoreInv, SeenFits
  <2>2. CASE Look(c)
    <3>1. PICK p, s : /\ Quiet(c, p, stored[c], s)
                      /\ s # Nothing => p = todo[c] /\ (s.at # 0 => s.row = rows[s.at])
      BY <1>0, <2>2, LookIsQuiet
    <3>2. StoreInv' /\ SeenIsCurrent' /\ ClaimsHold'
      BY <1>0, <3>1, QuietKeepsStore, QuietKeepsMeaning DEF StoreInv, StoreTypeOK
    <3>3. OncePerClient'
      BY <1>0, <2>1, <3>1 DEF OncePerClient, Quiet, Becomes, StoreInv, StoreTypeOK
    <3> QED  BY <3>2, <3>3 DEF ProgramsInv
  <2>3. CASE Commit(c)
    <3>1. StoreInv' /\ SeenIsCurrent' /\ ClaimsHold'
      BY <1>0, <2>3, CommitKeepsStore, CommitKeepsMeaning
    <3>2. PICK ok \in BOOLEAN : Committed(c, Head(todo[c]), ok)
      BY <1>0, <2>3, CommitStep
    <3>3. \A d \in Clients \ {c} : todo'[d] = todo[d] /\ stored'[d] = stored[d]
      BY <1>0, <3>2 DEF Committed, StoreInv, StoreTypeOK
    <3>4. OncePerClient'
      BY <1>0, <2>1, <3>3 DEF OncePerClient
    <3> QED  BY <3>1, <3>4 DEF ProgramsInv
  <2> QED  BY <1>4, <2>2, <2>3 DEF Writes
<1>5. ASSUME NEW c \in Clients, Dies(c) PROVE ProgramsInv'
  <2>1. Quiet(c, <<>>, stored[c], Nothing)
    BY <1>0, <1>5, AbandonIsQuiet DEF Dies
  <2>2. StoreInv' /\ SeenIsCurrent' /\ ClaimsHold'
    BY <1>0, <2>1, QuietKeepsStore, QuietKeepsMeaning DEF StoreInv, StoreTypeOK
  <2>3. program[c] = "writes" /\ program' = [program EXCEPT ![c] = IF program[c] = "writes" THEN program[c] ELSE "none"]
    BY <1>0, <1>5 DEF OncePerClient, Dies, Abandon, Busy
  <2>4. OncePerClient'
    BY <1>0, <2>1, <2>3 DEF OncePerClient, Quiet, Becomes, StoreInv, StoreTypeOK
  <2> QED  BY <2>2, <2>4 DEF ProgramsInv
<1> QED  BY <1>1, <1>2, <1>3, <1>4, <1>5 DEF ProgramsNext

\* The invariant of the programs.
THEOREM ProgramsInvariant == ProgramsSpec => []ProgramsInv
<1>1. ProgramsInv /\ [ProgramsNext]_metaVars => ProgramsInv'
  BY ProgramsStepInv
<1> QED  BY <1>1, ProgramsInitInv, PTL DEF ProgramsSpec

\* What the claims say is what StoredMeansThere says.
LEMMA ClaimsAreThere == ASSUME StoreInv, ClaimsHold PROVE StoredMeansThere
<1>1. ASSUME NEW c \in Clients, NEW k \in DOMAIN stored[c], NEW col \in Columns, Cares(stored[c][k], col),
             \A o \in {stored[c][j] : j \in k + 1 .. Len(stored[c])} :
               ~(SameRow(o, stored[c][k]) /\ Cares(o, col))
      PROVE  \E i \in RowsOf(stored[c][k].table, stored[c][k].key) :
               \/ rows[i].cols[col] = Meant(stored[c][k], col)
               \/ \E o \in UNION {ToSet(stored[d]) : d \in Clients \ {c}} :
                    SameRow(o, stored[c][k]) /\ Cares(o, col) /\ rows[i].cols[col] = Meant(o, col)
  <2>1. k \in 1 .. Len(stored[c]) /\ \A d \in Clients : DOMAIN stored[d] = 1 .. Len(stored[d])
    BY <1>1 DEF StoreInv, StoreTypeOK, Plan, IsList
  <2>2. Claim(c, k, col)
    BY <1>1 DEF Claim
  <2>3. PICK i \in 1 .. Len(rows) :
           /\ OnRow(stored[c][k], rows[i])
           /\ \/ rows[i].cols[col] = Meant(stored[c][k], col)
              \/ OthersMeant(stored, c, stored[c][k], col, rows[i].cols[col])
    BY <2>1, <2>2 DEF ClaimsHold, Held
  <2>4. i \in RowsOf(stored[c][k].table, stored[c][k].key)
    BY <2>3 DEF RowsOf, OnRow, StoreInv, StoreTypeOK, IsList
  <2>5. CASE OthersMeant(stored, c, stored[c][k], col, rows[i].cols[col])
    <3>1. PICK d \in Clients \ {c} : \E j \in 1 .. Len(stored[d]) :
             /\ SameRow(stored[d][j], stored[c][k]) /\ Cares(stored[d][j], col)
             /\ rows[i].cols[col] = Meant(stored[d][j], col)
      BY <2>5 DEF OthersMeant
    <3>2. PICK j \in 1 .. Len(stored[d]) :
             /\ SameRow(stored[d][j], stored[c][k]) /\ Cares(stored[d][j], col)
             /\ rows[i].cols[col] = Meant(stored[d][j], col)
      BY <3>1
    <3>3. stored[d][j] \in UNION {ToSet(stored[e]) : e \in Clients \ {c}}
      BY <2>1, <3>2 DEF ToSet
    <3> QED  BY <2>4, <3>2, <3>3
  <2> QED  BY <2>3, <2>4, <2>5
<1> QED  BY <1>1 DEF StoredMeansThere

\* What a program has stored is in the tables, once, whatever other programs write to the same rows.
THEOREM ProgramsAreStored == ProgramsSpec => []TablesHold
<1>1. ProgramsInv => TablesHold
  BY ClaimsAreThere DEF ProgramsInv, StoreInv, TablesHold
<1> QED  BY <1>1, ProgramsInvariant, PTL

\* Before the workflow has started no client writes of it.
NothingYet ==
  /\ wf = [phase |-> wf.phase, nodes |-> [x \in Nodes |-> wf.nodes[x]]]
  /\ wf.phase = Absent => /\ \A x \in Nodes : wf.nodes[x] = Absent
                          /\ \A c \in Clients : todo[c] = <<>> /\ stored[c] = <<>>

WorkflowInv == StoreInv /\ NothingYet

\* The nodes that are there are a list.
LEMMA AmongIsList ==
  ASSUME NEW w, NEW m \in Nat, NEW names, names = [k \in 1 .. m |-> names[k]]
  PROVE  IsList(Among(w, names))
<1>1. PICK s : s = [k \in 1 .. m |-> IF w.nodes[names[k]] # Absent THEN <<names[k]>> ELSE <<>>]
  OBVIOUS
<1>2. \A k \in 1 .. m : IsList(s[k])
  BY <1>1 DEF IsList
<1>3. IsList(FlattenSeq(s))
  BY <1>1, <1>2, FlatIsList
<1>4. DOMAIN names = 1 .. m
  OBVIOUS
<1>5. Among(w, names) = FlattenSeq(s)
  BY <1>1, <1>4 DEF Among
<1> QED  BY <1>3, <1>5

\* A sync and an index write to known tables.
LEMMA SyncIsPlan == ASSUME NEW w PROVE Plan(SyncWrites(w)) /\ Plan(IndexWrites(w))
<1>1. IsList(Shown(w)) /\ IsList(Among(w, <<"work", "argo-sync", "archive-logs-index">>))
  <2>1. PICK four : four = <<"main", "work", "argo-sync", "archive-logs-index">>
    OBVIOUS
  <2>2. PICK three : three = <<"work", "argo-sync", "archive-logs-index">>
    OBVIOUS
  <2>3. four = [k \in 1 .. 4 |-> four[k]] /\ three = [k \in 1 .. 3 |-> three[k]]
    BY <2>1, <2>2
  <2>4. IsList(Among(w, four)) /\ IsList(Among(w, three))
    BY <2>3, AmongIsList
  <2> QED  BY <2>1, <2>2, <2>4 DEF Shown
<1>2. ASSUME NEW s, IsList(s), NEW f, f = [k \in DOMAIN s |-> f[k]], \A k \in DOMAIN s : f[k].table \in MetaTables
      PROVE  Plan(f) /\ \A op : op.table \in MetaTables => Plan(<<op>> \o f)
  <2>1. DOMAIN s = 1 .. Len(s) /\ Len(s) \in Nat
    BY <1>2 DEF IsList
  <2>2. ASSUME NEW op, op.table \in MetaTables PROVE Plan(<<op>> \o f) /\ Plan(f)
    <3>1. PICK U : U = {f[k] : k \in 1 .. Len(s)} \cup {op}
      OBVIOUS
    <3>2. f \in Seq(U) /\ <<op>> \in Seq(U) /\ \A o \in U : o.table \in MetaTables
      BY <1>2, <2>1, <2>2, <3>1
    <3>3. \A g \in Seq(U) : Plan(g)
      BY <3>2, SeqIsList DEF Plan
    <3>4. <<op>> \o f \in Seq(U)
      BY <3>2
    <3> QED  BY <3>2, <3>3, <3>4
  <2>3. RecordEtlJobStart(0).table \in MetaTables
    BY WritesAreKnown
  <2> QED  BY <2>2, <2>3
<1>3. Plan(IndexWrites(w))
  BY <1>1, <1>2, WritesAreKnown DEF IndexWrites
<1>4. Plan(SyncWrites(w))
  BY <1>1, <1>2, WritesAreKnown DEF SyncWrites, StepWrite
<1> QED  BY <1>3, <1>4

\* The invariant holds before the workflow has started.
LEMMA WorkflowInitInv == MetaInit => WorkflowInv
BY StoreInitInv DEF MetaInit, StoreInit, WorkflowInv, NothingYet

\* The workflow after its record has a new phase and two of its nodes theirs.
LEMMA NewPhase ==
  ASSUME NothingYet, NEW t, NEW step, NEW end,
         wf' = [wf EXCEPT !.nodes[t] = step, !.nodes["main"] = end, !.phase = end]
  PROVE  wf'.phase = end /\ wf' = [phase |-> wf'.phase, nodes |-> [x \in Nodes |-> wf'.nodes[x]]]
<1>1. PICK ph, f : wf = [phase |-> ph, nodes |-> f] /\ f = [x \in Nodes |-> f[x]]
  BY DEF NothingYet
<1>2. PICK g : g = [f EXCEPT ![t] = step]
  OBVIOUS
<1>3. PICK h : h = [g EXCEPT !["main"] = end]
  OBVIOUS
<1>4. PICK w : w = [phase |-> end, nodes |-> h]
  OBVIOUS
<1>5. w.phase = end /\ w.nodes = h /\ h = [x \in Nodes |-> h[x]]
  BY <1>1, <1>2, <1>3, <1>4
<1>6. wf' = [phase |-> end, nodes |-> h]
  BY <1>1, <1>2, <1>3
<1>7. w = [phase |-> w.phase, nodes |-> [x \in Nodes |-> w.nodes[x]]]
  BY <1>4, <1>5
<1>8. wf' = w
  BY <1>4, <1>6, Zenon
<1> QED  BY <1>5, <1>7, <1>8, Zenon

\* Every step of Argo, of its tasks and of the operators keeps it.
LEMMA WorkflowStepInv == WorkflowInv /\ [WorkflowNext]_metaVars => WorkflowInv'
<1> SUFFICES ASSUME WorkflowInv, [WorkflowNext]_metaVars PROVE WorkflowInv'
  OBVIOUS
<1>0. StoreInv /\ NothingYet
  BY DEF WorkflowInv
<1>1. ASSUME UNCHANGED <<rows, todo, seen, stored, wf>> PROVE WorkflowInv'
  BY <1>0, <1>1, StillKeeps DEF WorkflowInv, NothingYet
\* A step of Argo: the workflow has started.
<1>2. ASSUME UNCHANGED <<rows, todo, seen, stored>>, NEW t \in Nodes, NEW step, NEW end, end # Absent,
             wf' = [wf EXCEPT !.nodes[t] = step, !.nodes["main"] = end, !.phase = end]
      PROVE  WorkflowInv'
  <2>1. wf'.phase = end /\ wf' = [phase |-> wf'.phase, nodes |-> [x \in Nodes |-> wf'.nodes[x]]]
    BY <1>0, <1>2, NewPhase
  <2> QED  BY <1>0, <1>2, <2>1, StillKeeps DEF WorkflowInv, NothingYet
<1>3. ASSUME NEW c \in Clients, NEW p, NEW q, NEW s, Quiet(c, p, q, s), wf.phase # Absent, wf' = wf
      PROVE  WorkflowInv'
  BY <1>0, <1>3, QuietKeepsStore DEF WorkflowInv, NothingYet
<1>4. ASSUME NEW c \in Clients, NEW name, Fetch(c, name), wf.phase # Absent PROVE WorkflowInv'
  <2>1. PICK p : Plan(p) /\ Launch(c, p)
    BY <1>4, SyncIsPlan DEF Fetch
  <2>2. Quiet(c, p, <<>>, Nothing)
    BY <1>0, <2>1, LaunchIsQuiet
  <2> QED  BY <1>3, <1>4, <2>2 DEF Fetch
<1>5. ASSUME NEW t \in Tasks, TaskStarts(t) PROVE WorkflowInv'
  <2>1. t \in Nodes /\ "Running" # Absent
    BY DEF Nodes, Absent
  <2> QED  BY <1>2, <1>5, <2>1 DEF TaskStarts, storeVars
<1>6. ASSUME NEW t \in Tasks, PodFetches(t) PROVE WorkflowInv'
  <2>1. wf.phase # Absent
    BY <1>0, <1>6 DEF NothingYet, PodFetches, Nodes, Absent
  <2> QED  BY <1>4, <1>6, <2>1, WorkflowAssumption DEF PodFetches
<1>7. CASE WorkEnds
  <2>1. PICK phase : Ends("work", phase)
    BY <1>7 DEF WorkEnds
  <2>2. PICK end \in {"Failed", "Succeeded", "Running"} :
           wf' = [wf EXCEPT !.nodes["work"] = phase, !.nodes["main"] = end, !.phase = end]
    BY <2>1 DEF Ends
  <2>3. "work" \in Nodes /\ end # Absent /\ UNCHANGED <<rows, todo, seen, stored>>
    BY <1>7 DEF Nodes, Tasks, Absent, WorkEnds, storeVars
  <2> QED  BY <1>2, <2>2, <2>3
<1>8. CASE WorkflowRetry
  <2>1. PICK f : f = [x \in Nodes |-> IF x = "main" THEN "Running"
                                     ELSE IF wf.nodes[x] = "Failed" THEN Absent ELSE wf.nodes[x]]
    OBVIOUS
  <2>2. UNCHANGED <<rows, todo, seen, stored>> /\ wf' = [phase |-> "Running", nodes |-> f] /\ wf'.phase # Absent
    BY <1>8, <2>1 DEF WorkflowRetry, storeVars, Absent
  <2> QED  BY <1>0, <2>1, <2>2, StillKeeps DEF WorkflowInv, NothingYet
<1>9. ASSUME NEW c \in Clients, NEW name, OperatorFetches(c, name) PROVE WorkflowInv'
  BY <1>4, <1>9 DEF OperatorFetches
<1>10. ASSUME NEW c \in Clients, Writes(c) PROVE WorkflowInv'
  <2>1. wf' = wf /\ todo[c] # <<>>
    BY <1>0, <1>10 DEF Writes, wfVars, Look, Commit, StoreInv, SeenFits
  <2>2. wf.phase # Absent
    BY <1>0, <2>1 DEF NothingYet
  <2>3. CASE Look(c)
    BY <1>0, <1>3, <2>1, <2>2, <2>3, LookIsQuiet
  <2>4. CASE Commit(c)
    BY <1>0, <2>1, <2>2, <2>4, CommitKeepsStore DEF WorkflowInv, NothingYet
  <2> QED  BY <1>10, <2>3, <2>4 DEF Writes
\* What ends with a pod ends its task.
<1>11. ASSUME NEW c \in Clients, NEW p, NEW q, NEW s, Quiet(c, p, q, s), p = <<>>, NEW t \in Nodes, NEW phase,
              wf' = wf \/ Ends(t, phase), wf' = wf /\ wf.phase = Absent => q = <<>>
       PROVE  WorkflowInv'
  <2>1. StoreInv'
    BY <1>0, <1>11, QuietKeepsStore
  <2>2. CASE wf' = wf
    BY <1>0, <1>11, <2>1, <2>2 DEF WorkflowInv, NothingYet, Quiet, Becomes, StoreInv, StoreTypeOK
  <2>3. CASE Ends(t, phase)
    <3>1. PICK end \in {"Failed", "Succeeded", "Running"} :
             wf' = [wf EXCEPT !.nodes[t] = phase, !.nodes["main"] = end, !.phase = end]
      BY <2>3 DEF Ends
    <3>2. wf'.phase = end /\ wf' = [phase |-> wf'.phase, nodes |-> [x \in Nodes |-> wf'.nodes[x]]]
      BY <1>0, <3>1, NewPhase
    <3>3. wf'.phase # Absent
      BY <3>2 DEF Absent
    <3> QED  BY <2>1, <3>2, <3>3 DEF WorkflowInv, NothingYet
  <2> QED  BY <1>11, <2>2, <2>3
<1>12. "argo-sync" \in Nodes /\ "archive-logs-index" \in Nodes
  BY DEF Nodes, Tasks
<1>13. ASSUME NEW c \in Clients, Reports(c) PROVE WorkflowInv'
  <2>1. todo[c] = <<>> /\ seen[c] = Nothing
    BY <1>0, <1>13 DEF Reports, Busy, StoreInv, SeenFits
  <2>2. Becomes(c, <<>>, <<>>, Nothing)
    BY <1>0, <1>13, <2>1 DEF Reports, Becomes, StoreInv, StoreTypeOK
  <2>3. Quiet(c, <<>>, <<>>, Nothing)
    BY <2>2, EmptyPlan DEF Quiet
  <2>4. PICK t \in Nodes : wf' = wf \/ Ends(t, "Succeeded")
    BY <1>12, <1>13 DEF Reports
  <2> QED  BY <1>11, <2>3, <2>4
<1>14. ASSUME NEW c \in Clients, Dies(c) PROVE WorkflowInv'
  <2>1. Quiet(c, <<>>, stored[c], Nothing)
    BY <1>0, <1>14, AbandonIsQuiet DEF Dies
  <2>2. PICK t \in Nodes : wf' = wf \/ Ends(t, "Failed")
    BY <1>12, <1>14 DEF Dies
  <2>3. wf.phase = Absent => stored[c] = <<>>
    BY <1>0 DEF NothingYet
  <2> QED  BY <1>11, <2>1, <2>2, <2>3
<1>15. CASE Flips
  BY <1>1, <1>15 DEF Flips, DatabaseFlips, wfVars
<1>16. CASE UNCHANGED metaVars
  BY <1>1, <1>16 DEF metaVars, storeVars, wfVars
<1> QED
  BY <1>5, <1>6, <1>7, <1>8, <1>9, <1>10, <1>13, <1>14, <1>15, <1>16 DEF WorkflowNext

\* The invariant of a workflow and the operators that sync it.
THEOREM WorkflowInvariant == WorkflowSpec => []WorkflowInv
<1>1. WorkflowInv /\ [WorkflowNext]_metaVars => WorkflowInv'
  BY WorkflowStepInv
<1> QED  BY <1>1, WorkflowInitInv, PTL DEF WorkflowSpec

\* The tables of a workflow have a row per key, whatever the tasks and operators that sync it at the
\* same time, and retries, outages and deaths in between.
THEOREM WorkflowIsStored == WorkflowSpec => []TablesHold
<1>1. WorkflowInv => TablesHold
  BY DEF WorkflowInv, NothingYet, StoreInv, TablesHold, StoredMeansThere
<1> QED  BY <1>1, WorkflowInvariant, PTL

-----------------------------------------------------------------------------
(* `argo sync`: SyncIsTrue for any clients, retries, outages and deaths.   *)
(*                                                                         *)
(* A client knows what it has fetched only while no other writes           *)
(* (FetchedAlone).  So what its sync has behind it stands (SyncedSoFar), and *)
(* when it reports, all that it wrote; it stands until the next program    *)
(* starts (AgreedStands).                                                  *)

\* The row of a key, in a table with a unique constraint, is what a listing shows for the key.
LEMMA HitIsShown ==
  ASSUME StoreInv, NEW table \in MetaTables, table.name \notin Unlimited, NEW key, NEW phase,
         NEW i \in 1 .. Len(rows), rows[i].table = table.name, rows[i].key = key,
         rows[i].cols["status"] = phase
  PROVE  StatusIn(table, key, phase)
<1>1. PICK m : m = Len(rows)
  OBVIOUS
<1>2. m \in Nat /\ rows = [k \in 1 .. m |-> rows[k]] /\ DOMAIN rows = 1 .. m /\ i \in 1 .. m
  BY <1>1 DEF StoreInv, StoreTypeOK, IsList
<1>3. PICK back : back = [k \in 1 .. m |-> rows[(m - k) + 1]]
  OBVIOUS
<1>4. back = Reverse(rows) /\ DOMAIN back = 1 .. m
  BY <1>1, <1>3 DEF Reverse
<1>5. PICK at : at = (m - i) + 1
  OBVIOUS
<1>6. at \in 1 .. m /\ back[at] = rows[i] /\ \A k \in 1 .. m : (m - k) + 1 = i <=> k = at
  BY <1>2, <1>3, <1>5
<1>7. \A k \in 1 .. m : rows[k].table = table.name /\ rows[k].key = key <=> k = i
  BY <1>2 DEF StoreInv, OneRowPerKey, Unlimited
<1>8. \A k \in 1 .. m : back[k].table = table.name /\ back[k].key = key <=> k = at
  BY <1>2, <1>3, <1>6, <1>7, SMTT(30)
<1>9. PICK s : s = [k \in DOMAIN back |-> IF back[k].table = table.name /\ back[k].key \in {key}
                                            THEN <<back[k]>> ELSE <<>>]
  OBVIOUS
<1>10. s = [k \in 1 .. m |-> s[k]] /\ \A k \in 1 .. m : s[k] = IF k = at THEN <<rows[i]>> ELSE <<>>
  <2>1. \A k \in 1 .. m : back[k].table = table.name /\ back[k].key \in {key} <=> k = at
    BY <1>8
  <2> QED BY <2>1, <1>4, <1>6, <1>9
<1>11. FlattenSeq(s) = <<rows[i]>>
  BY <1>2, <1>6, <1>10, OneHit
<1>12. Listing(table, 100, {key})
         = SubSeq(FlattenSeq(s), 1, IF Len(FlattenSeq(s)) < 100 THEN Len(FlattenSeq(s)) ELSE 100)
  BY <1>4, <1>9 DEF Listing
<1>13. Listing(table, 100, {key}) = SubSeq(<<rows[i]>>, 1, 1)
  BY <1>11, <1>12
<1>14. rows[i] \in ToSet(SubSeq(<<rows[i]>>, 1, 1))
  BY DEF ToSet
<1> QED  BY <1>13, <1>14 DEF StatusIn

Phases == {"Running", "Succeeded", "Failed"}
IsWf(w) ==
  /\ w = [phase |-> w.phase, nodes |-> [x \in Nodes |-> w.nodes[x]]]
  /\ w.phase \in Phases \cup {Absent} /\ \A x \in Nodes : w.nodes[x] \in Phases \cup {Absent}

\* What a sync of workflow w writes: the run, and the nodes that are there.
RunWrite(w) == UpsertWorkflowRun("robot-dh", "wf", w.phase, Over(w.phase))
OfSync(w, op) == op = RunWrite(w) \/ \E x \in Nodes : w.nodes[x] # Absent /\ op = StepWrite(w, x)

\* The nodes that kubectl shows are those that are there.
LEMMA ShownNodes ==
  ASSUME NEW w
  PROVE  /\ IsList(Shown(w))
         /\ \A k \in 1 .. Len(Shown(w)) : Shown(w)[k] \in Nodes /\ w.nodes[Shown(w)[k]] # Absent
         /\ \A x \in Nodes : w.nodes[x] # Absent => \E k \in 1 .. Len(Shown(w)) : Shown(w)[k] = x
<1>1. PICK U : U = {x \in Nodes : w.nodes[x] # Absent}
  OBVIOUS
<1>2. PICK names : names = <<"main", "work", "argo-sync", "archive-logs-index">>
  OBVIOUS
<1>3. /\ DOMAIN names = 1 .. 4 /\ \A k \in 1 .. 4 : names[k] \in Nodes
      /\ \A x \in Nodes : \E k \in 1 .. 4 : names[k] = x
  <2>1. names[1] = "main" /\ names[2] = "work" /\ names[3] = "argo-sync" /\ names[4] = "archive-logs-index"
    BY <1>2
  <2>2. DOMAIN names = 1 .. 4
    BY <1>2
  <2>3. Nodes = {"main", "work", "argo-sync", "archive-logs-index"}
    BY DEF Nodes, Tasks
  <2>4. \A k \in 1 .. 4 : k = 1 \/ k = 2 \/ k = 3 \/ k = 4
    OBVIOUS
  <2>5. \A k \in 1 .. 4 : names[k] \in Nodes
    BY <2>1, <2>3, <2>4
  <2>6. 1 \in 1 .. 4 /\ 2 \in 1 .. 4 /\ 3 \in 1 .. 4 /\ 4 \in 1 .. 4
    OBVIOUS
  <2> QED  BY <2>1, <2>2, <2>3, <2>5, <2>6
<1>4. PICK s : s = [k \in 1 .. 4 |-> IF w.nodes[names[k]] # Absent THEN <<names[k]>> ELSE <<>>]
  OBVIOUS
<1>5. \A k \in 1 .. 4 : s[k] \in Seq(U)
  <2>1. SUFFICES ASSUME NEW k \in 1 .. 4 PROVE s[k] \in Seq(U)
    OBVIOUS
  <2>2. CASE w.nodes[names[k]] # Absent
    <3>1. s[k] = <<names[k]>> /\ names[k] \in U
      BY <1>1, <1>3, <1>4, <2>2
    <3> QED  BY <3>1
  <2>3. CASE w.nodes[names[k]] = Absent
    <3>1. s[k] = <<>>
      BY <1>4, <2>3
    <3> QED  BY <3>1
  <2> QED  BY <2>2, <2>3
<1>6. s \in Seq(Seq(U)) /\ Len(s) = 4
  BY <1>4, <1>5
<1>7. Shown(w) = FlattenSeq(s)
  BY <1>2, <1>3, <1>4 DEF Shown, Among
<1>8. Shown(w) \in Seq(U)
  BY <1>6, <1>7, FlattenIsList
<1>9. ASSUME NEW x \in Nodes, w.nodes[x] # Absent PROVE \E k \in 1 .. Len(Shown(w)) : Shown(w)[k] = x
  <2>1. PICK k \in 1 .. 4 : names[k] = x
    BY <1>3
  <2>2. s[k] = <<x>> /\ 1 \in 1 .. Len(s[k]) /\ s[k][1] = x
    BY <1>4, <1>9, <2>1
  <2>3. \E i \in 1 .. Len(FlattenSeq(s)) : FlattenSeq(s)[i] = s[k][1]
    <3>1. k \in 1 .. Len(s) /\ 1 \in 1 .. Len(s[k])
      BY <1>6, <2>2
    <3>2. s \in Seq(Seq(U))
      BY <1>6
    <3>3. \A i \in 1 .. Len(s) : \A j \in 1 .. Len(s[i]) :
            \E h \in 1 .. Len(FlattenSeq(s)) : FlattenSeq(s)[h] = s[i][j]
      BY <3>2, FlatHas
    <3> QED  BY <3>1, <3>3
  <2> QED  BY <1>7, <2>2, <2>3
<1>10. \A k \in 1 .. Len(Shown(w)) : Shown(w)[k] \in U
  BY <1>8
<1>11. IsList(Shown(w))
  BY <1>8, SeqIsList
<1> QED  BY <1>1, <1>9, <1>10, <1>11

\* A sync writes all that OfSync names and nothing else.
LEMMA SyncShape ==
  ASSUME NEW w
  PROVE  /\ IsList(SyncWrites(w)) /\ \A j \in 1 .. Len(SyncWrites(w)) : OfSync(w, SyncWrites(w)[j])
         /\ \A op : OfSync(w, op) => \E j \in 1 .. Len(SyncWrites(w)) : SyncWrites(w)[j] = op
<1>1. PICK names : names = Shown(w)
  OBVIOUS
<1>2. PICK m : m = Len(names)
  OBVIOUS
<1>3. /\ m \in Nat /\ DOMAIN names = 1 .. m
      /\ \A k \in 1 .. m : names[k] \in Nodes /\ w.nodes[names[k]] # Absent
      /\ \A x \in Nodes : w.nodes[x] # Absent => \E k \in 1 .. m : names[k] = x
  BY <1>1, <1>2, ShownNodes DEF IsList
<1>4. PICK f : f = [k \in DOMAIN names |-> StepWrite(w, names[k])]
  OBVIOUS
<1>5. PICK W : W = <<RunWrite(w)>> \o f
  OBVIOUS
<1>6. W = SyncWrites(w)
  BY <1>1, <1>4, <1>5 DEF SyncWrites, RunWrite
<1>7. PICK U : U = {f[k] : k \in 1 .. m} \cup {RunWrite(w)}
  OBVIOUS
<1>8. f \in Seq(U) /\ <<RunWrite(w)>> \in Seq(U) /\ Len(f) = m
  BY <1>3, <1>4, <1>7
<1>9. W \in Seq(U) /\ Len(W) = m + 1 /\ W[1] = RunWrite(w) /\ \A k \in 1 .. m : W[k + 1] = f[k]
  BY <1>3, <1>5, <1>8
<1>10. IsList(W)
  BY <1>9, SeqIsList
<1>11. \A op \in U : OfSync(w, op)
  BY <1>3, <1>4, <1>7 DEF OfSync
<1>12. \A j \in 1 .. Len(W) : W[j] \in U
  BY <1>9
<1>13. ASSUME NEW op, OfSync(w, op) PROVE \E j \in 1 .. Len(W) : W[j] = op
  <2>1. CASE op = RunWrite(w)
    <3>1. 1 \in 1 .. Len(W)
      BY <1>3, <1>9
    <3> QED  BY <1>9, <2>1, <3>1
  <2>2. CASE \E x \in Nodes : w.nodes[x] # Absent /\ op = StepWrite(w, x)
    <3>1. PICK k \in 1 .. m : op = StepWrite(w, names[k])
      BY <1>3, <2>2
    <3>2. W[k + 1] = op /\ k + 1 \in 1 .. Len(W)
      BY <1>3, <1>4, <1>9, <3>1
    <3> QED  BY <3>2
  <2> QED  BY <1>13, <2>1, <2>2 DEF OfSync
<1> QED  BY <1>6, <1>10, <1>11, <1>12, <1>13

\* They say of the run and of each node what the workflow says, and only one of them says it.
LEMMA SyncOps ==
  ASSUME NEW w, IsWf(w), w.phase # Absent, NEW op, OfSync(w, op)
  PROVE  /\ Cares(op, "status") /\ Meant(op, "status") = op.give["status"]
         /\ \A o : OfSync(w, o) /\ SameRow(o, op) => o = op
<1>1. ASSUME NEW x \in Nodes, w.nodes[x] # Absent
      PROVE  /\ Cares(StepWrite(w, x), "status")
             /\ Meant(StepWrite(w, x), "status") = StepWrite(w, x).give["status"]
  BY <1>1 DEF IsWf, Phases, Absent, Null, StepWrite, UpsertWorkflowStep, Write, Cares, Meant
<1>2. Cares(RunWrite(w), "status") /\ Meant(RunWrite(w), "status") = RunWrite(w).give["status"]
  BY DEF IsWf, Phases, Absent, Null, RunWrite, UpsertWorkflowRun, Write, Cares, Meant
<1>3. /\ RunWrite(w).table = WorkflowRuns
      /\ \A x : StepWrite(w, x).table = WorkflowSteps /\ StepWrite(w, x).key = <<"robot-dh", "wf", x>>
  BY DEF RunWrite, UpsertWorkflowRun, StepWrite, UpsertWorkflowStep, Write
<1>4. WorkflowRuns # WorkflowSteps
  BY DEF WorkflowRuns, WorkflowSteps
<1>5. \A o : OfSync(w, o) /\ SameRow(o, op) => o = op
  BY <1>3, <1>4 DEF OfSync, SameRow
<1> QED  BY <1>1, <1>2, <1>5 DEF OfSync

\* A write whose row says what it said.
Stands(table, op) ==
  \E i \in 1 .. Len(table) : OnRow(op, table[i]) /\ table[i].cols["status"] = op.give["status"]

WfTypeOK ==
  /\ IsWf(wf) /\ missed = [c \in Clients |-> missed[c]] /\ \A c \in Clients : missed[c] \in Nat
  /\ program = [c \in Clients |-> program[c]] /\ fetched = [c \in Clients |-> fetched[c]]
  /\ \A c \in Clients : fetched[c] # Unknown => IsWf(fetched[c]) /\ fetched[c].phase # Absent
  /\ agreed # Unknown => IsWf(agreed) /\ agreed.phase # Absent

IdleIsIdle == \A c \in Clients : program[c] = "none" => todo[c] = <<>>

\* What was agreed stands, and nobody is about to write.
AgreedStands ==
  agreed # Unknown =>
    /\ \A op : OfSync(agreed, op) => Stands(rows, op)
    /\ \A c \in Clients : program[c] = "none"

\* A client that knows what it has fetched is the only one that writes, and its SELECT found
\* what is still there.
FetchedAlone ==
  \A c \in Clients : fetched[c] # Unknown =>
    /\ program[c] # "none" /\ \A d \in Clients \ {c} : program[d] = "none"
    /\ seen[c] # Nothing /\ seen[c].at # 0 => seen[c].row = rows[seen[c].at]

\* Unless one of them has failed, the writes that a sync has behind it stand.
Synced(c, k) ==
  LET W == SyncWrites(fetched[c])
  IN  /\ Len(todo[c]) + k = Len(W) /\ \A j \in 1 .. Len(todo[c]) : todo[c][j] = W[k + j]
      /\ missed[c] = 0 => \A j \in 1 .. k : Stands(rows, W[j])
SyncedSoFar ==
  \A c \in Clients : fetched[c] # Unknown /\ program[c] = "sync" => \E k \in Nat : Synced(c, k)

SyncInv == WorkflowInv /\ WfTypeOK /\ IdleIsIdle /\ AgreedStands /\ FetchedAlone /\ SyncedSoFar

\* While a client writes, nothing is agreed, and no other knows what it has fetched.
LEMMA OnlyWriter ==
  ASSUME IdleIsIdle, AgreedStands, FetchedAlone, NEW c \in Clients, todo[c] # <<>>
  PROVE  /\ agreed = Unknown /\ program[c] # "none"
         /\ \A d \in Clients : fetched[d] # Unknown => d = c
BY DEF IdleIsIdle, AgreedStands, FetchedAlone

\* Argo's steps, and the database going away.
LEMMA ArgoKeepsSync ==
  ASSUME WfTypeOK, IdleIsIdle, AgreedStands, FetchedAlone, SyncedSoFar, IsWf(wf'),
         UNCHANGED <<rows, todo, seen, missed, program, fetched, agreed>>
  PROVE  WfTypeOK' /\ IdleIsIdle' /\ AgreedStands' /\ FetchedAlone' /\ SyncedSoFar'
<1>1. WfTypeOK'
  BY DEF WfTypeOK
<1>2. IdleIsIdle' /\ FetchedAlone'
  BY DEF IdleIsIdle, FetchedAlone
<1>3. AgreedStands'
  BY DEF AgreedStands
<1>4. SyncedSoFar'
  BY DEF SyncedSoFar, Synced
<1> QED  BY <1>1, <1>2, <1>3, <1>4

\* A client that starts has nothing behind it; nobody else knows what it has fetched any more.
LEMMA FetchKeepsSync ==
  ASSUME StoreInv, WfTypeOK, IdleIsIdle, FetchedAlone, NEW c \in Clients, NEW name \in {"sync", "index"},
         Fetch(c, name), wf.phase # Absent
  PROVE  WfTypeOK' /\ IdleIsIdle' /\ AgreedStands' /\ FetchedAlone' /\ SyncedSoFar'
<1>1. PICK p : Launch(c, p) /\ (name = "sync" => p = SyncWrites(wf))
  BY DEF Fetch
<1>2. /\ todo' = [todo EXCEPT ![c] = p] /\ missed' = [missed EXCEPT ![c] = 0] /\ rows' = rows
      /\ seen' = seen /\ seen[c] = Nothing
  BY <1>1 DEF Launch, Busy, StoreInv, SeenFits
<1>3. /\ program' = [program EXCEPT ![c] = name] /\ agreed' = Unknown /\ wf' = wf
      /\ fetched' = [d \in Clients |-> IF d = c /\ Undisturbed(c) THEN wf ELSE Unknown]
  BY DEF Fetch
<1>4. /\ todo'[c] = p /\ program'[c] = name /\ missed'[c] = 0
      /\ \A d \in Clients \ {c} : todo'[d] = todo[d] /\ program'[d] = program[d]
  BY <1>2, <1>3 DEF StoreInv, StoreTypeOK, WfTypeOK
<1>5. WfTypeOK'
  BY <1>2, <1>3 DEF WfTypeOK
<1>6. IdleIsIdle'
  BY <1>4 DEF IdleIsIdle
<1>7. AgreedStands'
  BY <1>3 DEF AgreedStands
<1>8. \A d \in Clients : fetched'[d] # Unknown => d = c /\ Undisturbed(c) /\ fetched'[d] = wf
  BY <1>3
<1>9. FetchedAlone'
  BY <1>2, <1>4, <1>8 DEF FetchedAlone, Undisturbed
<1>10. SyncedSoFar'
  <2>1. SUFFICES ASSUME NEW d \in Clients, fetched'[d] # Unknown, program'[d] = "sync"
                 PROVE  \E k \in Nat : Synced(d, k)'
    BY DEF SyncedSoFar
  <2>2. d = c /\ fetched'[c] = wf /\ todo'[c] = SyncWrites(wf)
    BY <1>1, <1>4, <1>8, <2>1
  <2>3. Len(SyncWrites(wf)) \in Nat
    BY SyncShape DEF IsList
  <2>4. Synced(c, 0)'
    BY <2>2, <2>3 DEF Synced
  <2> QED  BY <2>2, <2>4
<1> QED  BY <1>5, <1>6, <1>7, <1>9, <1>10

\* A step of the one client that writes: what is left is its own.
LEMMA WriterStep ==
  ASSUME IdleIsIdle, AgreedStands, FetchedAlone, SyncedSoFar, NEW c \in Clients, todo[c] # <<>>,
         UNCHANGED <<program, fetched, agreed>>, \A d \in Clients \ {c} : todo'[d] = todo[d],
         seen'[c] # Nothing /\ seen'[c].at # 0 => seen'[c].row = rows'[seen'[c].at],
         fetched[c] # Unknown /\ program[c] = "sync" => \E k \in Nat : Synced(c, k)'
  PROVE  IdleIsIdle' /\ AgreedStands' /\ FetchedAlone' /\ SyncedSoFar'
<1>1. /\ agreed = Unknown /\ program[c] # "none"
      /\ \A d \in Clients : fetched[d] # Unknown => d = c
  BY OnlyWriter
<1>2. IdleIsIdle'
  BY <1>1 DEF IdleIsIdle
<1>3. AgreedStands'
  BY <1>1 DEF AgreedStands
<1>4. FetchedAlone'
  BY <1>1 DEF FetchedAlone
<1>5. SyncedSoFar'
  BY <1>1 DEF SyncedSoFar
<1> QED  BY <1>2, <1>3, <1>4, <1>5

\* What is left of a list after its first element.
LEMMA TailShifts ==
  ASSUME NEW s, IsList(s), s # <<>>
  PROVE  /\ Len(s) \in Nat /\ Len(s) > 0 /\ Head(s) = s[1] /\ Len(Tail(s)) = Len(s) - 1
         /\ \A j \in 1 .. Len(Tail(s)) : Tail(s)[j] = s[j + 1]
<1>1. PICK U : U = {s[i] : i \in 1 .. Len(s)}
  OBVIOUS
<1>2. s \in Seq(U)
  BY <1>1 DEF IsList
<1> QED  BY <1>2

\* The write at the head of what is left is done; it stands unless it has failed.
LEMMA OneMore ==
  ASSUME NEW c, NEW k \in Nat, Synced(c, k), IsList(todo[c]), todo[c] # <<>>,
         UNCHANGED fetched, todo'[c] = Tail(todo[c]),
         missed'[c] = 0 => /\ missed[c] = 0 /\ Stands(rows', Head(todo[c]))
                           /\ \A j \in 1 .. k : Stands(rows, SyncWrites(fetched[c])[j])
                                                  => Stands(rows', SyncWrites(fetched[c])[j])
  PROVE  Synced(c, k + 1)'
<1>1. PICK W : W = SyncWrites(fetched[c])
  OBVIOUS
<1>2. /\ Len(todo[c]) + k = Len(W) /\ \A j \in 1 .. Len(todo[c]) : todo[c][j] = W[k + j]
      /\ missed[c] = 0 => \A j \in 1 .. k : Stands(rows, W[j])
  BY <1>1 DEF Synced
<1>3. PICK n \in Nat : n = k + 1
  OBVIOUS
<1>4. /\ Len(todo[c]) \in Nat /\ Len(todo[c]) > 0 /\ Len(todo'[c]) = Len(todo[c]) - 1
      /\ Head(todo[c]) = todo[c][1]
      /\ \A j \in 1 .. Len(todo'[c]) : todo'[c][j] = todo[c][j + 1]
  BY TailShifts
<1>5. ASSUME NEW j \in 1 .. Len(todo'[c]) PROVE todo'[c][j] = W[n + j]
  <2>1. PICK i \in Nat : i = j + 1
    BY <1>5
  <2>2. i \in 1 .. Len(todo[c]) /\ k + i = n + j
    BY <1>3, <1>4, <1>5, <2>1
  <2> QED  BY <1>2, <1>4, <2>1, <2>2
<1>6. \A a, b \in Nat : (a - 1) + (b + 1) = a + b
  OBVIOUS
<1>7. Len(todo'[c]) + n = Len(W)
  <2>1. Len(todo[c]) \in Nat /\ Len(todo'[c]) = Len(todo[c]) - 1
    BY <1>4
  <2>2. (Len(todo[c]) - 1) + (k + 1) = Len(todo[c]) + k
    BY <1>6, <2>1, Zenon
  <2> QED  BY <1>2, <1>3, <2>1, <2>2, Zenon
<1>8. Head(todo[c]) = W[n]
  <2>1. 1 \in 1 .. Len(todo[c])
    BY <1>4
  <2> QED  BY <1>2, <1>3, <1>4, <2>1
<1>9. ASSUME missed'[c] = 0, NEW j \in 1 .. n PROVE Stands(rows', W[j])
  <2>1. CASE j = n
    BY <1>8, <1>9, <2>1
  <2>2. CASE j # n
    <3>1. j \in 1 .. k
      BY <1>3, <1>9, <2>2
    <3> QED  BY <1>1, <1>2, <1>9, <3>1
  <2> QED  BY <2>1, <2>2
<1>10. Synced(c, n)'
  BY <1>1, <1>5, <1>7, <1>9 DEF Synced
<1> QED  BY <1>3, <1>10

\* A SELECT finds the row as it is; when the database is away the write is missed.
LEMMA LookKeepsSync ==
  ASSUME StoreInv, WfTypeOK, IdleIsIdle, AgreedStands, FetchedAlone, SyncedSoFar, NEW c \in Clients,
         Look(c), UNCHANGED <<wf, program, fetched, agreed>>
  PROVE  WfTypeOK' /\ IdleIsIdle' /\ AgreedStands' /\ FetchedAlone' /\ SyncedSoFar'
<1>1. todo[c] # <<>> /\ rows' = rows
  BY DEF Look
<1>2. CASE online
  <2>1. UNCHANGED <<todo, missed>>
    BY <1>2 DEF Look
  <2>2. /\ seen'[c] # Nothing /\ seen'[c].at # 0 => seen'[c].row = rows'[seen'[c].at]
    <3>1. PICK i : seen' = [seen EXCEPT ![c] = IF i = 0 THEN [at |-> 0] ELSE [at |-> i, row |-> rows[i]]]
      BY <1>2 DEF Look
    <3>2. seen'[c] = IF i = 0 THEN [at |-> 0] ELSE [at |-> i, row |-> rows[i]]
      BY <3>1 DEF StoreInv, StoreTypeOK
    <3> QED  BY <1>1, <3>2
  <2>3. WfTypeOK'
    BY <2>1 DEF WfTypeOK
  <2>4. \A k : Synced(c, k) => Synced(c, k)'
    BY <1>1, <2>1 DEF Synced
  <2>5. fetched[c] # Unknown /\ program[c] = "sync" => \E k \in Nat : Synced(c, k)'
    BY <2>4 DEF SyncedSoFar
  <2>6. \A d \in Clients \ {c} : todo'[d] = todo[d]
    BY <2>1
  <2> QED  BY <1>1, <2>2, <2>3, <2>5, <2>6, WriterStep
<1>3. CASE ~online
  <2>1. /\ todo' = [todo EXCEPT ![c] = Tail(todo[c])] /\ seen' = [seen EXCEPT ![c] = Nothing]
        /\ missed' = [missed EXCEPT ![c] = missed[c] + 1]
    BY <1>3 DEF Look, Returns
  <2>2. todo'[c] = Tail(todo[c]) /\ \A d \in Clients \ {c} : todo'[d] = todo[d]
    BY <2>1 DEF StoreInv, StoreTypeOK
  <2>3. WfTypeOK' /\ missed'[c] # 0 /\ seen'[c] = Nothing
    BY <2>1 DEF WfTypeOK, StoreInv, StoreTypeOK
  <2>4. IsList(todo[c])
    BY DEF StoreInv, StoreTypeOK, Plan
  <2>5. ASSUME fetched[c] # Unknown, program[c] = "sync" PROVE \E k \in Nat : Synced(c, k)'
    <3>1. PICK k \in Nat : Synced(c, k)
      BY <2>5 DEF SyncedSoFar
    <3>2. Synced(c, k + 1)'
      BY <1>1, <2>2, <2>3, <2>4, <3>1, OneMore
    <3> QED  BY <3>2
  <2> QED  BY <1>1, <2>2, <2>3, <2>5, WriterStep
<1> QED  BY <1>2, <1>3

\* A commit of the one writer: its write stands, and the ones before it do, for only one is of its row.
LEMMA CommitKeepsSync ==
  ASSUME StoreInv, WfTypeOK, IdleIsIdle, AgreedStands, FetchedAlone, SyncedSoFar, NEW c \in Clients,
         Commit(c), UNCHANGED <<wf, program, fetched, agreed>>
  PROVE  WfTypeOK' /\ IdleIsIdle' /\ AgreedStands' /\ FetchedAlone' /\ SyncedSoFar'
<1>1. /\ seen[c] # Nothing /\ todo[c] # <<>> /\ Plan(todo[c]) /\ IsList(todo[c]) /\ IsList(stored[c])
      /\ Head(todo[c]).table \in MetaTables
  BY PlansShrink DEF Commit, StoreInv, StoreTypeOK, SeenFits, Plan
<1>2. PICK op : op = Head(todo[c])
  OBVIOUS
<1>3. PICK ok \in BOOLEAN : Committed(c, op, ok)
  BY <1>2, CommitStep
<1>4. /\ todo' = [todo EXCEPT ![c] = Tail(todo[c])] /\ seen' = [seen EXCEPT ![c] = Nothing]
      /\ stored' = [stored EXCEPT ![c] = IF ok THEN Append(stored[c], op) ELSE stored[c]]
  BY <1>3 DEF Committed
<1>5. /\ todo'[c] = Tail(todo[c]) /\ seen'[c] = Nothing
      /\ \A d \in Clients \ {c} : todo'[d] = todo[d]
      /\ stored'[c] = IF ok THEN Append(stored[c], op) ELSE stored[c]
  BY <1>4 DEF StoreInv, StoreTypeOK
\* A write that returned None is missed.
<1>6. WfTypeOK' /\ (missed'[c] = 0 => missed[c] = 0 /\ ok)
  <2>1. PICK fine \in BOOLEAN :
           /\ stored' = [stored EXCEPT ![c] = IF fine THEN Append(stored[c], op) ELSE stored[c]]
           /\ missed' = [missed EXCEPT ![c] = IF fine THEN missed[c] ELSE missed[c] + 1]
    <3>1. PICK fine : fine = (online /\ (seen[c].at = 0 => ~Taken(op)))
      OBVIOUS
    <3>2. /\ stored' = [stored EXCEPT ![c] = IF fine THEN Append(stored[c], op) ELSE stored[c]]
          /\ missed' = [missed EXCEPT ![c] = IF fine THEN missed[c] ELSE missed[c] + 1]
      BY <1>2, <3>1 DEF Commit, Returns
    <3>3. fine \in BOOLEAN
      BY <3>1
    <3> QED  BY <3>2, <3>3
  <2>2. fine => ok
    <3>1. Len(Append(stored[c], op)) = Len(stored[c]) + 1 /\ Len(stored[c]) \in Nat
      BY <1>1, Appending DEF IsList
    <3>2. Append(stored[c], op) # stored[c]
      BY <3>1
    <3>3. stored'[c] = IF fine THEN Append(stored[c], op) ELSE stored[c]
      BY <2>1 DEF StoreInv, StoreTypeOK
    <3> QED  BY <1>5, <3>2, <3>3
  <2>3. missed'[c] = (IF fine THEN missed[c] ELSE missed[c] + 1) /\ missed[c] \in Nat
    BY <2>1 DEF WfTypeOK
  <2>4. WfTypeOK'
    <3>1. missed' = [d \in Clients |-> missed'[d]] /\ \A d \in Clients : missed'[d] \in Nat
      BY <2>1, SMTT(60) DEF WfTypeOK
    <3>2. wf' = wf /\ program' = program /\ fetched' = fetched /\ agreed' = agreed
      OBVIOUS
    <3> QED  BY <3>1, <3>2, Zenon DEF WfTypeOK
  <2> QED  BY <2>2, <2>3, <2>4
<1>7. ASSUME fetched[c] # Unknown, program[c] = "sync" PROVE \E k \in Nat : Synced(c, k)'
  <2>1. PICK k \in Nat : Synced(c, k)
    BY <1>7 DEF SyncedSoFar
  <2>2. PICK w : w = fetched[c]
    OBVIOUS
  <2>3. PICK W : W = SyncWrites(w)
    OBVIOUS
  <2>4. IsWf(w) /\ w.phase # Absent
    BY <1>7, <2>2 DEF WfTypeOK
  <2>5. /\ Len(todo[c]) + k = Len(W) /\ \A j \in 1 .. Len(todo[c]) : todo[c][j] = W[k + j]
        /\ IsList(W) /\ \A j \in 1 .. Len(W) : OfSync(w, W[j]) /\ W[j].table \in MetaTables
    BY <2>1, <2>2, <2>3, SyncShape, SyncIsPlan DEF Synced, Plan
  <2>6. OfSync(w, op)
    <3>1. Len(todo[c]) \in Nat /\ Len(todo[c]) > 0 /\ op = todo[c][1]
      BY <1>1, <1>2, TailShifts
    <3>2. PICK n \in Nat : n = k + 1
      OBVIOUS
    <3>3. n \in 1 .. Len(W) /\ 1 \in 1 .. Len(todo[c])
      BY <2>5, <3>1, <3>2
    <3> QED  BY <2>5, <3>1, <3>2, <3>3
  <2>7. /\ Cares(op, "status") /\ Meant(op, "status") = op.give["status"]
        /\ \A o : OfSync(w, o) /\ SameRow(o, op) => o = op
    BY <2>4, <2>6, SyncOps
  <2>8. "status" \in Columns
    BY DEF Columns
  <2>9. ASSUME ok PROVE Stands(rows', op)
    <3>1. PICK i \in 1 .. Len(rows') :
             /\ OnRow(op, rows'[i])
             /\ \/ rows'[i].cols["status"] = Meant(op, "status")
                \/ /\ seen[c].at = i /\ i \in 1 .. Len(rows) /\ Meant(op, "status") = seen[c].row.cols["status"]
                   /\ rows'[i].cols["status"] = rows[i].cols["status"]
      BY <1>3, <2>7, <2>8, <2>9 DEF Committed
    <3>2. i # 0
      BY <3>1
    <3>3. rows'[i].cols["status"] = op.give["status"]
      BY <1>1, <1>7, <2>7, <3>1, <3>2 DEF FetchedAlone
    <3> QED  BY <3>1, <3>3 DEF Stands
  <2>10. ASSUME NEW j \in 1 .. Len(W), Stands(rows, W[j]) PROVE Stands(rows', W[j])
    <3>1. PICK i \in 1 .. Len(rows) : OnRow(W[j], rows[i]) /\ rows[i].cols["status"] = W[j].give["status"]
      BY <2>10 DEF Stands
    <3>2. /\ i \in 1 .. Len(rows') /\ rows'[i].table = rows[i].table /\ rows'[i].key = rows[i].key
          /\ \/ rows'[i].cols["status"] = rows[i].cols["status"]
             \/ OnRow(op, rows[i]) /\ rows'[i].cols["status"] = Meant(op, "status")
      <4>1. Len(rows) \in Nat /\ Len(rows') \in Nat /\ Len(rows) <= Len(rows')
        BY <1>3 DEF Committed, IsList, StoreInv, StoreTypeOK
      <4>2. i \in 1 .. Len(rows')
        BY <4>1
      <4> QED  BY <1>3, <2>8, <4>2 DEF Committed
    <3>3. OnRow(W[j], rows'[i])
      BY <3>1, <3>2 DEF OnRow
    <3>4. ASSUME OnRow(op, rows[i]) PROVE W[j] = op
      <4>1. op.table.name = W[j].table.name /\ op.key = W[j].key
        BY <3>1, <3>4 DEF OnRow
      <4>2. SameRow(W[j], op)
        BY <1>1, <1>2, <2>5, <4>1, TablesApart DEF SameRow
      <4> QED  BY <2>5, <2>7, <4>2
    <3>5. rows'[i].cols["status"] = W[j].give["status"]
      BY <2>7, <3>1, <3>2, <3>4
    <3> QED  BY <3>2, <3>3, <3>5 DEF Stands
  <2>11. \A j \in 1 .. k : j \in 1 .. Len(W)
    <3>1. Len(todo[c]) \in Nat
      BY <1>1, TailShifts
    <3> QED  BY <2>5, <3>1
  <2>12. Synced(c, k + 1)'
    BY <1>1, <1>2, <1>5, <1>6, <2>1, <2>2, <2>3, <2>9, <2>10, <2>11, OneMore
  <2> QED  BY <2>12
<1> QED  BY <1>1, <1>5, <1>6, <1>7, WriterStep

\* The workflow after one of its nodes has a new phase.
LEMMA PhasesStay ==
  ASSUME IsWf(wf), NEW t, NEW step \in Phases, NEW end \in Phases,
         wf' = [wf EXCEPT !.nodes[t] = step, !.nodes["main"] = end, !.phase = end]
  PROVE  IsWf(wf')
<1>1. PICK ph, f : wf = [phase |-> ph, nodes |-> f] /\ f = [x \in Nodes |-> f[x]]
                   /\ \A x \in Nodes : f[x] \in Phases \cup {Absent}
  BY DEF IsWf
<1>2. PICK g : g = [f EXCEPT ![t] = step]
  OBVIOUS
<1>3. PICK h : h = [g EXCEPT !["main"] = end]
  OBVIOUS
<1>4. PICK w : w = [phase |-> end, nodes |-> h]
  OBVIOUS
<1>5. h = [x \in Nodes |-> h[x]] /\ \A x \in Nodes : h[x] \in Phases \cup {Absent}
  BY <1>1, <1>2, <1>3
<1>6. wf' = [phase |-> end, nodes |-> h]
  BY <1>1, <1>2, <1>3
<1>7. IsWf(w)
  BY <1>4, <1>5 DEF IsWf
<1> QED  BY <1>4, <1>6, <1>7, Zenon

\* The workflow after one of its tasks has ended.
LEMMA EndIsPhase ==
  ASSUME IsWf(wf), NEW t, NEW phase \in {"Succeeded", "Failed"}, Ends(t, phase)
  PROVE  IsWf(wf')
<1>1. PICK end \in Phases : wf' = [wf EXCEPT !.nodes[t] = phase, !.nodes["main"] = end, !.phase = end]
  BY DEF Ends, Phases
<1>2. phase \in Phases
  BY DEF Phases
<1> QED  BY <1>1, <1>2, PhasesStay

\* A workflow is not taken for one that nobody has fetched.
LEMMA WfIsKnown == ASSUME NEW w, IsWf(w) PROVE w # Unknown
<1>1. "nodes" \in DOMAIN w
  BY DEF IsWf
<1>2. "nodes" \notin DOMAIN Unknown
  BY DEF Unknown
<1> QED  BY <1>1, <1>2

\* A sync that reports that all its writes are stored, of the workflow as it still is.
LEMMA ReportsKeepsSync ==
  ASSUME StoreInv, WfTypeOK, IdleIsIdle, AgreedStands, FetchedAlone, SyncedSoFar, NEW c \in Clients, Reports(c)
  PROVE  WfTypeOK' /\ IdleIsIdle' /\ AgreedStands' /\ FetchedAlone' /\ SyncedSoFar'
<1>1. /\ program[c] \in {"sync", "index"} /\ todo[c] = <<>> /\ UNCHANGED <<rows, todo, seen>>
      /\ program' = [program EXCEPT ![c] = "none"] /\ fetched' = [fetched EXCEPT ![c] = Unknown]
      /\ missed' = [missed EXCEPT ![c] = 0]
      /\ agreed' = IF program[c] = "sync" /\ missed[c] = 0 /\ fetched[c] = wf THEN wf ELSE agreed
  BY DEF Reports, Busy
<1>2. /\ program'[c] = "none" /\ fetched'[c] = Unknown
      /\ \A d \in Clients \ {c} : program'[d] = program[d] /\ fetched'[d] = fetched[d]
  BY <1>1 DEF WfTypeOK
<1>3. agreed = Unknown /\ program[c] # "none"
  BY <1>1 DEF AgreedStands
<1>4. \A d \in Clients : fetched'[d] = Unknown
  BY <1>2, <1>3 DEF FetchedAlone
<1>5. ASSUME agreed' # Unknown
      PROVE  /\ agreed' = wf /\ fetched[c] = wf /\ fetched[c] # Unknown
             /\ program[c] = "sync" /\ missed[c] = 0
  <2>1. agreed' = wf /\ fetched[c] = wf /\ program[c] = "sync" /\ missed[c] = 0
    BY <1>1, <1>3, <1>5
  <2> QED  BY <1>5, <2>1
<1>6. IsWf(wf')
  <2>1. CASE wf' = wf
    BY <2>1 DEF WfTypeOK
  <2>2. CASE \E t \in Tasks : Ends(t, "Succeeded")
    BY <2>2, EndIsPhase DEF WfTypeOK
  <2>3. "argo-sync" \in Tasks /\ "archive-logs-index" \in Tasks
    BY DEF Tasks
  <2> QED  BY <2>1, <2>2, <2>3 DEF Reports
<1>7. WfTypeOK'
  <2>1. agreed' # Unknown => IsWf(agreed') /\ agreed'.phase # Absent
    <3>1. fetched[c] # Unknown => IsWf(fetched[c]) /\ fetched[c].phase # Absent
      BY DEF WfTypeOK
    <3> QED  BY <1>5, <3>1
  <2>2. missed' = [d \in Clients |-> missed'[d]] /\ \A d \in Clients : missed'[d] \in Nat
    BY <1>1 DEF WfTypeOK
  <2>3. program' = [d \in Clients |-> program'[d]] /\ fetched' = [d \in Clients |-> fetched'[d]]
    BY <1>1 DEF WfTypeOK
  <2> QED  BY <1>4, <1>6, <2>1, <2>2, <2>3 DEF WfTypeOK
<1>8. IdleIsIdle'
  BY <1>1, <1>2 DEF IdleIsIdle
<1>9. AgreedStands'
  <2>1. SUFFICES ASSUME agreed' # Unknown
                 PROVE  /\ \A op : OfSync(agreed', op) => Stands(rows', op)
                        /\ \A d \in Clients : program'[d] = "none"
    BY DEF AgreedStands
  <2>2. \A d \in Clients : program'[d] = "none"
    BY <1>2, <1>5, <2>1 DEF FetchedAlone
  <2>3. PICK k \in Nat : Synced(c, k)
    BY <1>5, <2>1 DEF SyncedSoFar
  <2>4. PICK W : W = SyncWrites(wf)
    OBVIOUS
  <2>5. Len(todo[c]) + k = Len(W) /\ \A j \in 1 .. k : Stands(rows, W[j])
    BY <1>5, <2>1, <2>3, <2>4 DEF Synced
  <2>6. k = Len(W)
    BY <1>1, <2>5
  <2>7. ASSUME NEW op, OfSync(wf, op) PROVE Stands(rows, op)
    <3>1. PICK j \in 1 .. Len(W) : W[j] = op
      BY <2>4, <2>7, SyncShape
    <3> QED  BY <2>5, <2>6, <3>1
  <2> QED  BY <1>1, <1>5, <2>1, <2>2, <2>7
<1>10. FetchedAlone' /\ SyncedSoFar'
  BY <1>4 DEF FetchedAlone, SyncedSoFar
<1> QED  BY <1>7, <1>8, <1>9, <1>10

\* A client that dies has written some; nothing is said of what it wrote.
LEMMA DiesKeepsSync ==
  ASSUME StoreInv, WfTypeOK, IdleIsIdle, AgreedStands, FetchedAlone, SyncedSoFar, NEW c \in Clients, Dies(c)
  PROVE  WfTypeOK' /\ IdleIsIdle' /\ AgreedStands' /\ FetchedAlone' /\ SyncedSoFar'
<1>1. /\ todo[c] # <<>> /\ todo' = [todo EXCEPT ![c] = <<>>] /\ UNCHANGED <<rows, missed, agreed>>
      /\ program' = [program EXCEPT ![c] = IF program[c] = "writes" THEN program[c] ELSE "none"]
      /\ fetched' = [fetched EXCEPT ![c] = Unknown]
  BY DEF Dies, Abandon, Busy
<1>2. /\ todo'[c] = <<>> /\ fetched'[c] = Unknown
      /\ \A d \in Clients \ {c} : program'[d] = program[d] /\ fetched'[d] = fetched[d] /\ todo'[d] = todo[d]
  BY <1>1 DEF WfTypeOK, StoreInv, StoreTypeOK
<1>3. agreed' = Unknown /\ \A d \in Clients : fetched'[d] = Unknown
  BY <1>1, <1>2, OnlyWriter
<1>4. IsWf(wf')
  <2>1. CASE wf' = wf
    BY <2>1 DEF WfTypeOK
  <2>2. CASE \E t \in Tasks : Ends(t, "Failed")
    BY <2>2, EndIsPhase DEF WfTypeOK
  <2>3. "argo-sync" \in Tasks /\ "archive-logs-index" \in Tasks
    BY DEF Tasks
  <2> QED  BY <2>1, <2>2, <2>3 DEF Dies
<1>5. WfTypeOK'
  BY <1>1, <1>3, <1>4 DEF WfTypeOK
<1>6. IdleIsIdle'
  BY <1>2 DEF IdleIsIdle
<1>7. AgreedStands' /\ FetchedAlone' /\ SyncedSoFar'
  BY <1>3 DEF AgreedStands, FetchedAlone, SyncedSoFar
<1> QED  BY <1>5, <1>6, <1>7

\* The invariant holds before the workflow has started.
LEMMA SyncInitInv == MetaInit => SyncInv
<1> SUFFICES ASSUME MetaInit PROVE SyncInv
  OBVIOUS
<1>1. WfTypeOK
  <2>1. PICK f : f = [x \in Nodes |-> Absent]
    OBVIOUS
  <2>2. PICK w : w = [phase |-> Absent, nodes |-> f]
    OBVIOUS
  <2>3. IsWf(w)
    BY <2>1, <2>2 DEF IsWf
  <2>4. IsWf(wf)
    BY <2>1, <2>2, <2>3, Zenon DEF MetaInit
  <2> QED  BY <2>4 DEF MetaInit, StoreInit, WfTypeOK
<1>2. IdleIsIdle /\ AgreedStands /\ FetchedAlone /\ SyncedSoFar
  BY DEF MetaInit, StoreInit, IdleIsIdle, AgreedStands, FetchedAlone, SyncedSoFar
<1> QED  BY <1>1, <1>2, WorkflowInitInv DEF SyncInv

\* Every step of Argo, of its tasks and of the operators keeps it.
LEMMA SyncStepInv == SyncInv /\ [WorkflowNext]_metaVars => SyncInv'
<1> SUFFICES ASSUME SyncInv, [WorkflowNext]_metaVars PROVE SyncInv'
  OBVIOUS
<1> DEFINE Own == WfTypeOK' /\ IdleIsIdle' /\ AgreedStands' /\ FetchedAlone' /\ SyncedSoFar'
<1>0. /\ StoreInv /\ NothingYet /\ WfTypeOK /\ IdleIsIdle /\ AgreedStands /\ FetchedAlone /\ SyncedSoFar
      /\ IsWf(wf) /\ WorkflowInv'
  BY WorkflowStepInv DEF SyncInv, WorkflowInv, WfTypeOK
<1>1. ASSUME NEW t \in Tasks, TaskStarts(t) PROVE Own
  <2>1. "Running" \in Phases /\ wf' = [wf EXCEPT !.nodes[t] = "Running", !.nodes["main"] = "Running", !.phase = "Running"]
    BY <1>1 DEF TaskStarts, Phases
  <2>2. IsWf(wf')
    BY <1>0, <2>1, PhasesStay
  <2> QED  BY <1>0, <1>1, <2>2, ArgoKeepsSync DEF TaskStarts, storeVars
<1>2. ASSUME NEW t \in Tasks, PodFetches(t) PROVE Own
  <2>1. wf.phase # Absent
    BY <1>0, <1>2 DEF NothingYet, PodFetches, Nodes, Absent
  <2>2. PICK name \in {"sync", "index"} : Fetch(Pod, name)
    BY <1>2 DEF PodFetches
  <2> QED  BY <1>0, <2>1, <2>2, FetchKeepsSync, WorkflowAssumption
<1>3. ASSUME WorkEnds PROVE Own
  <2>1. IsWf(wf')
    BY <1>0, <1>3, EndIsPhase DEF WorkEnds
  <2> QED  BY <1>0, <1>3, <2>1, ArgoKeepsSync DEF WorkEnds, storeVars
<1>4. ASSUME WorkflowRetry PROVE Own
  <2>1. PICK f : f = [x \in Nodes |-> IF x = "main" THEN "Running"
                                     ELSE IF wf.nodes[x] = "Failed" THEN Absent ELSE wf.nodes[x]]
    OBVIOUS
  <2>2. wf' = [phase |-> "Running", nodes |-> f]
    BY <1>4, <2>1 DEF WorkflowRetry
  <2>3. \A x \in Nodes : f[x] \in Phases \cup {Absent}
    BY <1>0, <2>1 DEF IsWf, Phases
  <2>4. IsWf(wf')
    BY <2>1, <2>2, <2>3 DEF IsWf, Phases
  <2> QED  BY <1>0, <1>4, <2>4, ArgoKeepsSync DEF WorkflowRetry, storeVars
<1>5. ASSUME NEW c \in Clients, NEW name \in {"sync", "index"}, OperatorFetches(c, name) PROVE Own
  BY <1>0, <1>5, FetchKeepsSync DEF OperatorFetches
<1>6. ASSUME NEW c \in Clients, Writes(c) PROVE Own
  <2>1. UNCHANGED <<wf, program, fetched, agreed>>
    BY <1>6 DEF Writes, wfVars
  <2> QED  BY <1>0, <1>6, <2>1, LookKeepsSync, CommitKeepsSync DEF Writes
<1>7. ASSUME NEW c \in Clients, Reports(c) PROVE Own
  BY <1>0, <1>7, ReportsKeepsSync
<1>8. ASSUME NEW c \in Clients, Dies(c) PROVE Own
  BY <1>0, <1>8, DiesKeepsSync
<1>9. ASSUME Flips PROVE Own
  BY <1>0, <1>9, ArgoKeepsSync DEF Flips, DatabaseFlips, wfVars
<1>10. ASSUME UNCHANGED metaVars PROVE Own
  BY <1>0, <1>10, ArgoKeepsSync DEF metaVars, storeVars, wfVars
<1>11. Own
  BY <1>1, <1>2, <1>3, <1>4, <1>5, <1>6, <1>7, <1>8, <1>9, <1>10 DEF WorkflowNext
<1> QED  BY <1>0, <1>11 DEF SyncInv

\* The invariant of `argo sync`: what a client that fetched the workflow undisturbed has
\* written of it so far stands, and so does what the last one that reported had written.
THEOREM SyncInvariant == WorkflowSpec => []SyncInv
<1>1. SyncInv /\ [WorkflowNext]_metaVars => SyncInv'
  BY SyncStepInv
<1> QED  BY <1>1, SyncInitInv, PTL DEF WorkflowSpec

\* The listings show what stands.
LEMMA AgreedIsTrue == SyncInv => SyncIsTrue
<1> SUFFICES ASSUME SyncInv, agreed = wf, wf.phase # Absent
             PROVE  /\ StatusIn(WorkflowRuns, <<"robot-dh", "wf">>, wf.phase)
                    /\ \A x \in Nodes : wf.nodes[x] # Absent =>
                         StatusIn(WorkflowSteps, <<"robot-dh", "wf", x>>, wf.nodes[x])
  BY DEF SyncIsTrue
<1>1. StoreInv /\ \A op : OfSync(wf, op) => Stands(rows, op)
  BY WfIsKnown DEF SyncInv, WorkflowInv, WfTypeOK, AgreedStands
<1>2. /\ WorkflowRuns \in MetaTables /\ WorkflowRuns.name \notin Unlimited
      /\ WorkflowSteps \in MetaTables /\ WorkflowSteps.name \notin Unlimited
  BY DEF MetaTables, Unlimited, WorkflowRuns, WorkflowSteps
<1>3. StatusIn(WorkflowRuns, <<"robot-dh", "wf">>, wf.phase)
  <2>1. PICK key : key = <<"robot-dh", "wf">>
    OBVIOUS
  <2>2. /\ RunWrite(wf).table = WorkflowRuns /\ RunWrite(wf).key = key /\ RunWrite(wf).give["status"] = wf.phase
    BY <2>1 DEF RunWrite, UpsertWorkflowRun, Write
  <2>3. PICK i \in 1 .. Len(rows) : OnRow(RunWrite(wf), rows[i]) /\ rows[i].cols["status"] = RunWrite(wf).give["status"]
    BY <1>1 DEF OfSync, Stands
  <2>4. rows[i].table = WorkflowRuns.name /\ rows[i].key = key /\ rows[i].cols["status"] = wf.phase
    BY <2>2, <2>3 DEF OnRow
  <2> QED  BY <1>1, <1>2, <2>1, <2>4, HitIsShown
<1>4. ASSUME NEW x \in Nodes, wf.nodes[x] # Absent
      PROVE  StatusIn(WorkflowSteps, <<"robot-dh", "wf", x>>, wf.nodes[x])
  <2>1. PICK key : key = <<"robot-dh", "wf", x>>
    OBVIOUS
  <2>2. PICK op : op = StepWrite(wf, x)
    OBVIOUS
  <2>3. op.table = WorkflowSteps /\ op.key = key /\ op.give["status"] = wf.nodes[x]
    BY <2>1, <2>2 DEF StepWrite, UpsertWorkflowStep, Write
  <2>4. PICK i \in 1 .. Len(rows) : OnRow(op, rows[i]) /\ rows[i].cols["status"] = op.give["status"]
    BY <1>1, <1>4, <2>2 DEF OfSync, Stands
  <2>5. rows[i].table = WorkflowSteps.name /\ rows[i].key = key /\ rows[i].cols["status"] = wf.nodes[x]
    BY <2>3, <2>4 DEF OnRow
  <2> QED  BY <1>1, <1>2, <2>1, <2>5, HitIsShown
<1> QED  BY <1>3, <1>4

\* After an undisturbed `argo sync` that stored everything, a listing of workflow_runs and of
\* workflow_steps shows the phase of the workflow and of each node, also after a retry, an outage
\* or the death of a task that was syncing.
THEOREM TablesTellTruth == WorkflowSpec => []SyncIsTrue
<1>1. SyncInv => SyncIsTrue
  BY AgreedIsTrue
<1> QED  BY <1>1, SyncInvariant, PTL
=============================================================================
