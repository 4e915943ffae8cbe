------------------------- MODULE PerfPendingProofs -------------------------
(***************************************************************************)
(* Type correctness, RecordsAccounted and KeptUntilStored of PerfPending   *)
(* for any number of emitters, records and reingests, and any faults.      *)
(*                                                                         *)
(* The properties rest on facts that none of them states: a record that no *)
(* emitter has gone past yet has no file (Ahead), so that truncating never *)
(* hits a whole one; a reingest that moves a file, or its mirror, has the  *)
(* record's row behind it (Behind), also if another reingest moves the     *)
(* same file; a listing is worked off from the front and names each file   *)
(* once (Listing, Directory), so that as many archived files as listed     *)
(* ones are all of them; and while nothing is killed, fails or overlaps, a *)
(* row and its pending file exist together only between the insert and the *)
(* move that follows it (Calm).                                            *)
(***************************************************************************)
EXTENDS PerfPending, FiniteSetTheorems, TLAPS, SequenceTheorems

\* The records an emitter has ahead of it have no file.
Ahead ==
  \A e \in Emitters : \A i \in 1 .. Len(Batch[e]) :
    i > nth[e] \/ (i = nth[e] /\ est[e] \in {"record", "open"}) => file[Batch[e][i]] = "none"

\* What a reingest archives has its row, and the object follows the file.
Behind ==
  \A p \in Reingests :
    /\ rst[p] \in {"insert", "move", "s3"} => todo[p] # <<>>
    /\ rst[p] \in {"move", "s3"} => rows[InHand(p)] > 0
    /\ rst[p] = "s3" => InHand(p) \in archive

\* The pending directory lists a file once, and only files that are there.
Directory == IsInjective(order) /\ \A r \in ToSet(order) : file[r] # "none"

\* A listing is worked off from the front: what has left it and did not fail is
\* stored, and no more files are counted as archived than have left it and are in
\* the archive.
Handled(p) == listed[p] \ ToSet(todo[p])
ListingOf(p) ==
  /\ IsInjective(todo[p]) /\ ToSet(todo[p]) \subseteq listed[p]
  /\ IsFiniteSet(listed[p])
  /\ rst[p] = "done" => todo[p] = <<>>
  /\ count[p].failed = 0 => \A r \in Handled(p) : rows[r] > 0
  /\ count[p].archived <= Cardinality(Handled(p) \cap archive)
Listing == \A p \in Reingests : ListingOf(p)

\* While nothing is killed, fails or overlaps: one reingest works on the directory,
OneActive == \A p, q \in Reingests : rst[p] \notin Ended /\ rst[q] \notin Ended => p = q
\* the file it has in hand stays,
InHandStays == \A p \in Reingests : rst[p] \in {"insert", "move"} => file[InHand(p)] = "whole"
\* a file that is being written is not whole yet,
WrittenIsTorn == \A e \in Emitters : est[e] = "write" => file[Current(e)] = "torn"
\* a record that no emitter has stored or written has no row,
NotYet(e, i) == i > nth[e] \/ (i = nth[e] /\ est[e] \in {"record", "open", "write"})
Unstored ==
  \A e \in Emitters : \A i \in 1 .. Len(Batch[e]) : NotYet(e, i) => rows[Batch[e][i]] = 0
\* and a file whose row is there is the one that is about to be moved.
Moving(r) == \E p \in Reingests : rst[p] = "move" /\ InHand(p) = r
StoredIsMoving == \A r \in Records : rows[r] > 0 /\ file[r] # "none" => Moving(r)

OneRow == \A r \in Records : rows[r] <= 1
Calm == OneActive /\ InHandStays /\ WrittenIsTorn /\ Unstored /\ StoredIsMoving /\ OneRow
Undisturbed == faults = 0 => Calm

IInv == /\ TypeOK /\ Ahead /\ Behind /\ NothingLostToDrift
        /\ Directory /\ Listing /\ Undisturbed

-----------------------------------------------------------------------------
(* Lemmas about sequences and batches.                                     *)

\* The listing without a file lists nothing new.
LEMMA WithoutIsSeq ==
  ASSUME NEW S, NEW s \in Seq(S), NEW r
  PROVE  Without(s, r) \in Seq(S)
<1>1. CASE \E i \in 1 .. Len(s) : s[i] = r
  <2> DEFINE k == CHOOSE i \in 1 .. Len(s) : s[i] = r
  <2>1. k \in 1 .. Len(s)
    BY <1>1
  <2> HIDE DEF k
  <2>2. SubSeq(s, 1, k - 1) \in Seq(S) /\ SubSeq(s, k + 1, Len(s)) \in Seq(S)
    BY <2>1
  <2>3. RemoveAt(s, k) \in Seq(S)
    BY <2>2 DEF RemoveAt
  <2> QED  BY <1>1, <2>3 DEF Without, k
<1>2. CASE ~\E i \in 1 .. Len(s) : s[i] = r
  BY <1>2 DEF Without
<1> QED  BY <1>1, <1>2

\* A sequence without duplicates loses the element and keeps the others.
LEMMA WithoutRemoves ==
  ASSUME NEW S, NEW s \in Seq(S), IsInjective(s), NEW r
  PROVE  IsInjective(Without(s, r)) /\ ToSet(Without(s, r)) = ToSet(s) \ {r}
<1>0. DOMAIN s = 1 .. Len(s) /\ Len(s) \in Nat
  OBVIOUS
<1>1. CASE \E i \in 1 .. Len(s) : s[i] = r
  <2> DEFINE k == CHOOSE i \in 1 .. Len(s) : s[i] = r
  <2>1. k \in 1 .. Len(s) /\ s[k] = r
    BY <1>1
  <2>2. Without(s, r) = RemoveAt(s, k)
    BY <1>1 DEF Without
  <2> HIDE DEF k
  <2>3. PICK t : t = RemoveAt(s, k)
    OBVIOUS
  <2>4. t = SubSeq(s, 1, k - 1) \o SubSeq(s, k + 1, Len(s))
    BY <2>3 DEF RemoveAt
  <2>5. /\ DOMAIN t = 1 .. Len(s) - 1
        /\ \A i \in 1 .. Len(s) - 1 : t[i] = IF i < k THEN s[i] ELSE s[i + 1]
    <3>1. PICK a, b : a = SubSeq(s, 1, k - 1) /\ b = SubSeq(s, k + 1, Len(s))
      OBVIOUS
    <3>2. a \in Seq(S) /\ Len(a) = k - 1 /\ \A i \in 1 .. k - 1 : a[i] = s[i]
      BY <1>0, <2>1, <3>1
    <3>3. b \in Seq(S) /\ Len(b) = Len(s) - k /\ \A i \in 1 .. Len(s) - k : b[i] = s[k + i]
      <4>1. PICK m, n : m = k + 1 /\ n = Len(s)
        OBVIOUS
      <4>2. m \in 1 .. Len(s) + 1 /\ n \in m - 1 .. Len(s) /\ b = SubSeq(s, m, n)
        BY <1>0, <2>1, <3>1, <4>1
      <4>3. /\ b \in Seq(S) /\ Len(b) = (IF m <= n THEN n - m + 1 ELSE 0)
            /\ \A i \in 1 .. n - m + 1 : b[i] = s[m + i - 1]
        BY <4>2, SubSeqProperties
      <4>4. k \in Nat /\ k <= n /\ n \in Nat /\ m = k + 1
        BY <1>0, <2>1, <4>1
      <4>5. n - m + 1 = n - k /\ (IF m <= n THEN n - m + 1 ELSE 0) = n - k
        BY <4>4
      <4>6. Len(b) = Len(s) - k /\ n - m + 1 = Len(s) - k
        BY <4>1, <4>3, <4>5
      <4>7. ASSUME NEW i \in 1 .. Len(s) - k PROVE b[i] = s[k + i]
        <5>1. m + i - 1 = k + i
          BY <4>4
        <5>2. b[i] = s[m + i - 1]
          BY <4>3, <4>6
        <5> QED  BY <5>1, <5>2
      <4> QED  BY <4>3, <4>6, <4>7
    <3>4. t = a \o b
      BY <2>4, <3>1
    <3>5. Len(t) = Len(s) - 1 /\ DOMAIN t = 1 .. Len(s) - 1
      <4>1. Len(t) = Len(a) + Len(b) /\ t \in Seq(S)
        BY <3>2, <3>3, <3>4, ConcatProperties
      <4> QED  BY <1>0, <2>1, <3>2, <3>3, <4>1
    <3>6. ASSUME NEW i \in 1 .. Len(s) - 1 PROVE t[i] = IF i < k THEN s[i] ELSE s[i + 1]
      <4>1. CASE i < k
        BY <1>0, <2>1, <3>2, <3>3, <3>4, <4>1
      <4>2. CASE ~(i < k)
        <5>1. i - (k - 1) \in 1 .. Len(s) - k /\ k + (i - (k - 1)) = i + 1
          BY <1>0, <2>1, <4>2
        <5>2. t[i] = b[i - (k - 1)]
          BY <1>0, <2>1, <3>2, <3>3, <3>4, <4>2, <5>1
        <5> QED  BY <3>3, <4>2, <5>1, <5>2
      <4> QED  BY <4>1, <4>2
    <3> QED  BY <3>5, <3>6
  <2>6. IsInjective(t)
    <3>1. ASSUME NEW i \in 1 .. Len(s) - 1, NEW j \in 1 .. Len(s) - 1, t[i] = t[j] PROVE i = j
      <4>1. PICK g \in 1 .. Len(s) : g = IF i < k THEN i ELSE i + 1
        BY <1>0, <2>1
      <4>2. PICK h \in 1 .. Len(s) : h = IF j < k THEN j ELSE j + 1
        BY <1>0, <2>1
      <4>3. s[g] = t[i] /\ s[h] = t[j]
        BY <2>5, <4>1, <4>2
      <4>4. g = h
        BY <1>0, <3>1, <4>3 DEF IsInjective
      <4> QED  BY <2>1, <4>1, <4>2, <4>4
    <3> QED  BY <2>5, <3>1 DEF IsInjective
  <2>7. ToSet(t) = ToSet(s) \ {r}
    <3>1. ASSUME NEW x \in ToSet(t) PROVE x \in ToSet(s) \ {r}
      <4>1. PICK i \in 1 .. Len(s) - 1 : x = t[i]
        BY <2>5, <3>1 DEF ToSet
      <4>2. PICK j \in 1 .. Len(s) : x = s[j] /\ j # k
        BY <1>0, <2>1, <2>5, <4>1
      <4> QED  BY <1>0, <2>1, <4>2 DEF ToSet, IsInjective
    <3>2. ASSUME NEW x \in ToSet(s) \ {r} PROVE x \in ToSet(t)
      <4>1. PICK j \in 1 .. Len(s) : x = s[j] /\ j # k
        BY <1>0, <2>1, <3>2 DEF ToSet
      <4>2. PICK i \in 1 .. Len(s) - 1 : x = t[i]
        <5>1. CASE j < k
          <6>1. j \in 1 .. Len(s) - 1 /\ t[j] = s[j]
            BY <1>0, <2>1, <2>5, <5>1
          <6> QED  BY <4>1, <6>1
        <5>2. CASE j > k
          <6>1. j - 1 \in 1 .. Len(s) - 1 /\ t[j - 1] = s[j]
            BY <1>0, <2>1, <2>5, <5>2
          <6> QED  BY <4>1, <6>1
        <5> QED  BY <1>0, <2>1, <4>1, <5>1, <5>2
      <4> QED  BY <2>5, <4>2 DEF ToSet
    <3> QED  BY <3>1, <3>2
  <2> QED  BY <2>2, <2>3, <2>6, <2>7
<1>2. CASE ~\E i \in 1 .. Len(s) : s[i] = r
  <2>1. r \notin ToSet(s)
    BY <1>0, <1>2 DEF ToSet
  <2> QED  BY <1>2, <2>1 DEF Without
<1> QED  BY <1>1, <1>2

\* A new element at the end.
LEMMA AppendAdds ==
  ASSUME NEW S, NEW s \in Seq(S), IsInjective(s), NEW x \in S, x \notin ToSet(s)
  PROVE  IsInjective(Append(s, x)) /\ ToSet(Append(s, x)) = ToSet(s) \union {x}
<1>0. DOMAIN s = 1 .. Len(s) /\ Len(s) \in Nat
  OBVIOUS
<1>1. PICK t : t = Append(s, x)
  OBVIOUS
<1>2. /\ DOMAIN t = 1 .. Len(s) + 1 /\ t[Len(s) + 1] = x
      /\ \A i \in 1 .. Len(s) : t[i] = s[i]
  BY <1>1
<1>3. \A i \in 1 .. Len(s) : s[i] # x
  BY <1>0 DEF ToSet
<1>4. IsInjective(t)
  BY <1>0, <1>2, <1>3 DEF IsInjective
<1>5. ASSUME NEW y \in ToSet(t) PROVE y \in ToSet(s) \union {x}
  BY <1>0, <1>2 DEF ToSet
<1>6. ASSUME NEW y \in ToSet(s) \union {x} PROVE y \in ToSet(t)
  <2>1. CASE y = x
    BY <1>0, <1>2, <2>1 DEF ToSet
  <2>2. CASE y \in ToSet(s)
    <3>1. PICK i \in 1 .. Len(s) : y = s[i]
      BY <1>0, <2>2 DEF ToSet
    <3>2. i \in DOMAIN t /\ t[i] = y
      BY <1>0, <1>2, <3>1
    <3> QED  BY <3>2 DEF ToSet
  <2> QED  BY <2>1, <2>2
<1> QED  BY <1>1, <1>4, <1>5, <1>6

\* A sequence without duplicates and its head.
LEMMA TailRemoves ==
  ASSUME NEW S, NEW s \in Seq(S), IsInjective(s), s # <<>>
  PROVE  /\ IsInjective(Tail(s)) /\ ToSet(Tail(s)) = ToSet(s) \ {Head(s)}
         /\ Head(s) \in ToSet(s)
<1>0. DOMAIN s = 1 .. Len(s) /\ Len(s) \in Nat \ {0} /\ Head(s) = s[1]
  OBVIOUS
<1>1. PICK t : t = Tail(s)
  OBVIOUS
<1>2. DOMAIN t = 1 .. Len(s) - 1 /\ \A i \in 1 .. Len(s) - 1 : t[i] = s[i + 1]
  BY <1>0, <1>1
<1>3. IsInjective(t)
  BY <1>0, <1>2 DEF IsInjective
<1>4. ASSUME NEW y \in ToSet(t) PROVE y \in ToSet(s) \ {s[1]}
  <2>1. PICK i \in 1 .. Len(s) - 1 : y = s[i + 1]
    BY <1>2, <1>4 DEF ToSet
  <2>2. i + 1 \in 1 .. Len(s) /\ 1 \in 1 .. Len(s) /\ i + 1 # 1
    BY <1>0, <2>1
  <2> QED  BY <1>0, <2>1, <2>2 DEF ToSet, IsInjective
<1>5. ASSUME NEW y \in ToSet(s) \ {s[1]} PROVE y \in ToSet(t)
  <2>1. PICK i \in 1 .. Len(s) : y = s[i] /\ i # 1
    BY <1>0, <1>5 DEF ToSet
  <2>2. i - 1 \in DOMAIN t /\ t[i - 1] = y
    BY <1>0, <1>2, <2>1
  <2> QED  BY <2>2 DEF ToSet
<1>6. s[1] \in ToSet(s)
  BY <1>0 DEF ToSet
<1> QED  BY <1>0, <1>1, <1>3, <1>4, <1>5, <1>6

\* A listing is finite.
LEMMA ListIsFinite ==
  ASSUME NEW S, NEW s \in Seq(S) PROVE IsFiniteSet(ToSet(s))
<1>1. Len(s) \in Nat /\ DOMAIN s = 1 .. Len(s) /\ IsFiniteSet(1 .. Len(s))
  BY FS_Interval
<1>2. s \in Surjection(1 .. Len(s), ToSet(s))
  BY <1>1 DEF Surjection, ToSet
<1> QED  BY <1>1, <1>2, FS_Surjection

LEMMA BatchIsSeq ==
  ASSUME NEW e \in Emitters
  PROVE  /\ Batch[e] \in Seq(Records) /\ Len(Batch[e]) \in Nat \ {0}
         /\ \A i \in 1 .. Len(Batch[e]) : Batch[e][i] \in Records
         /\ \A i, j \in 1 .. Len(Batch[e]) : Batch[e][i] = Batch[e][j] => i = j
<1>1. Batch[e] \in Seq(ToSet(Batch[e])) /\ Batch[e] # <<>> /\ IsInjective(Batch[e])
  BY PerfAssumption
<1>2. ToSet(Batch[e]) \subseteq Records
  BY DEF Records
<1>3. DOMAIN Batch[e] = 1 .. Len(Batch[e]) /\ Len(Batch[e]) \in Nat /\ Len(Batch[e]) # 0
  BY <1>1
<1>4. \A i \in 1 .. Len(Batch[e]) : Batch[e][i] \in Records
  BY <1>2, <1>3 DEF ToSet
<1>5. Batch[e] \in Seq(Records)
  BY <1>1, <1>4
<1> QED  BY <1>1, <1>3, <1>4, <1>5 DEF IsInjective

\* No two emitters have a record in common (a name is new for each record).
LEMMA BatchesAreDisjoint ==
  ASSUME NEW e \in Emitters, NEW f \in Emitters,
         NEW i \in 1 .. Len(Batch[e]), NEW j \in 1 .. Len(Batch[f]), Batch[e][i] = Batch[f][j]
  PROVE  e = f /\ i = j
<1>1. DOMAIN Batch[e] = 1 .. Len(Batch[e]) /\ DOMAIN Batch[f] = 1 .. Len(Batch[f])
  BY BatchIsSeq
<1>2. Batch[e][i] \in ToSet(Batch[e]) /\ Batch[f][j] \in ToSet(Batch[f])
  BY <1>1 DEF ToSet
<1>3. e = f
  BY <1>2, PerfAssumption
<1> QED  BY <1>3, BatchIsSeq

\* The record an emitter is at.
LEMMA CurrentIsRecord ==
  ASSUME TypeOK, NEW e \in Emitters
  PROVE  nth[e] \in 1 .. Len(Batch[e]) /\ Current(e) \in Records
BY BatchIsSeq DEF TypeOK, Current

\* The file a reingest has in hand.
LEMMA InHandIsRecord ==
  ASSUME TypeOK, NEW p \in Reingests, todo[p] # <<>>
  PROVE  InHand(p) \in Records /\ Tail(todo[p]) \in Seq(Records)
BY DEF TypeOK, InHand

\* Counting a row keeps what is counted a number, and it is not 0 afterwards.
LEMMA InsertCounts ==
  ASSUME TypeOK, NEW r \in Records, Insert(r)
  PROVE  /\ rows' \in [Records -> 0 .. MaxRows] /\ rows'[r] > 0
         /\ \A q \in Records : rows[q] > 0 => rows'[q] > 0
<1>1. MaxRows \in Nat \ {0, 1} /\ rows \in [Records -> 0 .. MaxRows]
  BY PerfAssumption DEF TypeOK
<1>2. rows' = [rows EXCEPT ![r] = IF rows[r] = MaxRows THEN rows[r] ELSE rows[r] + 1]
  BY DEF Insert
<1> QED  BY <1>1, <1>2

-----------------------------------------------------------------------------
(* Type correctness.                                                       *)

LEMMA EmitKeepsTypes == ASSUME TypeOK, NEW e \in Emitters, Emit(e) PROVE TypeOK'
<1>1. Current(e) \in Records /\ nth[e] \in 1 .. Len(Batch[e]) /\ Len(Batch[e]) \in Nat
  BY CurrentIsRecord, BatchIsSeq
<1>2. ASSUME Advance(e)
      PROVE  /\ est' \in [Emitters -> EmitPc]
             /\ nth' \in [Emitters -> Nat] /\ \A f \in Emitters : nth'[f] \in 1 .. Len(Batch[f])
  <2>1. est' \in [Emitters -> EmitPc]
    BY <1>2 DEF Advance, TypeOK, EmitPc
  <2>2. CASE nth[e] = Len(Batch[e])
    <3>1. nth' = nth
      BY <1>2, <2>2 DEF Advance
    <3> QED  BY <2>1, <3>1 DEF TypeOK
  <2>3. CASE nth[e] # Len(Batch[e])
    <3>1. nth' = [nth EXCEPT ![e] = nth[e] + 1]
      BY <1>2, <2>3 DEF Advance
    <3>2. nth[e] + 1 \in 1 .. Len(Batch[e])
      BY <1>1, <2>3
    <3> QED  BY <2>1, <3>1, <3>2 DEF TypeOK
  <2> QED  BY <2>1, <2>2, <2>3
<1>3. CASE RecordSoft(e)
  <2>1. rows' \in [Records -> 0 .. MaxRows] /\ dropped' \subseteq Records
    BY <1>1, <1>3, InsertCounts DEF RecordSoft, TypeOK
  <2> QED  BY <1>2, <1>3, <2>1 DEF RecordSoft, TypeOK, store, reingests
<1>4. CASE RecordDrift(e) \/ RecordRaises(e)
  <2>1. est' \in [Emitters -> EmitPc]
    BY <1>4 DEF RecordDrift, RecordRaises, TypeOK, EmitPc
  <2> QED  BY <1>4, <2>1 DEF RecordDrift, RecordRaises, TypeOK, warehouse, store, reingests
<1>5. CASE OpenFile(e)
  <2>1. /\ order' = Append(order, Current(e)) /\ file' = [file EXCEPT ![Current(e)] = "torn"]
        /\ est' = [est EXCEPT ![e] = "write"]
        /\ UNCHANGED <<warehouse, archive, mirror, nth, reingests, faults>>
    BY <1>5 DEF OpenFile
  <2> QED  BY <1>1, <2>1 DEF TypeOK, EmitPc, warehouse, reingests
<1>6. CASE WriteFile(e)
  <2>1. /\ order' = Append(Without(order, Current(e)), Current(e))
        /\ file' = [file EXCEPT ![Current(e)] = "whole"] /\ est' = [est EXCEPT ![e] = "mirror"]
        /\ UNCHANGED <<warehouse, archive, mirror, nth, reingests, faults>>
    BY <1>6 DEF WriteFile
  <2>2. order' \in Seq(Records)
    BY <1>1, <2>1, WithoutIsSeq DEF TypeOK
  <2> QED  BY <1>1, <2>1, <2>2 DEF TypeOK, EmitPc, warehouse, reingests
<1>7. CASE MirrorFile(e)
  <2>1. mirror' \in [{"pending", "archived"} -> SUBSET Records]
    BY <1>1, <1>7 DEF MirrorFile, TypeOK
  <2> QED  BY <1>2, <1>7, <2>1 DEF MirrorFile, TypeOK, warehouse, reingests
<1> QED  BY <1>3, <1>4, <1>5, <1>6, <1>7 DEF Emit

LEMMA ReingestKeepsTypes ==
  ASSUME TypeOK, Behind, NEW p \in Reingests, List(p) \/ Handle(p) \/ AnswerLost(p)
  PROVE  TypeOK'
<1>1. todo[p] # <<>> => InHand(p) \in Records /\ Tail(todo[p]) \in Seq(Records)
  BY InHandIsRecord
<1>2. ASSUME NEW l \in ReingestPc, Goto(p, l) PROVE rst' \in [Reingests -> ReingestPc]
  BY <1>2 DEF Goto, TypeOK
<1>3. ASSUME NEW c \in Counters, Count(p, c) PROVE count' \in [Reingests -> [Counters -> Nat]]
  BY <1>3 DEF Count, TypeOK
<1>4. ASSUME NextFile(p), todo[p] # <<>>
      PROVE rst' \in [Reingests -> ReingestPc] /\ todo' \in [Reingests -> Seq(Records)]
  BY <1>1, <1>4 DEF NextFile, Goto, ReingestPc, TypeOK
<1>5. rst[p] \in {"insert", "move", "s3"} => todo[p] # <<>>
  BY DEF Behind
<1>6. CASE List(p)
  <2>1. todo' \in [Reingests -> Seq(Records)] /\ listed' \in [Reingests -> SUBSET Records]
    BY <1>6 DEF List, TypeOK, ToSet
  <2>2. count' \in [Reingests -> [Counters -> Nat]] /\ rst' \in [Reingests -> ReingestPc]
    BY <1>6 DEF List, Goto, Zero, TypeOK, ReingestPc
  <2>3. faults' \in 0 .. MaxFaults
    BY <1>6, PerfAssumption DEF List, TypeOK
  <2> QED  BY <1>6, <2>1, <2>2, <2>3 DEF List, TypeOK, warehouse, store, emitters
<1>7. CASE Read(p)
  <2>1. count' \in [Reingests -> [Counters -> Nat]]
    <3>1. PICK c \in [Counters -> Nat] : count' = [count EXCEPT ![p] = c]
      <4> DEFINE counted == [count[p] EXCEPT !["scanned"] = @ + 1]
      <4>1. count[p] \in [Counters -> Nat] /\ counted \in [Counters -> Nat]
        BY DEF TypeOK, Counters
      <4>2. [counted EXCEPT !["failed"] = @ + 1] \in [Counters -> Nat]
        BY <4>1 DEF Counters
      <4>3. CASE file[InHand(p)] = "whole"
        BY <1>7, <4>1, <4>3 DEF Read
      <4>4. CASE file[InHand(p)] # "whole"
        <5>1. count' = [count EXCEPT ![p] = [counted EXCEPT !["failed"] = @ + 1]]
          BY <1>7, <4>4 DEF Read, TypeOK
        <5> QED  BY <4>2, <5>1
      <4> QED  BY <4>3, <4>4
    <3> QED  BY <3>1 DEF TypeOK
  <2>2. rst' \in [Reingests -> ReingestPc] /\ todo' \in [Reingests -> Seq(Records)]
    BY <1>2, <1>4, <1>7 DEF Read, TypeOK, ReingestPc
  <2> QED  BY <1>7, <2>1, <2>2 DEF Read, TypeOK, warehouse, store, emitters
<1>8. CASE InsertPending(p)
  <2>1. rows' \in [Records -> 0 .. MaxRows]
    BY <1>1, <1>5, <1>8, InsertCounts DEF InsertPending
  <2>2. rst' \in [Reingests -> ReingestPc] /\ count' \in [Reingests -> [Counters -> Nat]]
    BY <1>2, <1>3, <1>8 DEF InsertPending, ReingestPc, Counters
  <2> QED  BY <1>8, <2>1, <2>2 DEF InsertPending, TypeOK, store, emitters
<1>9. CASE Abort(p)
  <2>1. rst' \in [Reingests -> ReingestPc] /\ count' \in [Reingests -> [Counters -> Nat]]
    BY <1>2, <1>3, <1>9 DEF Abort, ReingestPc, Counters
  <2> QED  BY <1>9, <2>1 DEF Abort, TypeOK, warehouse, store, emitters
<1>10. CASE AnswerLost(p)
  <2>1. rows' \in [Records -> 0 .. MaxRows]
    BY <1>1, <1>5, <1>10, InsertCounts DEF AnswerLost
  <2>2. rst' \in [Reingests -> ReingestPc] /\ count' \in [Reingests -> [Counters -> Nat]]
    BY <1>2, <1>3, <1>10 DEF AnswerLost, ReingestPc, Counters
  <2>3. faults' \in 0 .. MaxFaults
    BY <1>10, PerfAssumption DEF AnswerLost, TypeOK
  <2> QED  BY <1>10, <2>1, <2>2, <2>3 DEF AnswerLost, TypeOK, store, emitters
<1>11. CASE Move(p)
  <2>1. order' \in Seq(Records)
    BY <1>11, WithoutIsSeq DEF Move, Moved, TypeOK
  <2>2. file' \in [Records -> {"none", "torn", "whole"}] /\ archive' \subseteq Records
    BY <1>1, <1>5, <1>11 DEF Move, Moved, TypeOK
  <2>3. rst' \in [Reingests -> ReingestPc]
    BY <1>2, <1>11 DEF Move, ReingestPc
  <2> QED  BY <1>11, <2>1, <2>2, <2>3 DEF Move, TypeOK, warehouse, emitters
<1>12. CASE MoveFails(p)
  <2>1. faults' \in 0 .. MaxFaults
    BY <1>12, PerfAssumption DEF MoveFails, TypeOK
  <2> QED  BY <1>4, <1>5, <1>12, <2>1 DEF MoveFails, TypeOK, warehouse, store, emitters
<1>13. CASE ArchiveObject(p)
  <2>1. mirror' \in [{"pending", "archived"} -> SUBSET Records]
    BY <1>1, <1>5, <1>13 DEF ArchiveObject, TypeOK
  <2>2. count' \in [Reingests -> [Counters -> Nat]]
    BY <1>3, <1>13 DEF ArchiveObject, Counters
  <2> QED  BY <1>4, <1>5, <1>13, <2>1, <2>2 DEF ArchiveObject, TypeOK, warehouse, emitters
<1>14. CASE Finish(p)
  <2>1. rst' \in [Reingests -> ReingestPc]
    BY <1>2, <1>14 DEF Finish, ReingestPc
  <2> QED  BY <1>14, <2>1 DEF Finish, TypeOK, warehouse, store, emitters
<1> QED
  BY <1>6, <1>7, <1>8, <1>9, <1>10, <1>11, <1>12, <1>13, <1>14 DEF Handle

LEMMA NextKeepsTypes == ASSUME TypeOK, Behind, [Next]_vars PROVE TypeOK'
<1>1. ASSUME NEW e \in Emitters, KillEmitter(e) PROVE TypeOK'
  <2>1. est' \in [Emitters -> EmitPc] /\ faults' \in 0 .. MaxFaults
    BY <1>1, PerfAssumption DEF KillEmitter, TypeOK, EmitPc
  <2> QED  BY <1>1, <2>1 DEF KillEmitter, TypeOK, warehouse, store, reingests
<1>2. ASSUME NEW p \in Reingests, KillReingest(p) PROVE TypeOK'
  <2>1. rst' \in [Reingests -> ReingestPc] /\ faults' \in 0 .. MaxFaults
    BY <1>2, PerfAssumption DEF KillReingest, Goto, TypeOK, ReingestPc
  <2> QED  BY <1>2, <2>1 DEF KillReingest, TypeOK, warehouse, store, emitters
<1>3. CASE ChangeDb
  BY <1>3, PerfAssumption DEF ChangeDb, TypeOK, store, emitters, reingests
<1>4. CASE UNCHANGED vars
  BY <1>4 DEF vars, warehouse, store, emitters, reingests, TypeOK
<1> QED  BY <1>1, <1>2, <1>3, <1>4, EmitKeepsTypes, ReingestKeepsTypes DEF Next

-----------------------------------------------------------------------------
(* The two facts.                                                          *)

\* A file is truncated or written only for the record the emitter is at; the names are its own.
LEMMA NextKeepsAhead == ASSUME TypeOK, Ahead, Behind, [Next]_vars PROVE Ahead'
<1> SUFFICES ASSUME NEW e \in Emitters, NEW i \in 1 .. Len(Batch[e]),
                    i > nth'[e] \/ (i = nth'[e] /\ est'[e] \in {"record", "open"})
             PROVE  file'[Batch[e][i]] = "none"
  BY DEF Ahead
<1>1. /\ nth[e] \in 1 .. Len(Batch[e]) /\ Len(Batch[e]) \in Nat
      /\ Batch[e][i] \in Records /\ file \in [Records -> {"none", "torn", "whole"}]
      /\ est \in [Emitters -> EmitPc]
  BY CurrentIsRecord, BatchIsSeq DEF TypeOK
<1>2. i > nth[e] \/ (i = nth[e] /\ est[e] \in {"record", "open"}) => file[Batch[e][i]] = "none"
  BY DEF Ahead
<1>3. ASSUME NEW f \in Emitters, Advance(f)
      PROVE  i > nth[e] \/ (i = nth[e] /\ est[e] \in {"record", "open"})
  <2>1. CASE f # e
    <3>1. est'[e] = est[e] /\ nth'[e] = nth[e]
      BY <1>3, <2>1 DEF Advance, TypeOK
    <3> QED  BY <3>1
  <2>2. CASE f = e /\ nth[e] = Len(Batch[e])
    BY <1>1, <1>3, <2>2 DEF Advance
  <2>3. CASE f = e /\ nth[e] # Len(Batch[e])
    <3>1. nth' = [nth EXCEPT ![e] = nth[e] + 1] /\ nth \in [Emitters -> Nat]
      BY <1>3, <2>3 DEF Advance, TypeOK
    <3> QED  BY <1>1, <3>1
  <2> QED  BY <2>1, <2>2, <2>3
<1>4. ASSUME NEW f \in Emitters, Emit(f) PROVE file'[Batch[e][i]] = "none"
  <2>1. CASE RecordSoft(f)
    BY <1>2, <1>3, <1>4, <2>1 DEF RecordSoft, store
  <2>2. CASE RecordDrift(f) \/ RecordRaises(f)
    BY <1>1, <1>2, <1>4, <2>2 DEF RecordDrift, RecordRaises, store
  <2>3. CASE OpenFile(f) \/ WriteFile(f)
    <3>1. PICK l, v : /\ l \notin {"record", "open"} /\ est' = [est EXCEPT ![f] = l]
                      /\ file' = [file EXCEPT ![Current(f)] = v] /\ UNCHANGED nth
                      /\ est[f] \in {"open", "write"}
      BY <2>3 DEF OpenFile, WriteFile
    <3>2. Batch[e][i] # Current(f)
      <4>1. SUFFICES ASSUME Batch[e][i] = Current(f) PROVE FALSE
        OBVIOUS
      <4>2. e = f /\ i = nth[f]
        BY <4>1, CurrentIsRecord, BatchesAreDisjoint DEF Current
      <4> QED  BY <1>1, <3>1, <4>2
    <3>3. file'[Batch[e][i]] = file[Batch[e][i]]
      BY <1>1, <3>1, <3>2
    <3>4. i > nth[e] \/ (i = nth[e] /\ est[e] \in {"record", "open"})
      BY <1>1, <3>1
    <3> QED  BY <1>2, <3>3, <3>4
  <2>4. CASE MirrorFile(f)
    BY <1>2, <1>3, <1>4, <2>4 DEF MirrorFile
  <2> QED  BY <1>4, <2>1, <2>2, <2>3, <2>4 DEF Emit
<1>5. ASSUME NEW f \in Emitters, KillEmitter(f) PROVE file'[Batch[e][i]] = "none"
  BY <1>1, <1>2, <1>5 DEF KillEmitter, store
<1>6. ASSUME NEW p \in Reingests, Move(p) PROVE file'[Batch[e][i]] = "none"
  BY <1>1, <1>2, <1>6 DEF Move, Moved, emitters
<1>7. CASE \/ UNCHANGED vars \/ ChangeDb
           \/ \E p \in Reingests :
                \/ List(p) \/ Read(p) \/ InsertPending(p) \/ Abort(p) \/ AnswerLost(p)
                \/ MoveFails(p) \/ ArchiveObject(p) \/ Finish(p) \/ KillReingest(p)
  <2>1. UNCHANGED <<file, est, nth>>
    BY <1>7 DEF vars, ChangeDb, List, Read, InsertPending, Abort, AnswerLost, MoveFails,
                ArchiveObject, Finish, KillReingest, store, emitters
  <2> QED  BY <1>2, <2>1
<1> QED
  BY <1>4, <1>5, <1>6, <1>7 DEF Next, Handle

\* The row is committed before the file is moved, and the file is moved before its mirror.
LEMMA NextKeepsBehind == ASSUME TypeOK, Behind, [Next]_vars PROVE Behind'
<1> SUFFICES ASSUME NEW p \in Reingests
             PROVE  /\ rst'[p] \in {"insert", "move", "s3"} => todo'[p] # <<>>
                    /\ rst'[p] \in {"move", "s3"} => rows'[Head(todo'[p])] > 0
                    /\ rst'[p] = "s3" => Head(todo'[p]) \in archive'
  BY DEF Behind, InHand
<1>1. /\ rst[p] \in {"insert", "move", "s3"} => todo[p] # <<>>
      /\ rst[p] \in {"move", "s3"} => rows[Head(todo[p])] > 0
      /\ rst[p] = "s3" => Head(todo[p]) \in archive
  BY DEF Behind, InHand
<1>2. rst \in [Reingests -> ReingestPc]
  BY DEF TypeOK
<1>3. todo[p] # <<>> => Head(todo[p]) \in Records
  BY InHandIsRecord DEF InHand
<1>4. ASSUME NEW r \in Records, Insert(r), rst'[p] \in {rst[p], "aborted"}, UNCHANGED <<todo, archive>>
      PROVE  /\ rst'[p] \in {"insert", "move", "s3"} => todo'[p] # <<>>
             /\ rst'[p] \in {"move", "s3"} => rows'[Head(todo'[p])] > 0
             /\ rst'[p] = "s3" => Head(todo'[p]) \in archive'
  BY <1>1, <1>3, <1>4, InsertCounts
<1>5. ASSUME NEW e \in Emitters, Emit(e) \/ KillEmitter(e)
      PROVE  UNCHANGED <<rst, todo, archive>> /\ (UNCHANGED rows \/ \E r \in Records : Insert(r))
  BY <1>5, CurrentIsRecord
     DEF Emit, RecordSoft, RecordDrift, RecordRaises, OpenFile, WriteFile, MirrorFile, KillEmitter,
         warehouse, store, reingests
<1>6. CASE \/ \E e \in Emitters : Emit(e) \/ KillEmitter(e)
           \/ ChangeDb \/ UNCHANGED vars
  <2>1. UNCHANGED <<rst, todo, archive>> /\ (UNCHANGED rows \/ \E r \in Records : Insert(r))
    BY <1>5, <1>6 DEF ChangeDb, vars, warehouse, store, reingests
  <2> QED  BY <1>1, <1>4, <2>1
<1>7. ASSUME NEW q \in Reingests, q # p, List(q) \/ Handle(q) \/ AnswerLost(q) \/ KillReingest(q)
      PROVE  /\ rst'[p] \in {"insert", "move", "s3"} => todo'[p] # <<>>
             /\ rst'[p] \in {"move", "s3"} => rows'[Head(todo'[p])] > 0
             /\ rst'[p] = "s3" => Head(todo'[p]) \in archive'
  <2>1. rst'[p] = rst[p] /\ todo'[p] = todo[p] /\ archive \subseteq archive'
    BY <1>7 DEF List, Handle, AnswerLost, KillReingest, Read, InsertPending, Abort, Move, Moved,
                MoveFails, ArchiveObject, Finish, Goto, NextFile, store, TypeOK
  <2>2. rst[q] = "insert" => InHand(q) \in Records
    BY InHandIsRecord DEF Behind
  <2>3. UNCHANGED rows \/ \E r \in Records : Insert(r)
    BY <1>7, <2>2
       DEF List, Handle, AnswerLost, KillReingest, Read, InsertPending, Abort, Move, MoveFails,
           ArchiveObject, Finish, warehouse
  <2> QED  BY <1>1, <1>3, <2>1, <2>3, InsertCounts
<1>8. CASE InsertPending(p)
  <2>1. rst'[p] = "move" /\ UNCHANGED todo /\ rst[p] = "insert" /\ Insert(InHand(p))
    BY <1>2, <1>8 DEF InsertPending, Goto
  <2> QED  BY <1>1, <1>3, <2>1, InsertCounts DEF InHand
<1>9. CASE Move(p)
  <2>1. /\ rst'[p] = "s3" /\ UNCHANGED <<todo, rows>> /\ rst[p] = "move"
        /\ archive' = archive \cup {InHand(p)}
    BY <1>2, <1>9 DEF Move, Moved, Goto, warehouse
  <2> QED  BY <1>1, <2>1 DEF InHand
<1>10. CASE Read(p)
  <2>1. rst'[p] \in {"insert", "read"} /\ (rst'[p] = "insert" => UNCHANGED todo) /\ todo[p] # <<>>
    BY <1>2, <1>10 DEF Read, Goto, NextFile
  <2> QED  BY <2>1
<1>11. CASE List(p) \/ Abort(p) \/ AnswerLost(p) \/ MoveFails(p) \/ ArchiveObject(p) \/ Finish(p) \/ KillReingest(p)
  <2>1. rst'[p] \in {"done", "read", "aborted", "idle"}
    BY <1>2, <1>11 DEF List, Abort, AnswerLost, MoveFails, ArchiveObject, Finish, KillReingest, Goto, NextFile
  <2> QED  BY <2>1
<1> QED
  BY <1>6, <1>7, <1>8, <1>9, <1>10, <1>11 DEF Next, Handle

-----------------------------------------------------------------------------
(* What the module promises.                                               *)

\* A file is only truncated while its record is ahead, and only removed once its row is there.
LEMMA NextKeepsNothingLost ==
  ASSUME TypeOK, Ahead, Behind, NothingLostToDrift, [Next]_vars
  PROVE  NothingLostToDrift'
<1> SUFFICES ASSUME NEW e \in Emitters, NEW r \in Passed(e)', r \notin dropped'
             PROVE  rows'[r] > 0 \/ file'[r] = "whole"
  BY DEF NothingLostToDrift
<1>1. PICK i \in 1 .. IF est'[e] \in {"done", "mirror"} THEN nth'[e] ELSE nth'[e] - 1 : r = Batch[e][i]
  BY DEF Passed
<1>2. /\ nth[e] \in 1 .. Len(Batch[e]) /\ nth'[e] \in 1 .. Len(Batch[e]) /\ Len(Batch[e]) \in Nat
      /\ est \in [Emitters -> EmitPc] /\ nth \in [Emitters -> Nat]
      /\ rows \in [Records -> 0 .. MaxRows] /\ file \in [Records -> {"none", "torn", "whole"}]
  BY CurrentIsRecord, BatchIsSeq, NextKeepsTypes DEF TypeOK
<1>3. i \in 1 .. Len(Batch[e]) /\ r \in Records
  BY <1>1, <1>2, BatchIsSeq
<1> DEFINE was == i \in 1 .. IF est[e] \in {"done", "mirror"} THEN nth[e] ELSE nth[e] - 1
<1>4. was => rows[r] > 0 \/ file[r] = "whole" \/ r \in dropped
  BY <1>1 DEF NothingLostToDrift, Passed
<1>5. ASSUME NEW f \in Emitters, Advance(f)
      PROVE  was \/ (f = e /\ est[e] # "mirror" /\ r = Current(e))
  <2>1. CASE f # e
    <3>1. est'[e] = est[e] /\ nth'[e] = nth[e]
      BY <1>2, <1>5, <2>1 DEF Advance
    <3> QED  BY <1>1, <3>1
  <2>2. CASE f = e /\ nth[e] = Len(Batch[e])
    <3>1. nth'[e] = nth[e]
      BY <1>5, <2>2 DEF Advance
    <3> QED  BY <1>1, <1>2, <2>2, <3>1 DEF Current
  <2>3. CASE f = e /\ nth[e] # Len(Batch[e])
    <3>1. nth'[e] = nth[e] + 1 /\ est'[e] = "record"
      BY <1>2, <1>5, <2>3 DEF Advance
    <3> QED  BY <1>1, <1>2, <2>3, <3>1 DEF Current
  <2> QED  BY <2>1, <2>2, <2>3
<1>6. ASSUME UNCHANGED <<est, nth>> PROVE was
  BY <1>1, <1>6
<1>7. ASSUME NEW f \in Emitters, Emit(f) PROVE rows'[r] > 0 \/ file'[r] = "whole"
  <2>1. Current(f) \in Records
    BY CurrentIsRecord
  <2>2. CASE RecordSoft(f)
    <3>1. CASE Stored(Current(f))
      <4>1. Insert(Current(f)) /\ UNCHANGED <<dropped, file>> /\ Advance(f)
        BY <2>2, <3>1 DEF RecordSoft, store
      <4> QED  BY <1>3, <1>4, <1>5, <2>1, <4>1, InsertCounts
    <3>2. CASE ~Stored(Current(f))
      <4>1. dropped' = dropped \cup {Current(f)} /\ UNCHANGED <<rows, file>> /\ Advance(f)
        BY <2>2, <3>2 DEF RecordSoft, store
      <4> QED  BY <1>4, <1>5, <4>1
    <3> QED  BY <3>1, <3>2
  <2>3. CASE RecordDrift(f) \/ RecordRaises(f)
    <3>1. /\ est[f] \in {"record", "open"} /\ est'[f] \in {"raised", "open"} /\ UNCHANGED <<nth, rows, dropped, file>>
          /\ f # e => est'[e] = est[e]
      BY <1>2, <2>3 DEF RecordDrift, RecordRaises, DirectoryGone, warehouse, store
    <3>2. was
      BY <1>1, <3>1
    <3> QED  BY <1>4, <3>1, <3>2
  <2>4. CASE OpenFile(f)
    <3>1. /\ est[f] = "open" /\ est'[f] = "write" /\ UNCHANGED <<nth, rows, dropped>>
          /\ f # e => est'[e] = est[e]
          /\ file' = [file EXCEPT ![Current(f)] = "torn"]
      BY <1>2, <2>4 DEF OpenFile, warehouse
    <3>2. was
      BY <1>1, <3>1
    <3>3. file[Current(f)] = "none"
      BY <3>1, CurrentIsRecord DEF Ahead, Current
    <3> QED  BY <1>2, <1>3, <1>4, <3>1, <3>2, <3>3
  <2>5. CASE WriteFile(f)
    <3>1. /\ est[f] = "write" /\ est'[f] = "mirror" /\ UNCHANGED <<nth, rows, dropped>>
          /\ f # e => est'[e] = est[e]
          /\ file' = [file EXCEPT ![Current(f)] = "whole"]
      BY <1>2, <2>5 DEF WriteFile, warehouse
    <3>2. was \/ r = Current(f)
      BY <1>1, <1>2, <3>1 DEF Current
    <3> QED  BY <1>2, <1>3, <1>4, <2>1, <3>1, <3>2
  <2>6. CASE MirrorFile(f)
    <3>1. est[f] = "mirror" /\ UNCHANGED <<rows, dropped, file>> /\ Advance(f)
      BY <2>6 DEF MirrorFile, warehouse
    <3>2. was
      BY <1>5, <3>1
    <3> QED  BY <1>4, <3>1, <3>2
  <2> QED  BY <1>7, <2>2, <2>3, <2>4, <2>5, <2>6 DEF Emit
<1>8. ASSUME NEW f \in Emitters, KillEmitter(f) PROVE rows'[r] > 0 \/ file'[r] = "whole"
  <2>1. /\ est'[f] = "killed" /\ UNCHANGED <<nth, rows, dropped, file>>
        /\ f # e => est'[e] = est[e]
    BY <1>2, <1>8 DEF KillEmitter, warehouse, store
  <2>2. was
    BY <1>1, <1>2, <2>1
  <2> QED  BY <1>4, <2>1, <2>2
<1>9. ASSUME NEW p \in Reingests, InsertPending(p) \/ AnswerLost(p)
      PROVE  rows'[r] > 0 \/ file'[r] = "whole"
  <2>1. /\ Insert(InHand(p)) /\ rst[p] = "insert" /\ UNCHANGED <<dropped, file, est, nth>>
    BY <1>9 DEF InsertPending, AnswerLost, store, emitters
  <2>2. InHand(p) \in Records
    BY <2>1, InHandIsRecord DEF Behind
  <2> QED  BY <1>3, <1>4, <1>6, <2>1, <2>2, InsertCounts
<1>10. ASSUME NEW p \in Reingests, Move(p) PROVE rows'[r] > 0 \/ file'[r] = "whole"
  <2>1. /\ file' = [file EXCEPT ![InHand(p)] = "none"] /\ rst[p] = "move"
        /\ UNCHANGED <<rows, dropped, est, nth>>
    BY <1>10 DEF Move, Moved, warehouse, emitters
  <2>2. rows[InHand(p)] > 0
    BY <2>1 DEF Behind
  <2> QED  BY <1>2, <1>3, <1>4, <1>6, <2>1, <2>2
<1>11. CASE \/ UNCHANGED vars \/ ChangeDb
            \/ \E p \in Reingests :
                 \/ List(p) \/ Read(p) \/ Abort(p) \/ MoveFails(p) \/ ArchiveObject(p) \/ Finish(p)
                 \/ KillReingest(p)
  <2>1. UNCHANGED <<rows, dropped, file, est, nth>>
    BY <1>11 DEF vars, ChangeDb, List, Read, Abort, MoveFails, ArchiveObject, Finish, KillReingest,
                 warehouse, store, emitters
  <2> QED  BY <1>4, <1>6, <2>1
<1> QED
  BY <1>7, <1>8, <1>9, <1>10, <1>11 DEF Next, Handle

-----------------------------------------------------------------------------
(* The directory and the listings of the reingests.                        *)

\* Each write appends a new name; the rename takes the one it moved.
LEMMA NextKeepsDirectory == ASSUME TypeOK, Ahead, Behind, Directory, [Next]_vars PROVE Directory'
<1>1. order \in Seq(Records) /\ file \in [Records -> {"none", "torn", "whole"}]
  BY DEF TypeOK
<1>2. ASSUME NEW e \in Emitters, OpenFile(e) PROVE Directory'
  <2>1. /\ order' = Append(order, Current(e)) /\ file' = [file EXCEPT ![Current(e)] = "torn"]
        /\ est[e] = "open" /\ Current(e) \in Records
    BY <1>2, CurrentIsRecord DEF OpenFile
  <2>2. Current(e) \notin ToSet(order)
    BY <2>1, CurrentIsRecord DEF Ahead, Current, Directory
  <2>3. IsInjective(order') /\ ToSet(order') = ToSet(order) \union {Current(e)}
    BY <1>1, <2>1, <2>2, AppendAdds DEF Directory
  <2>4. ASSUME NEW r \in ToSet(order') PROVE file'[r] # "none"
    BY <1>1, <2>1, <2>3, <2>4 DEF Directory
  <2> QED  BY <2>3, <2>4 DEF Directory
<1>3. ASSUME NEW e \in Emitters, WriteFile(e) PROVE Directory'
  <2>1. PICK rest : rest = Without(order, Current(e))
    OBVIOUS
  <2>2. /\ order' = Append(rest, Current(e)) /\ file' = [file EXCEPT ![Current(e)] = "whole"]
        /\ Current(e) \in Records
    BY <1>3, <2>1, CurrentIsRecord DEF WriteFile
  <2>3. rest \in Seq(Records) /\ IsInjective(rest) /\ ToSet(rest) = ToSet(order) \ {Current(e)}
    BY <1>1, <2>1, WithoutIsSeq, WithoutRemoves DEF Directory
  <2>4. IsInjective(order') /\ ToSet(order') = ToSet(rest) \union {Current(e)}
    BY <2>2, <2>3, AppendAdds
  <2>5. ASSUME NEW r \in ToSet(order') PROVE file'[r] # "none"
    BY <1>1, <2>2, <2>3, <2>4, <2>5 DEF Directory
  <2> QED  BY <2>4, <2>5 DEF Directory
<1>4. ASSUME NEW p \in Reingests, Move(p) PROVE Directory'
  <2>1. /\ order' = Without(order, InHand(p)) /\ file' = [file EXCEPT ![InHand(p)] = "none"]
    BY <1>4 DEF Move, Moved
  <2>2. IsInjective(order') /\ ToSet(order') = ToSet(order) \ {InHand(p)}
    BY <1>1, <2>1, WithoutRemoves DEF Directory
  <2> QED  BY <1>1, <2>1, <2>2 DEF Directory
<1>5. CASE UNCHANGED <<order, file>>
  BY <1>5 DEF Directory
<1>6. ASSUME NEW e \in Emitters, Emit(e) \/ KillEmitter(e), ~OpenFile(e), ~WriteFile(e)
      PROVE  UNCHANGED <<order, file>>
  BY <1>6 DEF Emit, KillEmitter, RecordSoft, RecordDrift, RecordRaises, MirrorFile, store
<1>7. ASSUME NEW p \in Reingests, List(p) \/ Handle(p) \/ AnswerLost(p) \/ KillReingest(p), ~Move(p)
      PROVE  UNCHANGED <<order, file>>
  BY <1>7 DEF List, Handle, AnswerLost, KillReingest, Read, InsertPending, Abort, MoveFails,
              ArchiveObject, Finish, store
<1>8. CASE ChangeDb \/ UNCHANGED vars
  BY <1>5, <1>8 DEF ChangeDb, vars, store
<1> QED
  BY <1>2, <1>3, <1>4, <1>5, <1>6, <1>7, <1>8 DEF Next

\* Rows and archived files are never taken away.
LEMMA StoredStays ==
  ASSUME TypeOK, Behind, [Next]_vars
  PROVE  archive \subseteq archive' /\ \A r \in Records : rows[r] > 0 => rows'[r] > 0
<1>1. ASSUME NEW e \in Emitters, Emit(e) \/ KillEmitter(e)
      PROVE  UNCHANGED archive /\ (UNCHANGED rows \/ \E r \in Records : Insert(r))
  BY <1>1, CurrentIsRecord
     DEF Emit, RecordSoft, RecordDrift, RecordRaises, OpenFile, WriteFile, MirrorFile, KillEmitter,
         warehouse, store
<1>2. ASSUME NEW p \in Reingests, List(p) \/ Handle(p) \/ AnswerLost(p) \/ KillReingest(p)
      PROVE  archive \subseteq archive' /\ (UNCHANGED rows \/ \E r \in Records : Insert(r))
  <2>1. rst[p] = "insert" => InHand(p) \in Records
    BY InHandIsRecord DEF Behind
  <2> QED
    BY <1>2, <2>1
       DEF List, Handle, AnswerLost, KillReingest, Read, InsertPending, Abort, Move, Moved, MoveFails,
           ArchiveObject, Finish, warehouse, store
<1>3. CASE ChangeDb \/ UNCHANGED vars
  BY <1>3 DEF ChangeDb, vars, warehouse, store
<1> QED  BY <1>1, <1>2, <1>3, InsertCounts DEF Next

\* A reingest that keeps its place in the listing.
LEMMA ListingStays ==
  ASSUME TypeOK, Behind, [Next]_vars, NEW p \in Reingests, ListingOf(p),
         todo'[p] = todo[p], listed'[p] = listed[p], rst'[p] = "done" => todo[p] = <<>>,
         count'[p].failed = 0 => count[p].failed = 0, count'[p].archived = count[p].archived
  PROVE  ListingOf(p)'
<1>1. PICK t, l : t = todo[p] /\ l = listed[p]
  OBVIOUS
<1>2. archive \subseteq archive' /\ \A r \in Records : rows[r] > 0 => rows'[r] > 0
  BY StoredStays
<1>3. l \subseteq Records /\ count[p].archived \in Nat
  BY <1>1 DEF TypeOK, Counters
<1>4. /\ IsInjective(t) /\ ToSet(t) \subseteq l /\ IsFiniteSet(l)
      /\ count[p].failed = 0 => \A r \in l \ ToSet(t) : rows[r] > 0
      /\ count[p].archived <= Cardinality((l \ ToSet(t)) \cap archive)
  BY <1>1 DEF ListingOf, Handled
<1>5. /\ Cardinality((l \ ToSet(t)) \cap archive) <= Cardinality((l \ ToSet(t)) \cap archive')
      /\ Cardinality((l \ ToSet(t)) \cap archive) \in Nat
      /\ Cardinality((l \ ToSet(t)) \cap archive') \in Nat
  <2>1. IsFiniteSet((l \ ToSet(t)) \cap archive')
    BY <1>4, FS_Subset
  <2>2. (l \ ToSet(t)) \cap archive \in SUBSET ((l \ ToSet(t)) \cap archive')
    BY <1>2
  <2> QED  BY <2>1, <2>2, FS_Subset, FS_CardinalityType
<1> QED
  BY <1>1, <1>2, <1>3, <1>4, <1>5 DEF ListingOf, Handled

\* A reingest that goes on to the next file: the one it leaves is stored, or counted
\* as failed, and in the archive if it is counted as archived.
LEMMA ListingMovesOn ==
  ASSUME TypeOK, Behind, [Next]_vars, NEW p \in Reingests, ListingOf(p), todo[p] # <<>>,
         todo'[p] = Tail(todo[p]), listed'[p] = listed[p], rst'[p] # "done",
         count'[p].failed = 0 => count[p].failed = 0 /\ rows[InHand(p)] > 0,
         \/ count'[p].archived = count[p].archived
         \/ count'[p].archived = count[p].archived + 1 /\ InHand(p) \in archive
  PROVE  ListingOf(p)'
<1>1. PICK t, l, h : t = todo[p] /\ l = listed[p] /\ h = Head(t)
  OBVIOUS
<1>2. archive \subseteq archive' /\ \A r \in Records : rows[r] > 0 => rows'[r] > 0
  BY StoredStays
<1>3. l \subseteq Records /\ count[p].archived \in Nat /\ t \in Seq(Records) /\ t # <<>>
  BY <1>1 DEF TypeOK, Counters
<1>4. /\ IsInjective(t) /\ ToSet(t) \subseteq l /\ IsFiniteSet(l)
      /\ count[p].failed = 0 => \A r \in l \ ToSet(t) : rows[r] > 0
      /\ count[p].archived <= Cardinality((l \ ToSet(t)) \cap archive)
  BY <1>1 DEF ListingOf, Handled
<1>5. PICK u : u = Tail(t)
  OBVIOUS
<1>6. IsInjective(u) /\ ToSet(u) = ToSet(t) \ {h} /\ h \in ToSet(t)
  BY <1>1, <1>3, <1>4, <1>5, TailRemoves
<1> DEFINE old == (l \ ToSet(t)) \cap archive
           new == (l \ ToSet(u)) \cap archive'
<1>7. IsFiniteSet(old) /\ IsFiniteSet(new) /\ Cardinality(old) \in Nat /\ Cardinality(new) \in Nat
  BY <1>4, FS_Subset, FS_CardinalityType
<1>8. old \in SUBSET new /\ (h \in archive => old \union {h} \in SUBSET new) /\ h \notin old
  BY <1>2, <1>4, <1>6
<1> HIDE DEF old, new
<1>9. Cardinality(old) <= Cardinality(new)
  BY <1>7, <1>8, FS_Subset
<1>10. h \in archive => Cardinality(old) + 1 <= Cardinality(new)
  <2>1. Cardinality(old \union {h}) = Cardinality(old) + 1
    BY <1>7, <1>8, FS_AddElement
  <2> QED  BY <1>7, <1>8, <2>1, FS_Subset
<1>11. InHand(p) = h
  BY <1>1 DEF InHand
<1>12. count'[p].archived <= Cardinality(new)
  <2>1. count[p].archived <= Cardinality(old)
    BY <1>4 DEF old
  <2> QED  BY <1>3, <1>7, <1>9, <1>10, <1>11, <2>1
<1>13. ASSUME count'[p].failed = 0, NEW r \in l \ ToSet(u) PROVE rows'[r] > 0
  BY <1>2, <1>3, <1>4, <1>6, <1>11, <1>13
<1>14. todo'[p] = u /\ listed'[p] = l
  BY <1>1, <1>5
<1> QED
  BY <1>4, <1>6, <1>12, <1>13, <1>14 DEF ListingOf, Handled, new

LEMMA NextKeepsListing == ASSUME TypeOK, Behind, Directory, Listing, [Next]_vars PROVE Listing'
<1> SUFFICES ASSUME NEW p \in Reingests PROVE ListingOf(p)'
  BY DEF Listing
<1>1. /\ ListingOf(p) /\ rst \in [Reingests -> ReingestPc] /\ count \in [Reingests -> [Counters -> Nat]]
      /\ todo \in [Reingests -> Seq(Records)] /\ listed \in [Reingests -> SUBSET Records]
  BY DEF Listing, TypeOK
<1>2. /\ count[p].failed \in Nat /\ count[p].archived \in Nat
      /\ rst[p] = "done" => todo[p] = <<>>
  BY <1>1 DEF Counters, ListingOf
<1>3. CASE rst'[p] = rst[p] /\ todo'[p] = todo[p] /\ listed'[p] = listed[p] /\ count'[p] = count[p]
  BY <1>1, <1>2, <1>3, ListingStays
<1>4. CASE ChangeDb \/ UNCHANGED vars \/ \E e \in Emitters : Emit(e) \/ KillEmitter(e)
  <2>1. UNCHANGED reingests
    BY <1>4 DEF ChangeDb, vars, Emit, KillEmitter, RecordSoft, RecordDrift, RecordRaises, OpenFile,
                WriteFile, MirrorFile
  <2> QED  BY <1>3, <2>1 DEF reingests
<1>5. ASSUME NEW q \in Reingests, q # p, List(q) \/ Handle(q) \/ AnswerLost(q) \/ KillReingest(q)
      PROVE  ListingOf(p)'
  <2>1. rst'[p] = rst[p] /\ todo'[p] = todo[p] /\ listed'[p] = listed[p] /\ count'[p] = count[p]
    BY <1>1, <1>5
       DEF List, Handle, AnswerLost, KillReingest, Read, InsertPending, Abort, Move, MoveFails,
           ArchiveObject, Finish, Goto, NextFile, Count
  <2> QED  BY <1>3, <2>1
<1>6. CASE List(p)
  <2>1. /\ listed'[p] = ToSet(order) /\ todo'[p] = order /\ count'[p] = Zero
        /\ rst'[p] = IF order = <<>> THEN "done" ELSE "read"
    BY <1>1, <1>6 DEF List, Goto
  <2>2. IsInjective(order) /\ IsFiniteSet(ToSet(order))
    BY ListIsFinite DEF Directory, TypeOK
  <2>3. Handled(p)' = {}
    BY <2>1 DEF Handled
  <2>4. Cardinality(Handled(p)' \cap archive') = 0
    BY <2>3, FS_EmptySet
  <2>5. Zero.archived = 0
    BY DEF Zero, Counters
  <2> QED
    BY <2>1, <2>2, <2>3, <2>4, <2>5 DEF ListingOf
<1>7. CASE Read(p)
  <2>1. CASE file[InHand(p)] = "whole"
    <3>1. /\ rst'[p] = "insert" /\ UNCHANGED <<todo, listed>>
          /\ count' = [count EXCEPT ![p].scanned = @ + 1]
      BY <1>1, <1>7, <2>1 DEF Read, Goto
    <3>2. count'[p].failed = count[p].failed /\ count'[p].archived = count[p].archived
      BY <1>1, <3>1 DEF Counters
    <3> QED  BY <1>1, <3>1, <3>2, ListingStays
  <2>2. CASE file[InHand(p)] # "whole"
    <3>1. /\ rst'[p] = "read" /\ todo'[p] = Tail(todo[p]) /\ todo[p] # <<>> /\ UNCHANGED listed
          /\ count' = [count EXCEPT ![p].scanned = @ + 1, ![p].failed = @ + 1]
      BY <1>1, <1>7, <2>2 DEF Read, NextFile, Goto
    <3>2. count'[p].failed = count[p].failed + 1 /\ count'[p].archived = count[p].archived
      <4>1. PICK c : c = [count EXCEPT ![p].scanned = @ + 1]
        OBVIOUS
      <4>2. PICK d : d = [count[p] EXCEPT !["scanned"] = @ + 1]
        OBVIOUS
      <4>3. /\ d \in [Counters -> Nat] /\ d["failed"] = count[p]["failed"]
            /\ d["archived"] = count[p]["archived"]
        BY <1>1, <4>2 DEF Counters
      <4>4. c = [count EXCEPT ![p] = d]
        BY <1>1, <4>1, <4>2
      <4>5. c \in [Reingests -> [Counters -> Nat]] /\ c[p] = d
        BY <1>1, <4>3, <4>4
      <4>6. count' = [c EXCEPT ![p].failed = @ + 1]
        BY <1>1, <3>1, <4>1 DEF Counters
      <4> QED  BY <4>3, <4>5, <4>6 DEF Counters
    <3>3. count'[p].failed # 0
      BY <1>2, <3>2
    <3>4. rst'[p] # "done"
      BY <3>1
    <3> QED  BY <1>1, <3>1, <3>2, <3>3, <3>4, ListingMovesOn
  <2> QED  BY <2>1, <2>2
<1>8. CASE InsertPending(p) \/ Abort(p) \/ AnswerLost(p)
  <2>1. rst'[p] \in {"move", "aborted"} /\ UNCHANGED <<todo, listed>>
    BY <1>1, <1>8 DEF InsertPending, Abort, AnswerLost, Goto
  <2>2. PICK c \in {"ingested", "failed"} : count' = [count EXCEPT ![p][c] = @ + 1]
    BY <1>8 DEF InsertPending, Abort, AnswerLost, Count
  <2>3. count'[p].archived = count[p].archived /\ (count'[p].failed = 0 => count[p].failed = 0)
    BY <1>1, <1>2, <2>2 DEF Counters
  <2> QED  BY <1>1, <2>1, <2>3, ListingStays
<1>9. CASE Move(p) \/ KillReingest(p) \/ Finish(p)
  <2>1. /\ UNCHANGED <<todo, listed, count>> /\ rst'[p] \in {"s3", "idle", "done"}
        /\ rst'[p] = "done" => todo[p] = <<>>
    BY <1>1, <1>9 DEF Move, KillReingest, Finish, Goto
  <2> QED  BY <1>1, <2>1, ListingStays
<1>10. CASE MoveFails(p)
  <2>1. /\ rst'[p] = "read" /\ todo'[p] = Tail(todo[p]) /\ rst[p] = "move" /\ UNCHANGED <<listed, count>>
    BY <1>1, <1>10 DEF MoveFails, NextFile, Goto
  <2>2. todo[p] # <<>> /\ rows[InHand(p)] > 0
    BY <2>1 DEF Behind
  <2> QED  BY <1>1, <2>1, <2>2, ListingMovesOn
<1>11. CASE ArchiveObject(p)
  <2>1. /\ rst'[p] = "read" /\ todo'[p] = Tail(todo[p]) /\ rst[p] = "s3" /\ UNCHANGED listed
        /\ count' = [count EXCEPT ![p]["archived"] = @ + 1]
    BY <1>1, <1>11 DEF ArchiveObject, NextFile, Goto, Count
  <2>2. todo[p] # <<>> /\ rows[InHand(p)] > 0 /\ InHand(p) \in archive
    BY <2>1 DEF Behind
  <2>3. count'[p].failed = count[p].failed /\ count'[p].archived = count[p].archived + 1
    BY <1>1, <2>1 DEF Counters
  <2> QED  BY <1>1, <2>1, <2>2, <2>3, ListingMovesOn
<1> QED
  BY <1>4, <1>5, <1>6, <1>7, <1>8, <1>9, <1>10, <1>11 DEF Next, Handle

-----------------------------------------------------------------------------
(* Nothing is stored twice while nothing is killed, fails or overlaps.     *)

\* What an emitter has not reached after it goes on, it had not reached before; the record
\* it leaves is not among that, and another emitter stays where it was.
LEMMA AdvanceLeaves ==
  ASSUME TypeOK, NEW f \in Emitters, Advance(f), NEW e \in Emitters, NEW i \in 1 .. Len(Batch[e])
  PROVE  /\ NotYet(e, i)' => NotYet(e, i) /\ ~(e = f /\ i = nth[f])
         /\ est'[e] = "write" => e # f /\ est[e] = "write" /\ nth'[e] = nth[e]
<1>1. /\ nth[e] \in 1 .. Len(Batch[e]) /\ Len(Batch[e]) \in Nat /\ est \in [Emitters -> EmitPc]
      /\ nth \in [Emitters -> Nat]
  BY CurrentIsRecord, BatchIsSeq DEF TypeOK
<1>2. CASE f # e
  <2>1. est'[e] = est[e] /\ nth'[e] = nth[e]
    BY <1>1, <1>2 DEF Advance
  <2> QED  BY <1>2, <2>1 DEF NotYet
<1>3. CASE f = e /\ nth[e] = Len(Batch[e])
  <2>1. est'[e] = "done" /\ nth'[e] = nth[e]
    BY <1>1, <1>3 DEF Advance
  <2> QED  BY <1>1, <1>3, <2>1 DEF NotYet
<1>4. CASE f = e /\ nth[e] # Len(Batch[e])
  <2>1. est'[e] = "record" /\ nth'[e] = nth[e] + 1
    BY <1>1, <1>4 DEF Advance
  <2> QED  BY <1>1, <1>4, <2>1 DEF NotYet
<1> QED  BY <1>2, <1>3, <1>4

\* A row counted for the first time.
LEMMA FirstRow ==
  ASSUME TypeOK, NEW r \in Records, rows[r] = 0, Insert(r)
  PROVE  rows'[r] = 1 /\ \A q \in Records : q # r => rows'[q] = rows[q]
<1>1. MaxRows \in Nat \ {0, 1} /\ rows \in [Records -> 0 .. MaxRows]
  BY PerfAssumption DEF TypeOK
<1> QED  BY <1>1 DEF Insert

LEMMA EmitKeepsCalm ==
  ASSUME TypeOK, Ahead, Calm, NEW f \in Emitters, Emit(f)
  PROVE  Calm'
<1> DEFINE c == Current(f)
<1>1. /\ c \in Records /\ nth[f] \in 1 .. Len(Batch[f]) /\ c = Batch[f][nth[f]]
      /\ est \in [Emitters -> EmitPc] /\ file \in [Records -> {"none", "torn", "whole"}]
      /\ \A r \in Records : rows[r] \in Nat
  BY CurrentIsRecord DEF TypeOK, Current
<1>2. /\ est[f] \in {"record", "open"} => file[c] = "none"
      /\ est[f] \in {"record", "open", "write"} => rows[c] = 0
  BY <1>1 DEF Ahead, Calm, Unstored, NotYet
<1>3. UNCHANGED <<rst, todo>>
  BY DEF Emit, RecordSoft, RecordDrift, RecordRaises, OpenFile, WriteFile, MirrorFile, reingests
<1>4. OneActive' /\ \A p \in Reingests : InHand(p)' = InHand(p)
  BY <1>3 DEF Calm, OneActive, InHand
<1>5. \A r : Moving(r)' <=> Moving(r)
  BY <1>3, <1>4 DEF Moving
<1>6. ASSUME NEW e \in Emitters, e # f
      PROVE  Current(e) \in Records /\ Current(e) # c
  <2>1. nth[e] \in 1 .. Len(Batch[e]) /\ Current(e) \in Records
    BY CurrentIsRecord
  <2> QED  BY <1>1, <1>6, <2>1, BatchesAreDisjoint DEF Current
<1>7. ASSUME NEW e \in Emitters, NEW i \in 1 .. Len(Batch[e]), Batch[e][i] = c
      PROVE  e = f /\ i = nth[f]
  BY <1>1, <1>7, BatchesAreDisjoint
<1>8. \A e \in Emitters : \A i \in 1 .. Len(Batch[e]) : Batch[e][i] \in Records
  BY BatchIsSeq
<1> HIDE DEF c
<1>9. ASSUME UNCHANGED <<file, rows>>,
             \A e \in Emitters : /\ \A i \in 1 .. Len(Batch[e]) : NotYet(e, i)' => NotYet(e, i)
                                 /\ est'[e] = "write" => est[e] = "write" /\ nth'[e] = nth[e]
      PROVE  Calm'
  <2>1. InHandStays' /\ StoredIsMoving' /\ OneRow'
    BY <1>3, <1>4, <1>5, <1>9 DEF Calm, InHandStays, StoredIsMoving, OneRow
  <2>2. WrittenIsTorn'
    BY <1>9 DEF Calm, WrittenIsTorn, Current
  <2>3. Unstored'
    BY <1>9 DEF Calm, Unstored
  <2> QED  BY <1>4, <2>1, <2>2, <2>3 DEF Calm
<1>10. ASSUME Advance(f), NEW e \in Emitters
       PROVE  /\ \A i \in 1 .. Len(Batch[e]) : NotYet(e, i)' => NotYet(e, i)
              /\ est'[e] = "write" => est[e] = "write" /\ nth'[e] = nth[e]
  <2>1. nth[e] \in 1 .. Len(Batch[e])
    BY CurrentIsRecord
  <2> QED  BY <1>10, <2>1, AdvanceLeaves
<1>11. CASE RecordSoft(f)
  <2>1. est[f] = "record" /\ UNCHANGED file /\ Advance(f)
    BY <1>11 DEF RecordSoft, store
  <2>2. CASE ~Stored(c)
    <3>1. UNCHANGED rows
      BY <1>11, <2>2 DEF RecordSoft, c
    <3> QED  BY <1>9, <1>10, <2>1, <3>1
  <2>3. CASE Stored(c)
    <3>1. rows'[c] = 1 /\ \A q \in Records : q # c => rows'[q] = rows[q]
      BY <1>1, <1>2, <1>11, <2>1, <2>3, FirstRow DEF RecordSoft, c
    <3>2. InHandStays'
      BY <1>3, <1>4, <2>1 DEF Calm, InHandStays
    <3>3. WrittenIsTorn'
      BY <2>1, AdvanceLeaves, CurrentIsRecord DEF Calm, WrittenIsTorn, Current
    <3>4. ASSUME NEW e \in Emitters, NEW i \in 1 .. Len(Batch[e]), NotYet(e, i)'
          PROVE  rows'[Batch[e][i]] = 0
      <4>1. NotYet(e, i) /\ Batch[e][i] # c
        BY <1>7, <2>1, <3>4, AdvanceLeaves
      <4> QED  BY <1>8, <3>1, <4>1 DEF Calm, Unstored
    <3>5. ASSUME NEW r \in Records, rows'[r] > 0, file'[r] # "none" PROVE Moving(r)'
      <4>1. r # c
        BY <1>2, <2>1, <3>5
      <4> QED  BY <1>5, <2>1, <3>1, <3>5, <4>1 DEF Calm, StoredIsMoving
    <3>6. OneRow'
      BY <3>1 DEF Calm, OneRow
    <3>7. Unstored' /\ StoredIsMoving'
      BY <3>4, <3>5 DEF Unstored, StoredIsMoving
    <3> QED  BY <1>4, <3>2, <3>3, <3>6, <3>7 DEF Calm
  <2> QED  BY <2>2, <2>3
<1>12. CASE RecordDrift(f) \/ RecordRaises(f)
  <2>1. /\ est[f] \in {"record", "open"} /\ est'[f] \in {"raised", "open"} /\ UNCHANGED <<nth, rows, file>>
        /\ \A e \in Emitters : e # f => est'[e] = est[e]
    BY <1>1, <1>12 DEF RecordDrift, RecordRaises, DirectoryGone, warehouse, store
  <2> QED  BY <1>9, <2>1 DEF NotYet
<1>13. CASE OpenFile(f) \/ WriteFile(f)
  <2>1. PICK v \in {"torn", "whole"} :
          /\ file' = [file EXCEPT ![c] = v] /\ UNCHANGED <<nth, rows>>
          /\ est[f] \in {"open", "write"} /\ est'[f] \in {"write", "mirror"}
          /\ \A e \in Emitters : e # f => est'[e] = est[e]
          /\ \/ est[f] = "open" /\ est'[f] = "write" /\ v = "torn"
             \/ est[f] = "write" /\ est'[f] = "mirror" /\ v = "whole"
    <3>1. CASE OpenFile(f)
      <4>1. /\ file' = [file EXCEPT ![c] = "torn"] /\ UNCHANGED <<nth, rows>> /\ est[f] = "open"
            /\ est' = [est EXCEPT ![f] = "write"]
        BY <3>1 DEF OpenFile, warehouse, c
      <4> QED  BY <1>1, <4>1
    <3>2. CASE WriteFile(f)
      <4>1. /\ file' = [file EXCEPT ![c] = "whole"] /\ UNCHANGED <<nth, rows>> /\ est[f] = "write"
            /\ est' = [est EXCEPT ![f] = "mirror"]
        BY <3>2 DEF WriteFile, warehouse, c
      <4> QED  BY <1>1, <4>1
    <3> QED  BY <1>13, <3>1, <3>2
  <2>2. file'[c] = v /\ \A r \in Records : r # c => file'[r] = file[r]
    BY <1>1, <2>1
  <2>3. rows[c] = 0 /\ file[c] # "whole"
    <3>1. est[f] = "write" => file[c] = "torn"
      BY DEF Calm, WrittenIsTorn, c
    <3> QED  BY <1>2, <2>1, <3>1
  <2>4. ASSUME NEW p \in Reingests, rst'[p] \in {"insert", "move"} PROVE file'[InHand(p)'] = "whole"
    <3>1. file[InHand(p)] = "whole" /\ InHand(p)' = InHand(p)
      BY <1>3, <1>4, <2>4 DEF Calm, InHandStays
    <3>2. InHand(p) # c
      BY <2>3, <3>1
    <3> QED  BY <1>1, <2>1, <3>1, <3>2
  <2>5. ASSUME NEW e \in Emitters, est'[e] = "write" PROVE file'[Current(e)'] = "torn"
    <3>1. Current(e)' = Current(e)
      BY <2>1 DEF Current
    <3>2. CASE e = f
      BY <2>1, <2>2, <2>5, <3>1, <3>2 DEF c
    <3>3. CASE e # f
      BY <1>6, <2>1, <2>2, <2>5, <3>1, <3>3 DEF Calm, WrittenIsTorn
    <3> QED  BY <3>2, <3>3
  <2>6. Unstored' /\ OneRow'
    BY <2>1 DEF Calm, Unstored, NotYet, OneRow
  <2>7. ASSUME NEW r \in Records, rows'[r] > 0, file'[r] # "none" PROVE Moving(r)'
    BY <1>5, <2>1, <2>2, <2>3, <2>7 DEF Calm, StoredIsMoving
  <2>8. InHandStays' /\ WrittenIsTorn' /\ StoredIsMoving'
    BY <2>4, <2>5, <2>7 DEF InHandStays, WrittenIsTorn, StoredIsMoving
  <2> QED  BY <1>4, <2>6, <2>8 DEF Calm
<1>14. CASE MirrorFile(f)
  <2>1. UNCHANGED <<file, rows>> /\ Advance(f)
    BY <1>14 DEF MirrorFile, warehouse
  <2> QED  BY <1>9, <1>10, <2>1
<1> QED  BY <1>11, <1>12, <1>13, <1>14 DEF Emit

LEMMA HandleKeepsCalm ==
  ASSUME TypeOK, Ahead, Behind, Calm, NEW p \in Reingests, Handle(p), UNCHANGED faults, faults = 0
  PROVE  Calm'
<1> DEFINE h == InHand(p)
<1>1. /\ rst \in [Reingests -> ReingestPc] /\ file \in [Records -> {"none", "torn", "whole"}]
      /\ rst[p] \notin Ended /\ \A r \in Records : rows[r] \in Nat
      /\ rst[p] \in {"insert", "move"} => h \in Records /\ file[h] = "whole"
  <2>1. rst[p] \in {"insert", "move"} => h \in Records
    BY InHandIsRecord DEF Behind
  <2>2. rst[p] \notin Ended
    BY DEF Handle, Read, InsertPending, Abort, Move, MoveFails, ArchiveObject, Finish, Ended
  <2> QED  BY <2>1, <2>2 DEF TypeOK, Calm, InHandStays
<1>2. \A q \in Reingests : q # p => rst[q] \in Ended
  BY <1>1 DEF Calm, OneActive
<1>3. UNCHANGED <<est, nth>> /\ \A q \in Reingests : q # p => rst'[q] = rst[q]
  BY <1>1 DEF Handle, Read, InsertPending, Abort, Move, MoveFails, ArchiveObject, Finish, emitters,
              Goto, NextFile
<1>4. OneActive'
  BY <1>2, <1>3 DEF OneActive
<1>5. ASSUME rst[p] # "move", NEW r \in Records, rows[r] > 0 PROVE file[r] = "none"
  BY <1>2, <1>5 DEF Calm, StoredIsMoving, Moving, Ended
<1>6. \A e \in Emitters : Current(e)' = Current(e) /\ \A i \in 1 .. Len(Batch[e]) : NotYet(e, i)' <=> NotYet(e, i)
  BY <1>3 DEF Current, NotYet
<1> HIDE DEF h
<1>7. ASSUME UNCHANGED <<file, rows>>, rst[p] # "move", rst'[p] # "move",
             rst'[p] = "insert" => file[InHand(p)'] = "whole"
      PROVE  Calm'
  <2>1. InHandStays'
    BY <1>2, <1>3, <1>7 DEF InHandStays, Ended
  <2>2. WrittenIsTorn' /\ Unstored' /\ OneRow'
    BY <1>3, <1>6, <1>7 DEF Calm, WrittenIsTorn, Unstored, OneRow
  <2>3. StoredIsMoving'
    BY <1>5, <1>7 DEF StoredIsMoving
  <2> QED  BY <1>4, <2>1, <2>2, <2>3 DEF Calm
<1>8. CASE Read(p)
  <2>1. CASE file[h] = "whole"
    <3>1. rst'[p] = "insert" /\ rst[p] = "read" /\ UNCHANGED <<file, rows, todo>>
      BY <1>1, <1>8, <2>1 DEF Read, Goto, warehouse, store, h
    <3>2. InHand(p)' = h
      BY <3>1 DEF InHand, h
    <3> QED  BY <1>7, <2>1, <3>1, <3>2
  <2>2. CASE file[h] # "whole"
    <3>1. rst'[p] = "read" /\ rst[p] = "read" /\ UNCHANGED <<file, rows>>
      BY <1>1, <1>8, <2>2 DEF Read, NextFile, Goto, warehouse, store, h
    <3> QED  BY <1>7, <3>1
  <2> QED  BY <2>1, <2>2
<1>9. CASE InsertPending(p)
  <2>1. rst[p] = "insert" /\ rst'[p] = "move" /\ UNCHANGED <<file, todo>> /\ Insert(h)
    BY <1>1, <1>9 DEF InsertPending, Goto, store, h
  <2>2. h \in Records /\ file[h] = "whole" /\ rows[h] = 0
    BY <1>1, <1>5, <2>1
  <2>3. rows'[h] = 1 /\ \A q \in Records : q # h => rows'[q] = rows[q]
    BY <2>1, <2>2, FirstRow
  <2>4. InHand(p)' = h /\ InHandStays'
    BY <1>2, <1>3, <2>1, <2>2 DEF InHandStays, InHand, Ended, h
  <2>5. WrittenIsTorn'
    BY <1>3, <1>6, <2>1 DEF Calm, WrittenIsTorn
  <2>6. ASSUME NEW e \in Emitters, NEW i \in 1 .. Len(Batch[e]), NotYet(e, i)
        PROVE  rows'[Batch[e][i]] = 0
    <3>1. Batch[e][i] \in Records /\ rows[Batch[e][i]] = 0
      BY <2>6, BatchIsSeq DEF Calm, Unstored
    <3>2. file[Batch[e][i]] # "whole"
      BY <2>6 DEF NotYet, Ahead, Calm, WrittenIsTorn, Current
    <3> QED  BY <2>2, <2>3, <3>1, <3>2
  <2>7. ASSUME NEW r \in Records, rows'[r] > 0, file'[r] # "none" PROVE Moving(r)'
    <3>1. r = h
      BY <1>5, <2>1, <2>3, <2>7
    <3> QED  BY <2>1, <2>4, <3>1 DEF Moving
  <2>8. Unstored' /\ StoredIsMoving' /\ OneRow'
    BY <1>6, <2>3, <2>6, <2>7 DEF Calm, Unstored, StoredIsMoving, OneRow
  <2> QED  BY <1>4, <2>4, <2>5, <2>8 DEF Calm
<1>10. CASE Abort(p) \/ ArchiveObject(p) \/ Finish(p)
  <2>1. rst[p] \in {"insert", "s3", "read"} /\ rst'[p] \in {"aborted", "read", "done"} /\ UNCHANGED <<file, rows>>
    BY <1>1, <1>10 DEF Abort, ArchiveObject, Finish, NextFile, Goto, warehouse, store
  <2> QED  BY <1>7, <2>1
<1>11. CASE Move(p)
  <2>1. /\ rst[p] = "move" /\ rst'[p] = "s3" /\ UNCHANGED rows
        /\ file' = [file EXCEPT ![h] = "none"]
    BY <1>1, <1>11 DEF Move, Moved, Goto, warehouse, h
  <2>2. h \in Records /\ file[h] = "whole"
    BY <1>1, <2>1
  <2>3. file'[h] = "none" /\ \A r \in Records : r # h => file'[r] = file[r]
    BY <1>1, <2>1, <2>2
  <2>4. InHandStays'
    BY <1>2, <1>3, <2>1 DEF InHandStays, Ended
  <2>5. ASSUME NEW e \in Emitters, est'[e] = "write" PROVE file'[Current(e)'] = "torn"
    <3>1. file[Current(e)] = "torn" /\ Current(e) \in Records
      BY <1>3, <2>5, CurrentIsRecord DEF Calm, WrittenIsTorn
    <3> QED  BY <1>6, <2>2, <2>3, <3>1
  <2>6. ASSUME NEW r \in Records, rows'[r] > 0, file'[r] # "none" PROVE FALSE
    <3>1. r # h /\ Moving(r)
      BY <2>1, <2>3, <2>6 DEF Calm, StoredIsMoving
    <3> QED  BY <1>2, <3>1 DEF Moving, Ended, h
  <2>7. WrittenIsTorn' /\ StoredIsMoving' /\ Unstored' /\ OneRow'
    BY <1>6, <2>1, <2>5, <2>6 DEF Calm, WrittenIsTorn, StoredIsMoving, Unstored, OneRow
  <2> QED  BY <1>4, <2>4, <2>7 DEF Calm
<1>12. CASE MoveFails(p)
  <2>1. rst[p] = "move" /\ file[h] # "whole"
    BY <1>12 DEF MoveFails, h
  <2> QED  BY <1>1, <2>1
<1> QED  BY <1>8, <1>9, <1>10, <1>11, <1>12 DEF Handle

\* Every kill, failure and overlap is counted; without one the directory stays calm.
LEMMA NextKeepsUndisturbed ==
  ASSUME TypeOK, Ahead, Behind, Undisturbed, [Next]_vars
  PROVE  Undisturbed'
<1> SUFFICES ASSUME faults' = 0 PROVE Calm'
  BY DEF Undisturbed
<1>1. faults \in Nat
  BY PerfAssumption DEF TypeOK
<1>2. ASSUME NEW f \in Emitters, Emit(f) PROVE Calm'
  <2>1. faults = 0
    BY <1>2 DEF Emit, RecordSoft, RecordDrift, RecordRaises, OpenFile, WriteFile, MirrorFile
  <2> QED  BY <1>2, <2>1, EmitKeepsCalm DEF Undisturbed
<1>3. ASSUME NEW p \in Reingests, Handle(p) PROVE Calm'
  <2>1. UNCHANGED faults
    BY <1>1, <1>3 DEF Handle, Read, InsertPending, Abort, Move, MoveFails, ArchiveObject, Finish
  <2> QED  BY <1>3, <2>1, HandleKeepsCalm DEF Undisturbed
<1>4. ASSUME NEW p \in Reingests, List(p) PROVE Calm'
  <2>1. faults = 0 /\ \A q \in Reingests : rst[q] \in Ended
    BY <1>1, <1>4 DEF List
  <2>2. Calm
    BY <2>1 DEF Undisturbed
  <2>3. /\ UNCHANGED <<file, rows, est, nth>>
        /\ rst' = [rst EXCEPT ![p] = IF order = <<>> THEN "done" ELSE "read"]
    BY <1>4 DEF List, Goto, warehouse, store, emitters
  <2>4. \A q \in Reingests : (q = p => rst'[q] \in {"done", "read"}) /\ (q # p => rst'[q] \in Ended)
    BY <2>1, <2>3 DEF TypeOK
  <2>5. OneActive' /\ InHandStays'
    BY <2>4 DEF OneActive, InHandStays, Ended
  <2>6. WrittenIsTorn' /\ Unstored' /\ OneRow'
    BY <2>2, <2>3 DEF Calm, WrittenIsTorn, Unstored, NotYet, Current, OneRow
  <2>7. \A r \in Records : ~Moving(r)
    BY <2>1 DEF Moving, Ended
  <2>8. StoredIsMoving'
    BY <2>2, <2>3, <2>7 DEF Calm, StoredIsMoving
  <2> QED  BY <2>5, <2>6, <2>8 DEF Calm
<1>5. CASE \/ \E e \in Emitters : KillEmitter(e)
           \/ \E p \in Reingests : AnswerLost(p) \/ KillReingest(p)
  BY <1>1, <1>5 DEF KillEmitter, AnswerLost, KillReingest
<1>6. CASE ChangeDb \/ UNCHANGED vars
  <2>1. UNCHANGED <<file, rows, est, nth, rst, todo, faults>>
    BY <1>6 DEF ChangeDb, vars, warehouse, store, emitters, reingests
  <2>2. Calm
    BY <2>1 DEF Undisturbed
  <2> QED
    BY <2>1, <2>2 DEF Calm, OneActive, InHandStays, WrittenIsTorn, Unstored, NotYet, StoredIsMoving,
                      Moving, OneRow, Current, InHand
<1> QED  BY <1>2, <1>3, <1>4, <1>5, <1>6 DEF Next

-----------------------------------------------------------------------------
(* The theorems.                                                           *)

LEMMA InitIInv == Init => IInv
<1> SUFFICES ASSUME Init PROVE IInv
  OBVIOUS
<1>1. \A e \in Emitters : Len(Batch[e]) \in Nat \ {0}
  BY BatchIsSeq
<1>2. TypeOK
  <2>1. \A e \in Emitters : nth[e] \in 1 .. Len(Batch[e])
    BY <1>1 DEF Init
  <2>2. \A c \in Counters : Zero[c] \in Nat
    BY DEF Zero
  <2>3. Zero \in [Counters -> Nat]
    BY DEF Zero
  <2> HIDE DEF Zero
  <2> QED  BY <2>1, <2>3, PerfAssumption DEF Init, TypeOK, EmitPc, ReingestPc
<1>3. Ahead
  BY BatchIsSeq DEF Init, Ahead
<1>4. Behind
  BY DEF Init, Behind
<1>5. NothingLostToDrift
  BY DEF Init, NothingLostToDrift, Passed
<1>6. Directory
  BY DEF Init, Directory, IsInjective, ToSet
<1>7. ASSUME NEW p \in Reingests PROVE ListingOf(p)
  <2>1. /\ listed[p] = {} /\ todo[p] = <<>> /\ count[p] = Zero /\ rst[p] = "idle"
    BY DEF Init
  <2>2. Zero.archived = 0 /\ Cardinality(Handled(p) \cap archive) = 0 /\ Handled(p) = {}
    <3>1. Handled(p) = {} /\ Handled(p) \cap archive = {}
      BY <2>1 DEF Handled
    <3> QED  BY <3>1, FS_EmptySet DEF Zero, Counters
  <2>3. IsInjective(todo[p]) /\ ToSet(todo[p]) = {}
    BY <2>1 DEF IsInjective, ToSet
  <2> QED  BY <2>1, <2>2, <2>3, FS_EmptySet DEF ListingOf
<1>8. Calm
  <2>1. \A e \in Emitters : \A i \in 1 .. Len(Batch[e]) : Batch[e][i] \in Records
    BY BatchIsSeq
  <2>2. OneActive /\ InHandStays /\ WrittenIsTorn
    BY DEF Init, OneActive, InHandStays, WrittenIsTorn, Ended
  <2>3. Unstored /\ StoredIsMoving /\ OneRow
    BY <2>1 DEF Init, Unstored, StoredIsMoving, OneRow
  <2> QED  BY <2>2, <2>3 DEF Calm
<1> QED  BY <1>2, <1>3, <1>4, <1>5, <1>6, <1>7, <1>8 DEF IInv, Listing, Undisturbed

\* The invariant holds whatever is killed, refused or migrated, and however many reingests
\* share the directory.
THEOREM Invariant == Spec => []IInv
<1>1. IInv /\ [Next]_vars => IInv'
  BY NextKeepsTypes, NextKeepsAhead, NextKeepsBehind, NextKeepsNothingLost, NextKeepsDirectory,
     NextKeepsListing, NextKeepsUndisturbed DEF IInv
<1> QED  BY InitIInv, <1>1, PTL DEF Spec

\* Every variable has its type.
THEOREM PerfTypeCorrect == Spec => []TypeOK
BY Invariant, PTL DEF IInv

\* What drift keeps from the database stays in the pending directory or reaches it later
\* (emit_perf_records, reingest_pending_perf_records).
THEOREM NothingLost == Spec => []NothingLostToDrift
BY Invariant, PTL DEF IInv

\* Every record is accounted for: none is lost on its way to the pending directory, none stored
\* twice unless something is killed, fails or overlaps (nothing makes the insert idempotent),
\* and exit status 0 of a reingest means what it says (reingest_pending_perf_records).
THEOREM Accounted == Spec => []RecordsAccounted
<1>1. ASSUME IInv PROVE RecordsAccounted
  <2>1. StoredOnce
    BY <1>1 DEF IInv, Undisturbed, Calm, OneRow, StoredOnce
  <2>2. ASSUME NEW p \in Reingests, rst[p] = "done", count[p].failed = 0
        PROVE  /\ \A r \in listed[p] : rows[r] > 0
               /\ count[p].archived = Cardinality(listed[p]) => listed[p] \subseteq archive
    <3>1. /\ todo[p] = <<>> /\ IsFiniteSet(listed[p])
          /\ \A r \in Handled(p) : rows[r] > 0
          /\ count[p].archived <= Cardinality(Handled(p) \cap archive)
      BY <1>1, <2>2 DEF IInv, Listing, ListingOf
    <3>2. Handled(p) = listed[p]
      BY <3>1 DEF Handled, ToSet
    <3>3. ASSUME count[p].archived = Cardinality(listed[p]) PROVE listed[p] \subseteq archive
      <4>1. PICK l, a : l = listed[p] /\ a = listed[p] \cap archive
        OBVIOUS
      <4>2. a \in SUBSET l /\ IsFiniteSet(l)
        BY <3>1, <4>1
      <4>3. /\ IsFiniteSet(a) /\ Cardinality(a) <= Cardinality(l)
            /\ Cardinality(a) = Cardinality(l) => a = l
        BY <4>2, FS_Subset
      <4>4. Cardinality(l) \in Nat /\ Cardinality(a) \in Nat /\ Cardinality(l) <= Cardinality(a)
        BY <3>1, <3>2, <3>3, <4>1, <4>2, <4>3, FS_CardinalityType
      <4>5. a = l
        BY <4>3, <4>4
      <4> QED  BY <4>1, <4>5
    <3> QED  BY <3>1, <3>2, <3>3
  <2>3. ExitZeroMeansStored
    BY <2>2 DEF ExitZeroMeansStored
  <2> QED  BY <1>1, <2>1, <2>3 DEF IInv, RecordsAccounted
<1> QED  BY Invariant, <1>1, PTL

\* A whole file, and its object, only go once the row is there (archive_pending_file).
THEOREM Kept == Spec => KeptUntilStored
<1> DEFINE Keeps ==
      \A r \in Records :
        /\ file[r] = "whole" /\ file'[r] # "whole" => r \in archive' /\ rows[r] > 0
        /\ r \in mirror["pending"] /\ r \notin mirror'["pending"] => r \in archive /\ rows[r] > 0
<1>1. IInv /\ [Next]_vars => [Keeps]_vars
  <2>1. SUFFICES ASSUME IInv, Next, NEW r \in Records
                 PROVE  /\ file[r] = "whole" /\ file'[r] # "whole" => r \in archive' /\ rows[r] > 0
                        /\ r \in mirror["pending"] /\ r \notin mirror'["pending"]
                             => r \in archive /\ rows[r] > 0
    OBVIOUS
  <2>2. /\ file \in [Records -> {"none", "torn", "whole"}]
        /\ mirror \in [{"pending", "archived"} -> SUBSET Records]
    BY <2>1 DEF IInv, TypeOK
  <2>3. ASSUME NEW e \in Emitters, OpenFile(e)
        PROVE  UNCHANGED mirror /\ (file[r] = "whole" => file'[r] = "whole")
    <3>1. file' = [file EXCEPT ![Current(e)] = "torn"] /\ UNCHANGED mirror /\ est[e] = "open"
      BY <2>3 DEF OpenFile
    <3>2. file[Current(e)] = "none"
      BY <2>1, <3>1, CurrentIsRecord DEF IInv, Ahead, Current
    <3> QED  BY <2>2, <3>1, <3>2
  <2>4. ASSUME NEW e \in Emitters, WriteFile(e) \/ MirrorFile(e)
        PROVE  (file[r] = "whole" => file'[r] = "whole") /\ mirror["pending"] \subseteq mirror'["pending"]
    BY <2>2, <2>4 DEF WriteFile, MirrorFile
  <2>5. ASSUME NEW p \in Reingests, Move(p)
        PROVE  UNCHANGED mirror /\ (file[r] = "whole" /\ file'[r] # "whole" => r \in archive' /\ rows[r] > 0)
    <3>1. /\ file' = [file EXCEPT ![InHand(p)] = "none"] /\ archive' = archive \cup {InHand(p)}
          /\ rst[p] = "move" /\ UNCHANGED mirror
      BY <2>5 DEF Move, Moved
    <3>2. rows[InHand(p)] > 0
      BY <2>1, <3>1 DEF IInv, Behind
    <3> QED  BY <2>2, <3>1, <3>2
  <2>6. ASSUME NEW p \in Reingests, ArchiveObject(p)
        PROVE  UNCHANGED file /\ (r \in mirror["pending"] /\ r \notin mirror'["pending"]
                                    => r \in archive /\ rows[r] > 0)
    <3>1. rst[p] = "s3" /\ UNCHANGED file /\ mirror["pending"] \ {InHand(p)} \subseteq mirror'["pending"]
      BY <2>6 DEF ArchiveObject
    <3>2. rows[InHand(p)] > 0 /\ InHand(p) \in archive
      BY <2>1, <3>1 DEF IInv, Behind
    <3> QED  BY <3>1, <3>2
  <2>7. CASE \/ ChangeDb
             \/ \E e \in Emitters : RecordSoft(e) \/ RecordDrift(e) \/ RecordRaises(e) \/ KillEmitter(e)
             \/ \E p \in Reingests :
                  \/ List(p) \/ Read(p) \/ InsertPending(p) \/ Abort(p) \/ AnswerLost(p)
                  \/ MoveFails(p) \/ Finish(p) \/ KillReingest(p)
    BY <2>7 DEF ChangeDb, RecordSoft, RecordDrift, RecordRaises, KillEmitter, List, Read, InsertPending,
                Abort, AnswerLost, MoveFails, Finish, KillReingest, store
  <2> QED
    BY <2>1, <2>3, <2>4, <2>5, <2>6, <2>7 DEF Next, Emit, Handle
<1> QED  BY Invariant, <1>1, PTL DEF Spec, KeptUntilStored
===========================================================================
