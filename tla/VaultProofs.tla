---------------------------- MODULE VaultProofs ----------------------------
(***************************************************************************)
(* Proofs about VaultVersions, for any number of requests, versions and    *)
(* retention settings and for every kind of fault, and then about          *)
(* BlobMigration, for every store, every history an older release may have *)
(* left, any number of restarts and with other replicas serving meanwhile. *)
(***************************************************************************)
EXTENDS BlobMigration, FiniteSetTheorems, SequenceTheorems, TLAPS

(* Ranks count the indices: distinct indices have distinct ranks, and the  *)
(* ranks are exactly 1 up to the number of indices.                        *)
LEMMA RankIsBijective ==
    ASSUME NEW I, IsFiniteSet(I), I \subseteq Nat
    PROVE  /\ \A i \in I : Rank(I, i) \in 1..Cardinality(I)
           /\ \A i, j \in I : Rank(I, i) = Rank(I, j) => i = j
           /\ \A n \in 1..Cardinality(I) : \E i \in I : Rank(I, i) = n
<1> DEFINE Upto(i) == {j \in I : j <= i}
<1>1. \A i \in I : /\ IsFiniteSet(Upto(i))
                   /\ Cardinality(Upto(i)) \in Nat
                   /\ Cardinality(Upto(i)) <= Cardinality(I)
  <2> TAKE i \in I
  <2>1. Upto(i) \in SUBSET I
    OBVIOUS
  <2> HIDE DEF Upto
  <2> QED  BY <2>1, FS_Subset, FS_CardinalityType
<1>2. \A i \in I : Cardinality(Upto(i)) # 0
  <2> TAKE i \in I
  <2>1. i \in Upto(i)
    OBVIOUS
  <2> HIDE DEF Upto
  <2> QED  BY <2>1, <1>1, FS_EmptySet
<1>3. Cardinality(I) \in Nat
  BY FS_CardinalityType
<1>4. \A i \in I : Rank(I, i) \in 1..Cardinality(I)
  BY <1>1, <1>2, <1>3 DEF Rank
<1>5. \A i, j \in I : i < j => Rank(I, i) # Rank(I, j)
  <2> SUFFICES ASSUME NEW i \in I, NEW j \in I, i < j
               PROVE  Rank(I, i) # Rank(I, j)
    OBVIOUS
  <2>0. i \in Nat /\ j \in Nat /\ \A k \in I : k \in Nat
    OBVIOUS
  <2>1. Upto(i) \in SUBSET Upto(j) /\ j \in Upto(j) /\ j \notin Upto(i)
    <3>1. \A k \in I : k <= i => k <= j
      BY <2>0
    <3>2. j <= j /\ ~(j <= i)
      BY <2>0
    <3> QED  BY <3>1, <3>2
  <2>2. IsFiniteSet(Upto(j))
    BY <1>1
  <2>3. Cardinality(Upto(i)) # Cardinality(Upto(j))
    <3> HIDE DEF Upto
    <3> QED  BY <2>1, <2>2, FS_Subset
  <2> QED  BY <2>3 DEF Rank
<1>6. \A i, j \in I : Rank(I, i) = Rank(I, j) => i = j
  <2> SUFFICES ASSUME NEW i \in I, NEW j \in I, Rank(I, i) = Rank(I, j)
               PROVE  i = j
    OBVIOUS
  <2>1. i \in Nat /\ j \in Nat
    OBVIOUS
  <2>2. ~(i < j) /\ ~(j < i)
    BY <1>5
  <2> QED  BY <2>1, <2>2
<1> DEFINE f == [i \in I |-> Rank(I, i)]
<1>7. f \in Injection(I, 1..Cardinality(I))
  BY <1>4, <1>6 DEF Injection, IsInjective
<1>8. IsFiniteSet(1..Cardinality(I)) /\ Cardinality(1..Cardinality(I)) = Cardinality(I)
  BY <1>3, FS_Interval
<1>9. f \in Surjection(I, 1..Cardinality(I))
  <2> HIDE DEF f
  <2> QED  BY <1>7, <1>8, FS_Injection
<1>10. \A n \in 1..Cardinality(I) : \E i \in I : Rank(I, i) = n
  BY <1>9 DEF Surjection
<1> QED  BY <1>4, <1>6, <1>10

(* At(h, I) is a sequence of exactly the elements of h at the indices I. *)
LEMMA AtProperties ==
    ASSUME NEW S, NEW h \in Seq(S), NEW I \in SUBSET DOMAIN h
    PROVE  /\ At(h, I) \in Seq(S)
           /\ \A n \in DOMAIN At(h, I) : \E i \in I : At(h, I)[n] = h[i]
           /\ \A i \in I : \E n \in DOMAIN At(h, I) : At(h, I)[n] = h[i]
<1>1. DOMAIN h = 1..Len(h) /\ Len(h) \in Nat /\ h \in [1..Len(h) -> S]
  BY LenProperties
<1>2. IsFiniteSet(I) /\ Cardinality(I) \in Nat /\ I \subseteq Nat
  <2>1. IsFiniteSet(DOMAIN h)
    BY <1>1, FS_Interval
  <2>2. IsFiniteSet(I)
    BY <2>1, FS_Subset
  <2> QED  BY <1>1, <2>2, FS_CardinalityType
<1> DEFINE pick(n) == CHOOSE i \in I : Rank(I, i) = n
<1>3. \A n \in 1..Cardinality(I) : pick(n) \in I /\ Rank(I, pick(n)) = n
  BY <1>2, RankIsBijective
<1>4. \A i \in I : Rank(I, i) \in 1..Cardinality(I) /\ pick(Rank(I, i)) = i
  <2> TAKE i \in I
  <2>1. Rank(I, i) \in 1..Cardinality(I)
    BY <1>2, RankIsBijective
  <2>2. pick(Rank(I, i)) \in I /\ Rank(I, pick(Rank(I, i))) = Rank(I, i)
    BY <1>3, <2>1
  <2>3. \A a, b \in I : Rank(I, a) = Rank(I, b) => a = b
    BY <1>2, RankIsBijective
  <2> HIDE DEF pick
  <2> QED  BY <2>1, <2>2, <2>3
<1>5. At(h, I) = [n \in 1..Cardinality(I) |-> h[pick(n)]]
  BY DEF At
<1> HIDE DEF pick
<1>6. \A n \in 1..Cardinality(I) : h[pick(n)] \in S
  BY <1>1, <1>3
<1>7. At(h, I) \in Seq(S)
  BY <1>2, <1>5, <1>6
<1>8. DOMAIN At(h, I) = 1..Cardinality(I)
  BY <1>5
<1> QED  BY <1>3, <1>4, <1>5, <1>7, <1>8

(* A non-empty set of indices has a least element: the one of rank 1. *)
LEMMA LeastIndex ==
    ASSUME NEW T, IsFiniteSet(T), T \subseteq Nat, T # {}
    PROVE  \E x \in T : \A y \in T : ~(y < x)
<1>1. Cardinality(T) \in Nat /\ Cardinality(T) # 0
  BY FS_CardinalityType, FS_EmptySet
<1>2. PICK x \in T : Rank(T, x) = 1
  <2>1. \A n \in 1..Cardinality(T) : \E i \in T : Rank(T, i) = n
    BY RankIsBijective
  <2>2. 1 \in 1..Cardinality(T)
    BY <1>1
  <2> QED  BY <2>1, <2>2
<1> DEFINE U == {j \in T : j <= x}
<1>3. IsFiniteSet(U)
  <2>1. U \in SUBSET T
    OBVIOUS
  <2> HIDE DEF U
  <2> QED  BY <2>1, FS_Subset
<1>4. PICK z : U = {z}
  <2>1. Cardinality(U) = 1
    BY <1>2 DEF Rank
  <2> HIDE DEF U
  <2> QED  BY <2>1, <1>3, FS_Singleton
<1>5. \A y \in T : ~(y < x)
  <2> SUFFICES ASSUME NEW y \in T, y < x
               PROVE  FALSE
    OBVIOUS
  <2>1. x \in Nat /\ y \in Nat
    OBVIOUS
  <2>2. x \in U /\ y \in U
    BY <2>1
  <2>3. x = y
    <3> HIDE DEF U
    <3> QED  BY <1>4, <2>2
  <2> QED  BY <2>1, <2>3
<1> QED  BY <1>5

-----------------------------------------------------------------------------
(* What the helpers on version_history return. *)

(* Normalizing keeps only snapshots of the history, and one for every id. *)
LEMMA NormalizeProperties ==
    ASSUME NEW h \in Seq(Snapshot)
    PROVE  LET g == NormalizeVersionHistory(h)
           IN  /\ g \in Seq(Snapshot)
               /\ \A n \in DOMAIN g : \E i \in DOMAIN h : g[n] = h[i]
               /\ \A i \in DOMAIN h :
                    \E n \in DOMAIN g : g[n].version_id = h[i].version_id
<1> DEFINE I == {i \in DOMAIN h :
                   \A j \in DOMAIN h : j < i => h[j].version_id # h[i].version_id}
           g == NormalizeVersionHistory(h)
<1>1. g = At(h, I)
  BY DEF NormalizeVersionHistory
<1>2. I \in SUBSET DOMAIN h
  OBVIOUS
<1>3. DOMAIN h = 1..Len(h) /\ Len(h) \in Nat
  BY LenProperties
<1>4. \A i \in DOMAIN h : \E j \in I : h[j].version_id = h[i].version_id
  <2> TAKE i \in DOMAIN h
  <2> DEFINE T == {j \in DOMAIN h : h[j].version_id = h[i].version_id}
  <2>1. IsFiniteSet(DOMAIN h)
    BY <1>3, FS_Interval
  <2>2. T \in SUBSET DOMAIN h /\ T # {} /\ T \subseteq Nat
    BY <1>3
  <2>3. PICK x \in T : \A y \in T : ~(y < x)
    <3> HIDE DEF T
    <3>1. IsFiniteSet(T)
      BY <2>1, <2>2, FS_Subset
    <3> QED  BY <3>1, <2>2, LeastIndex
  <2>4. x \in I
    BY <2>3
  <2> QED  BY <2>3, <2>4
<1> HIDE DEF I, g
<1>5. /\ g \in Seq(Snapshot)
      /\ \A n \in DOMAIN g : \E i \in I : g[n] = h[i]
      /\ \A i \in I : \E n \in DOMAIN g : g[n] = h[i]
  BY <1>1, <1>2, AtProperties
<1>6. \A n \in DOMAIN g : \E i \in DOMAIN h : g[n] = h[i]
  BY <1>2, <1>5
<1>7. \A i \in DOMAIN h : \E n \in DOMAIN g : g[n].version_id = h[i].version_id
  BY <1>4, <1>5
<1> QED  BY <1>5, <1>6, <1>7 DEF g

(* Filtering a history drops the snapshots of one id and no other. *)
LEMMA WithoutProperties ==
    ASSUME NEW h \in Seq(Snapshot), NEW v
    PROVE  LET g == Without(h, v)
           IN  /\ g \in Seq(Snapshot)
               /\ \A n \in DOMAIN g : \E i \in DOMAIN h : g[n] = h[i]
               /\ \A i \in DOMAIN h : h[i].version_id # v =>
                    \E n \in DOMAIN g : g[n] = h[i]
<1> DEFINE I == {i \in DOMAIN h : h[i].version_id # v}
           g == Without(h, v)
<1>1. g = At(h, I)
  BY DEF Without
<1>2. I \in SUBSET DOMAIN h
  OBVIOUS
<1>3. \A i \in DOMAIN h : h[i].version_id # v => i \in I
  OBVIOUS
<1> HIDE DEF I, g
<1>4. /\ g \in Seq(Snapshot)
      /\ \A n \in DOMAIN g : \E i \in I : g[n] = h[i]
      /\ \A i \in I : \E n \in DOMAIN g : g[n] = h[i]
  BY <1>1, <1>2, AtProperties
<1> QED  BY <1>2, <1>3, <1>4 DEF g

(* Pruning keeps only snapshots of the history, and always its last one. *)
LEMMA PruneProperties ==
    ASSUME NEW h \in Seq(Snapshot), h # <<>>, NEW k \in Nat
    PROVE  LET g == PruneHistory(h, k)
           IN  /\ g \in Seq(Snapshot)
               /\ \A n \in DOMAIN g : \E i \in DOMAIN h : g[n] = h[i]
               /\ \E n \in DOMAIN g : g[n] = h[Len(h)]
<1>1. DOMAIN h = 1..Len(h) /\ Len(h) \in Nat /\ Len(h) # 0
  BY LenProperties, EmptySeq
<1>2. Keep(k) \in Nat /\ Keep(k) # 0
  BY DEF Keep
<1>3. CASE Len(h) <= Keep(k)
  BY <1>1, <1>3 DEF PruneHistory
<1>4. CASE ~(Len(h) <= Keep(k))
  <2> DEFINE m == Len(h) - Keep(k) + 1
             g == SubSeq(h, m, Len(h))
  <2>1. m \in Int /\ 1 <= m /\ m <= Len(h) /\ Len(h) - m + 1 = Keep(k)
    BY <1>1, <1>2, <1>4
  <2>2. \A i \in m..Len(h) : h[i] \in Snapshot
    BY <1>1, <2>1, ElementOfSeq
  <2> HIDE DEF m
  <2>3. /\ g \in Seq(Snapshot)
        /\ Len(g) = Keep(k)
        /\ \A i \in 1..Len(h) - m + 1 : g[i] = h[m + i - 1]
    BY <1>1, <2>1, <2>2, SubSeqProperties
  <2>4. DOMAIN g = 1..Keep(k)
    BY <2>3, LenProperties
  <2> HIDE DEF g
  <2>5. \A n \in DOMAIN g : m + n - 1 \in DOMAIN h /\ g[n] = h[m + n - 1]
    BY <1>1, <1>2, <2>1, <2>3, <2>4
  <2>6. Keep(k) \in DOMAIN g /\ m + Keep(k) - 1 = Len(h)
    BY <1>1, <1>2, <2>1, <2>4
  <2>7. g[Keep(k)] = h[Len(h)]
    BY <2>5, <2>6
  <2>8. \A n \in DOMAIN g : \E i \in DOMAIN h : g[n] = h[i]
    BY <2>5
  <2>9. \E n \in DOMAIN g : g[n] = h[Len(h)]
    BY <2>6, <2>7
  <2> QED  BY <1>4, <2>3, <2>8, <2>9 DEF PruneHistory, g, m
<1> QED  BY <1>3, <1>4

(* Normalizing leaves every id once. *)
LEMMA NormalizeDistinct ==
    ASSUME NEW h \in Seq(Snapshot)
    PROVE  LET g == NormalizeVersionHistory(h)
           IN  \A a, b \in DOMAIN g : g[a].version_id = g[b].version_id => a = b
<1> DEFINE I == {i \in DOMAIN h :
                   \A j \in DOMAIN h : j < i => h[j].version_id # h[i].version_id}
           g == NormalizeVersionHistory(h)
           pick(n) == CHOOSE i \in I : Rank(I, i) = n
<1>1. g = [n \in 1..Cardinality(I) |-> h[pick(n)]]
  BY DEF NormalizeVersionHistory, At
<1>2. DOMAIN h = 1..Len(h) /\ Len(h) \in Nat
  BY LenProperties
<1>3. I \in SUBSET DOMAIN h /\ I \subseteq Nat /\ IsFiniteSet(I)
  <2>1. IsFiniteSet(DOMAIN h)
    BY <1>2, FS_Interval
  <2>2. I \in SUBSET DOMAIN h
    OBVIOUS
  <2> HIDE DEF I
  <2> QED  BY <1>2, <2>1, <2>2, FS_Subset
<1>4. \A i, j \in I : h[i].version_id = h[j].version_id => i = j
  <2> SUFFICES ASSUME NEW i \in I, NEW j \in I, h[i].version_id = h[j].version_id
               PROVE  i = j
    OBVIOUS
  <2>1. ~(i < j) /\ ~(j < i)
    OBVIOUS
  <2>2. i \in Nat /\ j \in Nat
    BY <1>3
  <2> QED  BY <2>1, <2>2
<1> HIDE DEF I
<1>5. \A n \in 1..Cardinality(I) : pick(n) \in I /\ Rank(I, pick(n)) = n
  BY <1>3, RankIsBijective
<1> HIDE DEF pick, g
<1> SUFFICES ASSUME NEW a \in DOMAIN g, NEW b \in DOMAIN g,
                    g[a].version_id = g[b].version_id
             PROVE  a = b
  BY DEF g
<1>6. a \in 1..Cardinality(I) /\ b \in 1..Cardinality(I)
  BY <1>1
<1>7. g[a] = h[pick(a)] /\ g[b] = h[pick(b)]
  BY <1>1, <1>6
<1>8. pick(a) = pick(b)
  BY <1>4, <1>5, <1>6, <1>7
<1> QED  BY <1>5, <1>6, <1>8

(* Pruning keeps the newest snapshots: none at a place that is returned. *)
LEMMA PruneKeepsNewest ==
    ASSUME NEW h \in Seq(Snapshot), h # <<>>, NEW k \in Nat
    PROVE  LET g == PruneHistory(h, k)
           IN  \A n \in DOMAIN g :
                 \E i \in DOMAIN h : g[n] = h[i] /\ (Len(h) <= Keep(k) \/ Len(h) < i + Keep(k))
<1>1. DOMAIN h = 1..Len(h) /\ Len(h) \in Nat /\ Len(h) # 0
  BY LenProperties, EmptySeq
<1>2. Keep(k) \in Nat /\ Keep(k) # 0
  BY DEF Keep
<1>3. CASE Len(h) <= Keep(k)
  BY <1>1, <1>3 DEF PruneHistory
<1>4. CASE ~(Len(h) <= Keep(k))
  <2> DEFINE m == Len(h) - Keep(k) + 1
             g == SubSeq(h, m, Len(h))
  <2>1. m \in Int /\ 1 <= m /\ m <= Len(h) /\ Len(h) - m + 1 = Keep(k)
    BY <1>1, <1>2, <1>4
  <2>2. \A i \in m..Len(h) : h[i] \in Snapshot
    BY <1>1, <2>1, ElementOfSeq
  <2> HIDE DEF m
  <2>3. /\ g \in Seq(Snapshot)
        /\ Len(g) = Keep(k)
        /\ \A i \in 1..Len(h) - m + 1 : g[i] = h[m + i - 1]
    BY <1>1, <2>1, <2>2, SubSeqProperties
  <2>4. DOMAIN g = 1..Keep(k)
    BY <2>3, LenProperties
  <2> HIDE DEF g
  <2>5. \A n \in DOMAIN g : /\ m + n - 1 \in DOMAIN h
                            /\ g[n] = h[m + n - 1]
                            /\ Len(h) < (m + n - 1) + Keep(k)
    BY <1>1, <1>2, <2>1, <2>3, <2>4
  <2>6. \A n \in DOMAIN g : \E i \in DOMAIN h :
          g[n] = h[i] /\ (Len(h) <= Keep(k) \/ Len(h) < i + Keep(k))
    BY <2>5
  <2> QED  BY <1>4, <2>6 DEF PruneHistory, g, m
<1> QED  BY <1>3, <1>4

-----------------------------------------------------------------------------
(* The inductive invariant. *)

(* What holds of the row, and of every copy of it that a request keeps: a  *)
(* snapshot's key is its own version's, or absent for a legacy version;    *)
(* the current version is listed; a legacy version that is current is the  *)
(* one at the base key.                                                    *)
SnapshotOK(s) ==
    \/ s.object_key = VersionKey(s.version_id)
    \/ s.object_key = None /\ s.version_id \in LegacyIds

RowOK(m) ==
    /\ CurrentListedIn(m)
    /\ m.current_version_id \in LegacyIds => m.current_version_id = LegacyCurrent
    /\ \A i \in DOMAIN m.version_history : SnapshotOK(m.version_history[i])

(* What a request's program counter says about the copy it keeps. *)
RequestOK(q) ==
    /\ RowOK(q.seen)
    /\ q.pc \in {"put", "head", "save", "rollback",
                 "delete_object", "delete_write"} => q.vid \in Versions
    /\ q.pc \in {"put", "head", "save"} => q.vid \notin LegacyIds
    /\ q.pc \in {"delete_object", "delete_write"}
         => q.vid # q.seen.current_version_id
    /\ q.pc \in {"download", "delete_object"}
         => ResolveBlobKey(q.seen, q.vid) # None
    /\ q.pc = "delete_write" => q.seen.current_version_id # None

(* No client is given a URL to upload a legacy version. *)
LegacyOK ==
    /\ LegacyIds \subseteq minted
    /\ pending \cap LegacyIds = {}

RequestsOK == \A r \in Requests : RequestOK(req[r])

VersionsInv == TypeOK /\ RowOK(row) /\ RequestsOK /\ LegacyOK

-----------------------------------------------------------------------------
(* Both writers of the history turn a good copy into a good row. *)

(* A row that has no version yet is a good row. *)
LEMMA EmptyRowOK == EmptyRow \in Row /\ RowOK(EmptyRow)
<1>1. EmptyRow \in Row
  BY VersionsAssumption, EmptySeq DEF EmptyRow, Row
<1>2. RowOK(EmptyRow)
  BY VersionsAssumption DEF EmptyRow, RowOK, CurrentListedIn
<1> QED  BY <1>1, <1>2

(* A save: the pushed snapshot is the last one, and pruning never takes it. *)
LEMMA SavePreservesRowOK ==
    ASSUME NEW m \in Row, RowOK(m), NEW v \in Versions, v \notin LegacyIds,
           NEW n \in MaxVersionsValues
    PROVE  LET g == PruneHistory(Pushed(m, v), n)
           IN  /\ g \in Seq(Snapshot)
               /\ v \in Ids(g)
               /\ \A i \in DOMAIN g : SnapshotOK(g[i])
<1> DEFINE h == NormalizeVersionHistory(m.version_history)
           s == [version_id |-> v, object_key |-> VersionKey(v)]
           p == Pushed(m, v)
           g == PruneHistory(p, n)
<1>1. m.version_history \in Seq(Snapshot)
  BY DEF Row
<1>2. /\ h \in Seq(Snapshot)
      /\ \A i \in DOMAIN h :
            \E j \in DOMAIN m.version_history : h[i] = m.version_history[j]
  BY <1>1, NormalizeProperties
<1>3. \A i \in DOMAIN h : SnapshotOK(h[i])
  BY <1>2 DEF RowOK
<1>4. s \in Snapshot /\ SnapshotOK(s)
  BY DEF Snapshot, SnapshotOK, Keys
<1>5. p = Append(h, s)
  BY DEF Pushed
<1> HIDE DEF h, s, p, g
<1>6. /\ p \in Seq(Snapshot) /\ p # <<>> /\ Len(p) = Len(h) + 1
      /\ \A i \in 1..Len(h) : p[i] = h[i]
      /\ p[Len(p)] = s
  BY <1>2, <1>4, <1>5, AppendProperties
<1>7. \A i \in DOMAIN p : SnapshotOK(p[i])
  <2>1. DOMAIN p = 1..Len(p) /\ DOMAIN h = 1..Len(h) /\ Len(h) \in Nat
    BY <1>2, <1>6, LenProperties
  <2> TAKE i \in DOMAIN p
  <2>2. i \in 1..Len(h) \/ i = Len(p)
    BY <1>6, <2>1
  <2> QED  BY <1>3, <1>4, <1>6, <2>1, <2>2
<1>8. n \in Nat
  BY VersionsAssumption
<1>9. /\ g \in Seq(Snapshot)
      /\ \A i \in DOMAIN g : \E j \in DOMAIN p : g[i] = p[j]
      /\ \E i \in DOMAIN g : g[i] = p[Len(p)]
  BY <1>6, <1>8, PruneProperties DEF g
<1>10. v \in Ids(g)
  <2>1. s.version_id = v
    BY DEF s
  <2> QED  BY <1>6, <1>9, <2>1 DEF Ids
<1>11. \A i \in DOMAIN g : SnapshotOK(g[i])
  BY <1>7, <1>9
<1> QED  BY <1>9, <1>10, <1>11 DEF g, p

(* A deletion: what it filters out is not the current version. *)
LEMMA DeletePreservesRowOK ==
    ASSUME NEW m \in Row, RowOK(m), NEW v \in Versions,
           m.current_version_id # None, v # m.current_version_id
    PROVE  LET g == Without(NormalizeVersionHistory(m.version_history), v)
           IN  /\ g \in Seq(Snapshot)
               /\ m.current_version_id \in Ids(g) \cup {LegacyCurrent}
               /\ \A i \in DOMAIN g : SnapshotOK(g[i])
<1> DEFINE h == NormalizeVersionHistory(m.version_history)
           g == Without(h, v)
           c == m.current_version_id
<1>1. m.version_history \in Seq(Snapshot)
  BY DEF Row
<1>2. /\ h \in Seq(Snapshot)
      /\ \A i \in DOMAIN h :
            \E j \in DOMAIN m.version_history : h[i] = m.version_history[j]
      /\ \A j \in DOMAIN m.version_history :
            \E i \in DOMAIN h : h[i].version_id = m.version_history[j].version_id
  BY <1>1, NormalizeProperties
<1>3. c \in Ids(m.version_history) \cup {LegacyCurrent}
  BY DEF RowOK, CurrentListedIn
<1> HIDE DEF h, g
<1>4. /\ g \in Seq(Snapshot)
      /\ \A n \in DOMAIN g : \E i \in DOMAIN h : g[n] = h[i]
      /\ \A i \in DOMAIN h : h[i].version_id # v =>
            \E n \in DOMAIN g : g[n] = h[i]
  <2>1. h \in Seq(Snapshot)
    BY <1>2
  <2> QED  BY ONLY <2>1, WithoutProperties DEF g
<1>5. c \in Ids(g) \cup {LegacyCurrent}
  <2> SUFFICES ASSUME c # LegacyCurrent
               PROVE  c \in Ids(g)
    OBVIOUS
  <2>1. PICK j \in DOMAIN m.version_history : m.version_history[j].version_id = c
    BY <1>3 DEF Ids
  <2>2. PICK i \in DOMAIN h : h[i].version_id = c
    BY <1>2, <2>1
  <2>3. PICK n \in DOMAIN g : g[n] = h[i]
    BY <1>4, <2>2
  <2> QED  BY <2>2, <2>3 DEF Ids
<1>6. \A i \in DOMAIN g : SnapshotOK(g[i])
  BY <1>2, <1>4 DEF RowOK
<1> QED  BY <1>4, <1>5, <1>6 DEF g, h

-----------------------------------------------------------------------------
(* How a step changes the requests: only one of them, to a good one. *)

(* A step that puts a good request in one slot keeps all of them good. *)
LEMMA OneRequestChanges ==
    ASSUME req \in [Requests -> Request], RequestsOK,
           NEW r \in Requests, NEW q \in Request, RequestOK(q),
           req' = [req EXCEPT ![r] = q]
    PROVE  req' \in [Requests -> Request] /\ RequestsOK'
<1>1. req' \in [Requests -> Request]
  OBVIOUS
<1>2. \A p \in Requests : RequestOK(req'[p])
  BY DEF RequestsOK
<1> QED  BY <1>1, <1>2 DEF RequestsOK

(* A free slot is a good request. *)
LEMMA IdleOK == Idle \in Request /\ RequestOK(Idle)
<1>1. Idle \in Request
  BY EmptyRowOK DEF Idle, Request, Pcs
<1>2. RequestOK(Idle)
  BY EmptyRowOK DEF Idle, RequestOK
<1> QED  BY <1>1, <1>2

(* Ending a request keeps all of them good. *)
LEMMA FinishOK ==
    ASSUME req \in [Requests -> Request], RequestsOK,
           NEW r \in Requests, Finish(r)
    PROVE  req' \in [Requests -> Request] /\ RequestsOK'
BY IdleOK, OneRequestChanges DEF Finish

(* Moving a request's program counter to a place its data fits is good. *)
LEMMA GotoOK ==
    ASSUME req \in [Requests -> Request], RequestsOK,
           NEW r \in Requests, NEW pc \in Pcs, Goto(r, pc),
           RequestOK([req[r] EXCEPT !.pc = pc])
    PROVE  req' \in [Requests -> Request] /\ RequestsOK'
<1> DEFINE q == [req[r] EXCEPT !.pc = pc]
<1>1. q \in Request
  BY DEF Request
<1>2. req' = [req EXCEPT ![r] = q]
  BY DEF Goto
<1>3. RequestOK(q)
  OBVIOUS
<1> HIDE DEF q
<1> QED  BY <1>1, <1>2, <1>3, OneRequestChanges

(* Beginning a request with a good copy of the row is good. *)
LEMMA FindOwnedOK ==
    ASSUME req \in [Requests -> Request], RequestsOK,
           NEW r \in Requests, NEW pc \in Pcs, NEW m \in Row,
           NEW v \in Versions \cup {None}, FindOwned(r, pc, m, v),
           RequestOK([pc |-> pc, seen |-> m, vid |-> v, keys |-> {}])
    PROVE  req' \in [Requests -> Request] /\ RequestsOK'
<1> DEFINE q == [pc |-> pc, seen |-> m, vid |-> v, keys |-> {}]
<1>1. q \in Request
  BY DEF Request
<1>2. req' = [req EXCEPT ![r] = q]
  BY DEF FindOwned
<1>3. RequestOK(q)
  OBVIOUS
<1> HIDE DEF q
<1> QED  BY <1>1, <1>2, <1>3, OneRequestChanges

(* How a save and a deletion change the row, whether or not it still exists. *)
LEMMA SaveRowOK ==
    ASSUME row \in Row, RowOK(row), NEW q \in Request, RequestOK(q),
           q.pc = "save",
           UpdateMindMapUpload(q.vid,
             PruneHistory(Pushed(q.seen, q.vid), q.seen.max_versions))
    PROVE  row' \in Row /\ RowOK(row')
<1> DEFINE g == PruneHistory(Pushed(q.seen, q.vid), q.seen.max_versions)
<1>1. /\ q.seen \in Row /\ RowOK(q.seen)
      /\ q.vid \in Versions /\ q.vid \notin LegacyIds
      /\ q.seen.max_versions \in MaxVersionsValues
  BY DEF RequestOK, Request, Row
<1>2. /\ g \in Seq(Snapshot)
      /\ q.vid \in Ids(g)
      /\ \A i \in DOMAIN g : SnapshotOK(g[i])
  BY <1>1, SavePreservesRowOK
<1> HIDE DEF g
<1>3. row' = IF life = "present"
             THEN [row EXCEPT !.current_version_id = q.vid,
                              !.version_history = g]
             ELSE row
  BY DEF UpdateMindMapUpload, g
<1>4. CASE life = "present"
  <2>1. row' \in Row
    BY <1>1, <1>2, <1>3, <1>4 DEF Row
  <2>2. row'.current_version_id = q.vid /\ row'.version_history = g
    BY <1>3, <1>4 DEF Row
  <2>3. q.vid # None
    BY <1>1, VersionsAssumption
  <2> QED  BY <1>1, <1>2, <2>1, <2>2, <2>3 DEF RowOK, CurrentListedIn
<1>5. CASE life # "present"
  BY <1>3, <1>5
<1> QED  BY <1>4, <1>5

(* A deletion leaves a good row, or the row of a deleted vault alone. *)
LEMMA DeleteRowOK ==
    ASSUME row \in Row, RowOK(row), NEW q \in Request, RequestOK(q),
           q.pc = "delete_write",
           UpdateMindMapUpload(q.seen.current_version_id,
             Without(NormalizeVersionHistory(q.seen.version_history), q.vid))
    PROVE  row' \in Row /\ RowOK(row')
<1> DEFINE g == Without(NormalizeVersionHistory(q.seen.version_history), q.vid)
           c == q.seen.current_version_id
<1>1. /\ q.seen \in Row /\ RowOK(q.seen)
      /\ q.vid \in Versions /\ q.vid # c
      /\ c # None /\ c \in Versions
  BY DEF RequestOK, Request, Row
<1>2. /\ g \in Seq(Snapshot)
      /\ c \in Ids(g) \cup {LegacyCurrent}
      /\ \A i \in DOMAIN g : SnapshotOK(g[i])
  BY <1>1, DeletePreservesRowOK
<1>3. c \in LegacyIds => c = LegacyCurrent
  BY <1>1 DEF RowOK
<1> HIDE DEF g
<1>4. row' = IF life = "present"
             THEN [row EXCEPT !.current_version_id = c,
                              !.version_history = g]
             ELSE row
  BY DEF UpdateMindMapUpload, g
<1>5. CASE life = "present"
  <2>1. row' \in Row
    BY <1>1, <1>2, <1>4, <1>5 DEF Row
  <2>2. row'.current_version_id = c /\ row'.version_history = g
    BY <1>4, <1>5 DEF Row
  <2> QED  BY <1>1, <1>2, <1>3, <2>1, <2>2 DEF RowOK, CurrentListedIn
<1>6. CASE life # "present"
  BY <1>4, <1>6
<1> QED  BY <1>5, <1>6

-----------------------------------------------------------------------------
(* The invariant holds initially, for a new vault and for a legacy one. *)

(* The rows that older releases left are good rows. *)
LEMMA LegacyRowsOK == \A m \in LegacyRows : m \in Row /\ RowOK(m)
<1>1. \A v \in LegacyIds : Legacy(v) \in Snapshot /\ SnapshotOK(Legacy(v))
  BY VersionsAssumption DEF Legacy, Snapshot, SnapshotOK
<1>2. \A h \in LegacyHistories :
        h \in Seq(Snapshot) /\ \A i \in DOMAIN h : SnapshotOK(h[i])
  <2> TAKE h \in LegacyHistories
  <2>1. CASE h = <<>>
    BY <2>1
  <2>2. CASE h = <<Legacy(LegacyCurrent)>>
    BY <1>1, <2>2, VersionsAssumption
  <2>3. CASE \E v \in LegacyIds : h = <<Legacy(v), Legacy(LegacyCurrent)>>
    BY <1>1, <2>3, VersionsAssumption
  <2> QED  BY <2>1, <2>2, <2>3 DEF LegacyHistories
<1>3. LegacyCurrent \in Versions /\ LegacyCurrent # None
  BY VersionsAssumption
<1> TAKE m \in LegacyRows
<1>4. CASE m = EmptyRow
  BY <1>4, EmptyRowOK
<1>5. CASE \E h \in LegacyHistories :
             m = [EmptyRow EXCEPT !.current_version_id = LegacyCurrent,
                                  !.version_history = h]
  <2>1. PICK h \in LegacyHistories :
             m = [EmptyRow EXCEPT !.current_version_id = LegacyCurrent,
                                  !.version_history = h]
    BY <1>5
  <2>2. m = [current_version_id |-> LegacyCurrent, version_history |-> h,
             max_versions |-> DefaultMaxVersions]
    BY <2>1 DEF EmptyRow
  <2>3. m \in Row
    BY <1>2, <1>3, <2>2, VersionsAssumption DEF Row
  <2>4. RowOK(m)
    BY <1>2, <1>3, <2>2 DEF RowOK, CurrentListedIn
  <2> QED  BY <2>3, <2>4
<1> QED  BY <1>4, <1>5 DEF LegacyRows

(* Every initial state satisfies the invariant. *)
LEMMA InitEstablishesInv == Init => VersionsInv
<1> SUFFICES ASSUME Init PROVE VersionsInv
  OBVIOUS
<1>1. row \in Row /\ RowOK(row)
  BY EmptyRowOK, LegacyRowsOK DEF Init
<1>2. req \in [Requests -> Request] /\ RequestsOK
  BY IdleOK DEF Init, RequestsOK
<1>3. objects \subseteq Keys
  BY DEF Init, Keys
<1>4. ghost \in [lastSave : Versions \cup {None}, dropped : SUBSET Versions,
                 doomed : BOOLEAN]
  BY <1>1 DEF Init, Row
<1>5. TypeOK
  BY <1>1, <1>2, <1>3, <1>4, VersionsAssumption DEF Init, TypeOK
<1>6. LegacyOK
  BY VersionsAssumption, BaseKeyAssumption DEF Init, LegacyOK
<1> QED  BY <1>1, <1>2, <1>5, <1>6 DEF VersionsInv

-----------------------------------------------------------------------------
(* Every step keeps it.  First the steps that begin a request. *)

(* A step that begins a request keeps the invariant. *)
LEMMA BeginKeepsInv ==
    ASSUME VersionsInv, scenario \in Scenarios, NEW r \in Requests, Begin(r)
    PROVE  VersionsInv'
<1> USE DEF VersionsInv
<1>0. /\ row \in Row /\ RowOK(row) /\ RequestsOK /\ LegacyOK
      /\ req \in [Requests -> Request] /\ req[r] \in Request /\ RequestOK(req[r])
  BY DEF TypeOK, RequestsOK
<1>1. CASE CreateMindMap(r)
  <2>1. RequestOK([req[r] EXCEPT !.pc = "create"])
    BY <1>0 DEF RequestOK, Request
  <2>2. req' \in [Requests -> Request] /\ RequestsOK'
    BY <1>0, <1>1, <2>1, GotoOK DEF CreateMindMap, Pcs
  <2> QED  BY <1>1, <2>2, EmptyRowOK DEF CreateMindMap, TypeOK, LegacyOK
<1>2. CASE GetUploadUrl(r)
  <2>1. RequestsOK'
    BY <1>0, <1>2 DEF GetUploadUrl, RequestsOK
  <2> QED  BY <1>2, <2>1 DEF GetUploadUrl, Mint, TypeOK, LegacyOK
<1>3. CASE UploadBlob(r)
  <2>1. PICK v \in Versions : Mint(v) /\ FindOwned(r, "put", row, v)
    BY <1>3 DEF UploadBlob
  <2>2. RequestOK([pc |-> "put", seen |-> row, vid |-> v, keys |-> {}])
    BY <1>0, <2>1 DEF RequestOK, Mint, LegacyOK
  <2>3. req' \in [Requests -> Request] /\ RequestsOK'
    BY <1>0, <2>1, <2>2, FindOwnedOK DEF Pcs
  <2> QED  BY <1>3, <2>1, <2>3 DEF UploadBlob, Mint, TypeOK, LegacyOK
<1>4. CASE ConfirmUpload(r)
  <2>1. PICK v \in Versions \ LegacyIds :
          FindOwned(r, "head", row, v) /\ pending' = pending \ {v}
    BY <1>0, <1>4 DEF ConfirmUpload, TypeOK, LegacyOK
  <2>2. RequestOK([pc |-> "head", seen |-> row, vid |-> v, keys |-> {}])
    BY <1>0 DEF RequestOK
  <2>3. req' \in [Requests -> Request] /\ RequestsOK'
    BY <1>0, <2>1, <2>2, FindOwnedOK DEF Pcs
  <2> QED  BY <1>4, <2>1, <2>3 DEF ConfirmUpload, TypeOK, LegacyOK
<1>5. CASE DownloadBlob(r)
  <2>1. PICK w \in Versions \cup {None} :
            ResolveBlobKey(row, w) # None /\ FindOwned(r, "download", row, w)
    BY <1>5 DEF DownloadBlob
  <2>2. RequestOK([pc |-> "download", seen |-> row, vid |-> w, keys |-> {}])
    BY <1>0, <2>1 DEF RequestOK
  <2>3. req' \in [Requests -> Request] /\ RequestsOK'
    BY <1>0, <2>1, <2>2, FindOwnedOK DEF Pcs
  <2> QED  BY <1>5, <2>3 DEF DownloadBlob, TypeOK, LegacyOK
<1>6. CASE DeleteVaultVersion(r)
  <2>1. PICK v \in Versions :
          /\ v # row.current_version_id
          /\ \/ /\ ResolveBlobKey(row, v) # None
                /\ FindOwned(r, "delete_object", row, v)
             \/ /\ ResolveBlobKey(row, v) = None
                /\ row.current_version_id # None
                /\ FindOwned(r, "delete_write", row, v)
          /\ ghost' = [ghost EXCEPT !.dropped = @ \cup {v}]
    BY <1>6 DEF DeleteVaultVersion
  <2>2. req' \in [Requests -> Request] /\ RequestsOK'
    <3>1. CASE ResolveBlobKey(row, v) # None /\ FindOwned(r, "delete_object", row, v)
      <4>1. RequestOK([pc |-> "delete_object", seen |-> row, vid |-> v, keys |-> {}])
        BY <1>0, <2>1, <3>1 DEF RequestOK
      <4> QED  BY <1>0, <3>1, <4>1, FindOwnedOK DEF Pcs
    <3>2. CASE row.current_version_id # None /\ FindOwned(r, "delete_write", row, v)
      <4>1. RequestOK([pc |-> "delete_write", seen |-> row, vid |-> v, keys |-> {}])
        BY <1>0, <2>1, <3>2 DEF RequestOK
      <4> QED  BY <1>0, <3>2, <4>1, FindOwnedOK DEF Pcs
    <3> QED  BY <2>1, <3>1, <3>2
  <2> QED  BY <1>6, <2>1, <2>2 DEF DeleteVaultVersion, TypeOK, LegacyOK
<1>7. CASE UpdateVaultMeta(r)
  <2>1. PICK n \in MaxVersionsValues :
            FindOwned(r, "meta", [EmptyRow EXCEPT !.max_versions = n], None)
    BY <1>7, VersionsAssumption DEF UpdateVaultMeta
  <2> DEFINE m == [EmptyRow EXCEPT !.max_versions = n]
  <2>2. m \in Row
    BY EmptyRowOK DEF Row
  <2>3. RequestOK([pc |-> "meta", seen |-> m, vid |-> None, keys |-> {}])
    <3>1. RowOK(m)
      BY EmptyRowOK DEF RowOK, CurrentListedIn, EmptyRow
    <3> HIDE DEF m
    <3> QED  BY <3>1 DEF RequestOK
  <2> HIDE DEF m
  <2>4. req' \in [Requests -> Request] /\ RequestsOK'
    BY <1>0, <2>1, <2>2, <2>3, FindOwnedOK DEF Pcs, m
  <2> QED  BY <1>7, <2>4 DEF UpdateVaultMeta, TypeOK, LegacyOK
<1>8. CASE DeleteMindMap(r)
  <2>1. RequestOK([pc |-> "list", seen |-> EmptyRow, vid |-> None, keys |-> {}])
    BY EmptyRowOK DEF RequestOK
  <2>2. req' \in [Requests -> Request] /\ RequestsOK'
    BY <1>0, <1>8, <2>1, EmptyRowOK, FindOwnedOK DEF DeleteMindMap, Pcs
  <2> QED  BY <1>8, <2>2 DEF DeleteMindMap, TypeOK, LegacyOK
<1> QED  BY <1>1, <1>2, <1>3, <1>4, <1>5, <1>6, <1>7, <1>8 DEF Begin

(* Then the steps of a request in flight. *)

(* A later step of a request keeps the invariant. *)
LEMMA ContinueKeepsInv ==
    ASSUME VersionsInv, NEW r \in Requests, Continue(r)
    PROVE  VersionsInv'
<1> USE DEF VersionsInv
<1>0. /\ row \in Row /\ RowOK(row) /\ RequestsOK /\ LegacyOK
      /\ req \in [Requests -> Request] /\ req[r] \in Request /\ RequestOK(req[r])
  BY DEF TypeOK, RequestsOK
<1>1. CASE Finish(r) /\ UNCHANGED <<row, cleanup, ghost>>
             /\ life' \in {"present", "deleted", life}
             /\ (\/ UNCHANGED <<objects, minted, pending>>
                 \/ UNCHANGED objects /\ \E v \in Versions :
                      Mint(v) /\ pending' = pending \cup {v}
                 \/ UNCHANGED <<minted, pending>> /\ objects' \subseteq objects)
  (* Most last steps: the row stays, and no new object appears. *)
  <2>1. req' \in [Requests -> Request] /\ RequestsOK'
    BY <1>0, <1>1, FinishOK
  <2> QED  BY <1>0, <1>1, <2>1 DEF TypeOK, LegacyOK, Mint
<1>2. CASE CreateUrl(r) \/ CreateUndo(r) \/ HeadObjectFails(r) \/ RollBackSave(r)
           \/ GetObject(r) \/ DeleteVersionObjectFails(r)
           \/ DeleteListedKeyFails(r) \/ DeleteAttachmentsFails(r) \/ DeleteRow(r)
  BY <1>1, <1>2 DEF CreateUrl, CreateUndo, HeadObjectFails, RollBackSave, GetObject,
     DeleteVersionObjectFails, DeleteListedKeyFails, DeleteAttachmentsFails, DeleteRow
<1>3. CASE CreateUrlFails(r)
  <2>1. RequestOK([req[r] EXCEPT !.pc = "create_undo"])
    BY <1>0 DEF RequestOK, Request
  <2>2. req' \in [Requests -> Request] /\ RequestsOK'
    BY <1>0, <1>3, <2>1, GotoOK DEF CreateUrlFails, Pcs
  <2> QED  BY <1>3, <2>2 DEF CreateUrlFails, TypeOK, LegacyOK
<1>4. CASE PutObject(r)
  <2>1. req[r].vid \in Versions /\ req[r].vid \notin LegacyIds
    BY <1>0, <1>4 DEF PutObject, Doing, RequestOK
  <2>2. RequestOK([req[r] EXCEPT !.pc = "save"])
    BY <1>0, <2>1 DEF RequestOK, Request
  <2>3. req' \in [Requests -> Request] /\ RequestsOK'
    BY <1>0, <1>4, <2>2, GotoOK DEF PutObject, Pcs
  <2>4. objects' \subseteq Keys
    BY <1>4, <2>1 DEF PutObject, TypeOK, LegacyOK, Keys, VersionKey
  <2> QED  BY <1>4, <2>3, <2>4 DEF PutObject, TypeOK, LegacyOK
<1>5. CASE PutObjectFails(r)
  <2>1. req[r].vid \in Versions /\ req[r].vid \notin LegacyIds
    BY <1>0, <1>5 DEF PutObjectFails, Doing, RequestOK
  <2>2. req' \in [Requests -> Request] /\ RequestsOK'
    BY <1>0, <1>5, FinishOK DEF PutObjectFails
  <2>3. objects' \subseteq Keys
    BY <1>5, <2>1 DEF PutObjectFails, TypeOK, LegacyOK, Keys, VersionKey
  <2> QED  BY <1>5, <2>2, <2>3 DEF PutObjectFails, TypeOK, LegacyOK
<1>6. CASE HeadObject(r)
  <2>1. req[r].vid \in Versions /\ req[r].vid \notin LegacyIds
    BY <1>0, <1>6 DEF HeadObject, Doing, RequestOK
  <2>2. RequestOK([req[r] EXCEPT !.pc = "save"])
    BY <1>0, <2>1 DEF RequestOK, Request
  <2>3. req' \in [Requests -> Request] /\ RequestsOK'
    BY <1>0, <1>6, <2>2, GotoOK DEF HeadObject, Pcs
  <2> QED  BY <1>6, <2>3 DEF HeadObject, TypeOK, LegacyOK
<1>7. CASE SaveRow(r)
  <2>1. req[r].pc = "save" /\ req[r].vid \in Versions
    BY <1>0, <1>7 DEF SaveRow, Doing, RequestOK
  <2>2. row' \in Row /\ RowOK(row')
    BY <1>0, <1>7, <2>1, SaveRowOK DEF SaveRow, SavedHistory
  <2>3. req' \in [Requests -> Request] /\ RequestsOK'
    BY <1>0, <1>7, FinishOK DEF SaveRow
  <2>4. cleanup' \subseteq Keys
    <3> DEFINE p == Pushed(req[r].seen, req[r].vid)
               n == req[r].seen.max_versions
    <3>1. p \in Seq(Snapshot)
      <4>1. NormalizeVersionHistory(req[r].seen.version_history) \in Seq(Snapshot)
        BY <1>0, NormalizeProperties DEF Request, Row
      <4>2. [version_id |-> req[r].vid, object_key |-> VersionKey(req[r].vid)] \in Snapshot
        BY <2>1 DEF Snapshot, Keys
      <4> QED  BY <4>1, <4>2, AppendProperties DEF Pushed
    <3> HIDE DEF p, n
    <3>2. \A i \in DOMAIN p : p[i].object_key \in Keys \cup {None}
      <4>1. \A i \in DOMAIN p : p[i] \in Snapshot
        BY <3>1, LenProperties, ElementOfSeq
      <4> QED  BY <4>1 DEF Snapshot
    <3>3. PrunedKeys(p, n) \subseteq Keys
      BY <3>2 DEF PrunedKeys
    <3> QED  BY <1>7, <3>3 DEF SaveRow, TypeOK, p, n
  <2>5. ghost' \in [lastSave : Versions \cup {None}, dropped : SUBSET Versions,
                    doomed : BOOLEAN]
    BY <1>7, <2>1 DEF SaveRow, TypeOK
  <2> QED  BY <1>7, <2>2, <2>3, <2>4, <2>5 DEF SaveRow, TypeOK, LegacyOK
<1>8. CASE SaveRowFails(r)
  <2>1. req[r].pc = "save" /\ req[r].vid \in Versions
    BY <1>0, <1>8 DEF SaveRowFails, Doing, RequestOK
  <2>2. row' \in Row /\ RowOK(row')
    BY <1>0, <1>8, <2>1, SaveRowOK DEF SaveRowFails, SavedHistory
  <2>3. RequestOK([req[r] EXCEPT !.pc = "rollback"])
    BY <1>0, <2>1 DEF RequestOK, Request
  <2>4. req' \in [Requests -> Request] /\ RequestsOK'
    BY <1>0, <1>8, <2>3, GotoOK DEF SaveRowFails, Pcs
  <2>5. ghost' \in [lastSave : Versions \cup {None}, dropped : SUBSET Versions,
                    doomed : BOOLEAN]
    BY <1>8, <2>1 DEF SaveRowFails, TypeOK
  <2> QED  BY <1>8, <2>2, <2>4, <2>5 DEF SaveRowFails, TypeOK, LegacyOK
<1>9. CASE DeleteVersionObject(r)
  <2>1. CASE req[r].seen.current_version_id = None
    BY <1>1, <1>9, <2>1 DEF DeleteVersionObject
  <2>2. CASE req[r].seen.current_version_id # None
    <3>1. RequestOK([req[r] EXCEPT !.pc = "delete_write"])
      BY <1>0, <1>9, <2>2 DEF DeleteVersionObject, Doing, RequestOK, Request
    <3>2. req' \in [Requests -> Request] /\ RequestsOK'
      BY <1>0, <1>9, <2>2, <3>1, GotoOK DEF DeleteVersionObject, Pcs
    <3> QED  BY <1>9, <3>2 DEF DeleteVersionObject, TypeOK, LegacyOK
  <2> QED  BY <2>1, <2>2
<1>10. CASE DeleteVersionRow(r)
  <2>1. req[r].pc = "delete_write"
    BY <1>10 DEF DeleteVersionRow, Doing
  <2>2. row' \in Row /\ RowOK(row')
    BY <1>0, <1>10, <2>1, DeleteRowOK DEF DeleteVersionRow
  <2>3. req' \in [Requests -> Request] /\ RequestsOK'
    BY <1>0, <1>10, FinishOK DEF DeleteVersionRow
  <2> QED  BY <1>10, <2>2, <2>3 DEF DeleteVersionRow, TypeOK, LegacyOK
<1>11. CASE UpdateMindMapMeta(r)
  <2>1. req[r].seen.max_versions \in MaxVersionsValues
    BY <1>0 DEF Request, Row
  <2>2. row' \in Row /\ RowOK(row')
    BY <1>0, <1>11, <2>1 DEF UpdateMindMapMeta, Row, RowOK, CurrentListedIn
  <2>3. req' \in [Requests -> Request] /\ RequestsOK'
    BY <1>0, <1>11, FinishOK DEF UpdateMindMapMeta
  <2> QED  BY <1>11, <2>2, <2>3 DEF UpdateMindMapMeta, TypeOK, LegacyOK
<1>12. CASE ListVersionKeys(r)
  <2>1. PICK listed \in {objects, {}} :
          req' = [req EXCEPT ![r].pc = "delete_keys",
                             ![r].keys = listed \cup {BaseKey}]
    BY <1>12 DEF ListVersionKeys
  <2> DEFINE q == [req[r] EXCEPT !.pc = "delete_keys", !.keys = listed \cup {BaseKey}]
  <2>2. listed \cup {BaseKey} \in SUBSET Keys
    BY <2>1 DEF TypeOK, Keys
  <2>3. q \in Request
    BY <1>0, <2>2 DEF Request, Pcs
  <2>4. RequestOK(q)
    BY <1>0 DEF RequestOK, Request
  <2>5. req' = [req EXCEPT ![r] = q]
    BY <2>1
  <2> HIDE DEF q
  <2>6. req' \in [Requests -> Request] /\ RequestsOK'
    BY <1>0, <2>3, <2>4, <2>5, OneRequestChanges
  <2> QED  BY <1>12, <2>6 DEF ListVersionKeys, TypeOK, LegacyOK
<1>13. CASE DeleteListedKey(r)
  <2>1. PICK k \in req[r].keys :
         /\ objects' = objects \ {k}
         /\ req' = [req EXCEPT
              ![r].keys = @ \ {k},
              ![r].pc = IF req[r].keys = {k} THEN "delete_row" ELSE @]
    BY <1>13 DEF DeleteListedKey
  <2> DEFINE q == [req[r] EXCEPT
                     !.keys = @ \ {k},
                     !.pc = IF req[r].keys = {k} THEN "delete_row" ELSE @]
  <2>2. q \in Request
    BY <1>0 DEF Request, Pcs
  <2>3. RequestOK(q)
    BY <1>0, <1>13 DEF RequestOK, Request, DeleteListedKey, Doing
  <2>4. req' = [req EXCEPT ![r] = q]
    BY <2>1
  <2> HIDE DEF q
  <2>5. req' \in [Requests -> Request] /\ RequestsOK'
    BY <1>0, <2>2, <2>3, <2>4, OneRequestChanges
  <2> QED  BY <1>13, <2>1, <2>5 DEF DeleteListedKey, TypeOK, LegacyOK
<1> QED  BY <1>2, <1>3, <1>4, <1>5, <1>6, <1>7, <1>8, <1>9, <1>10, <1>11,
            <1>12, <1>13 DEF Continue

(* Every step, crashes and the background task included, keeps it. *)
LEMMA NextKeepsInv ==
    VersionsInv /\ scenario \in Scenarios /\ [Next]_vars
      => VersionsInv'
<1> SUFFICES ASSUME VersionsInv, scenario \in Scenarios, [Next]_vars
             PROVE  VersionsInv'
  OBVIOUS
<1> USE DEF VersionsInv
<1>0. req \in [Requests -> Request]
  BY DEF TypeOK
<1>1. ASSUME NEW r \in Requests, Begin(r) PROVE VersionsInv'
  BY <1>1, BeginKeepsInv
<1>2. ASSUME NEW r \in Requests, Continue(r) PROVE VersionsInv'
  BY <1>2, ContinueKeepsInv
<1>3. ASSUME NEW r \in Requests, Cancel(r) PROVE VersionsInv'
  <2>1. req' \in [Requests -> Request] /\ RequestsOK'
    BY <1>0, <1>3, FinishOK DEF Cancel
  <2> QED  BY <1>3, <2>1 DEF Cancel, TypeOK, LegacyOK
<1>4. ASSUME NEW v \in Versions, ClientPut(v) PROVE VersionsInv'
  <2>1. RequestsOK'
    BY <1>4 DEF ClientPut, RequestsOK
  <2>2. v \notin LegacyIds
    BY <1>4 DEF ClientPut, LegacyOK
  <2>3. objects' \subseteq Keys
    BY <1>4, <2>2 DEF ClientPut, TypeOK, LegacyOK, Keys, VersionKey
  <2> QED  BY <1>4, <2>1, <2>3 DEF ClientPut, TypeOK, LegacyOK
<1>5. ASSUME NEW k \in Keys, CleanupObject(k) PROVE VersionsInv'
  <2>1. RequestsOK'
    BY <1>5 DEF CleanupObject, RequestsOK
  <2> QED  BY <1>5, <2>1 DEF CleanupObject, TypeOK, LegacyOK
<1>6. CASE ServerCrash
  <2>1. req' \in [Requests -> Request] /\ RequestsOK'
    BY <1>6, IdleOK DEF ServerCrash, RequestsOK
  <2> QED  BY <1>6, <2>1 DEF ServerCrash, TypeOK, LegacyOK
<1>7. CASE UNCHANGED vars
  <2>1. RequestsOK'
    BY <1>7 DEF vars, RequestsOK
  <2> QED  BY <1>7, <2>1 DEF vars, TypeOK, LegacyOK
<1>8. scenario.requests \subseteq Requests
  BY VersionsAssumption
<1> QED  BY <1>1, <1>2, <1>3, <1>4, <1>5, <1>6, <1>7, <1>8 DEF Next

(* Every reachable state satisfies the invariant. *)
THEOREM VersionsInvariant == Spec => []VersionsInv
<1>1. Init => scenario \in Scenarios
  BY DEF Init
<1>2. scenario \in Scenarios /\ [Next]_vars => (scenario \in Scenarios)'
  BY DEF Next, vars
<1> QED  BY <1>1, <1>2, InitEstablishesInv, NextKeepsInv, PTL DEF Spec

-----------------------------------------------------------------------------
(* The theorems about the code. *)

(* The row, the store and the requests in flight keep their shape. *)
THEOREM TypeCorrect == Spec => []TypeOK
<1>1. VersionsInv => TypeOK
  BY DEF VersionsInv
<1> QED  BY <1>1, VersionsInvariant, PTL

(* Whatever uploads, confirmations, deletions, failures and crashes        *)
(* interleave, update_mind_map_upload never leaves a current version that  *)
(* the history does not list.                                              *)
THEOREM CurrentAlwaysListed == Spec => []CurrentIsListed
<1>1. VersionsInv => CurrentIsListed
  BY DEF VersionsInv, RowOK, CurrentIsListed
<1> QED  BY <1>1, VersionsInvariant, PTL

(* A good copy of the row resolves a version to its own key or to none. *)
LEMMA ResolvesToOwnKey ==
    ASSUME NEW m \in Row, RowOK(m), NEW v \in Versions \cup {None},
           ResolveBlobKey(m, v) # None
    PROVE  ServesOnly(ResolveBlobKey(m, v), Wanted(m, v))
<1> DEFINE h == NormalizeVersionHistory(m.version_history)
           w == Wanted(m, v)
           own == KeysListed(h, w) \ {None}
           k == ResolveBlobKey(m, v)
<1>0. m.version_history \in Seq(Snapshot)
  BY DEF Row
<1>1. /\ \A i \in DOMAIN h :
            \E j \in DOMAIN m.version_history : h[i] = m.version_history[j]
      /\ \A j \in DOMAIN m.version_history :
            \E i \in DOMAIN h : h[i].version_id = m.version_history[j].version_id
  BY <1>0, NormalizeProperties
<1>2. \A i \in DOMAIN h : SnapshotOK(h[i])
  BY <1>1 DEF RowOK
<1>3. k = IF w # None /\ own # {} THEN CHOOSE x \in own : TRUE
          ELSE IF w = m.current_version_id THEN BaseKey ELSE None
  BY DEF ResolveBlobKey
<1> HIDE DEF h, w, k
<1>4. CASE w # None /\ own # {}
  <2>1. k \in own
    BY <1>3, <1>4
  <2>2. PICK i \in DOMAIN h : h[i].version_id = w /\ k = h[i].object_key /\ k # None
    BY <2>1 DEF KeysListed
  <2>3. k = VersionKey(w)
    BY <1>2, <2>2 DEF SnapshotOK
  <2> QED  BY <1>4, <2>3 DEF ServesOnly, k, w
<1>5. CASE ~(w # None /\ own # {})
  <2>1. k = BaseKey /\ w = m.current_version_id
    BY <1>3, <1>5 DEF k
  <2>2. w # None => w = LegacyCurrent
    <3> SUFFICES ASSUME w # None, w # LegacyCurrent
                 PROVE  FALSE
      OBVIOUS
    <3>1. w \in Ids(m.version_history)
      BY <2>1 DEF RowOK, CurrentListedIn
    <3>2. PICK j \in DOMAIN m.version_history : m.version_history[j].version_id = w
      BY <3>1 DEF Ids
    <3>3. PICK i \in DOMAIN h : h[i].version_id = w
      BY <1>1, <3>2
    <3>4. w \notin LegacyIds
      BY <2>1 DEF RowOK
    <3>5. h[i].object_key = VersionKey(w)
      BY <1>2, <3>3, <3>4 DEF SnapshotOK
    <3>6. VersionKey(w) # None
      <4>1. w \in Versions
        BY <2>1 DEF Row
      <4> QED  BY <4>1, BaseKeyAssumption DEF Keys
    <3>7. VersionKey(w) \in own
      BY <3>3, <3>5, <3>6 DEF KeysListed
    <3> QED  BY <1>5, <3>7
  <2> QED  BY <2>1, <2>2 DEF ServesOnly, k, w
<1> QED  BY <1>4, <1>5

(* A download never answers with another version's bytes, however far the  *)
(* row has moved on since the handler read it.                             *)
THEOREM DownloadsServeWanted == Spec => []DownloadServesWanted
<1>1. VersionsInv => DownloadServesWanted
  <2> SUFFICES ASSUME VersionsInv, NEW r \in Requests, Doing(r, "download")
               PROVE  ServesOnly(ResolveBlobKey(req[r].seen, req[r].vid),
                                 Wanted(req[r].seen, req[r].vid))
    BY DEF DownloadServesWanted
  <2>1. req[r] \in Request /\ RequestOK(req[r])
    BY DEF VersionsInv, TypeOK, RequestsOK
  <2>2. /\ req[r].seen \in Row /\ RowOK(req[r].seen)
        /\ req[r].vid \in Versions \cup {None}
        /\ ResolveBlobKey(req[r].seen, req[r].vid) # None
    BY <2>1 DEF Request, RequestOK, Doing
  <2> QED  BY <2>2, ResolvesToOwnKey
<1> QED  BY <1>1, VersionsInvariant, PTL

-----------------------------------------------------------------------------
(* One request at a time: what the history lists can be loaded, and the    *)
(* last save stays current.                                                *)

(* The snapshots of the row are of versions that have been confirmed, and  *)
(* no task is about to delete one; what nobody asked to delete is stored.  *)
ListedOK ==
    \A i \in DOMAIN row.version_history :
        LET s == row.version_history[i]
        IN  /\ s.version_id \in minted \ pending
            /\ s.version_id \in LegacyIds => s.object_key = None
            /\ VersionKey(s.version_id) \notin cleanup
            /\ s.object_key # None /\ s.version_id \notin ghost.dropped
                 /\ ~ghost.doomed => s.object_key \in objects

(* The current version is the last one saved, and its bytes are there: at  *)
(* its own key, or at the base key for one an older release left.          *)
CurrentOK ==
    /\ row.current_version_id = ghost.lastSave
    /\ ~ghost.doomed =>
         /\ row.current_version_id \in LegacyIds => BaseKey \in objects
         /\ row.current_version_id \notin LegacyIds \cup {None}
              => VersionKey(row.current_version_id) \in objects

(* The background task deletes keys of versions whose upload is over. *)
CleanupOK ==
    \A k \in cleanup : \E v \in minted \ pending : k = VersionKey(v)

(* What the one request in flight knows: the row is as it read it, the     *)
(* version it saves is listed nowhere and nobody else's to delete.         *)
SerialRequest(q) ==
    /\ q.pc \in {"put", "head", "save", "delete_object", "delete_write"}
         => q.seen = row
    /\ q.pc \in {"put", "head", "save", "rollback"} =>
         /\ q.vid \in minted \ pending
         /\ q.vid \notin Ids(row.version_history)
         /\ VersionKey(q.vid) \notin cleanup
    /\ q.pc = "save" => VersionKey(q.vid) \in objects
    /\ q.pc \in {"delete_object", "delete_write"} => q.vid \in ghost.dropped
    /\ q.pc \in {"list", "delete_keys", "delete_row"} => ghost.doomed

OneInFlight == \A r \in Requests : r \notin scenario.requests => req[r] = Idle

SerialOK ==
    /\ OneInFlight
    /\ \A r \in Requests : SerialRequest(req[r])
    /\ pending \subseteq minted
    /\ ListedOK
    /\ CurrentOK
    /\ CleanupOK
    /\ life = "absent" => row = EmptyRow /\ \A r \in Requests : req[r] = Idle

SerialInv == Orderly /\ life # "deleted" => SerialOK

(* Keys of different versions differ, and none is absent or the base key. *)
LEMMA KeysDiffer ==
    /\ \A v, w : VersionKey(v) = VersionKey(w) => v = w
    /\ \A v \in Versions : VersionKey(v) # None /\ VersionKey(v) # BaseKey
<1>1. \A v, w : VersionKey(v) = VersionKey(w) => v = w
  BY DEF VersionKey
<1>2. \A v \in Versions : VersionKey(v) # None /\ VersionKey(v) # BaseKey
  BY BaseKeyAssumption DEF Keys
<1> QED  BY <1>1, <1>2

(* A save of a version the row does not list: the new history holds that   *)
(* version and snapshots of the old one, and the keys it gives up are of   *)
(* versions it no longer lists.                                            *)
LEMMA SaveKeepsWhatItLists ==
    ASSUME NEW m \in Row, RowOK(m), NEW v \in Versions, v \notin LegacyIds,
           v \notin Ids(m.version_history), NEW n \in MaxVersionsValues
    PROVE  LET p == Pushed(m, v)
               g == PruneHistory(p, n)
           IN  /\ \A i \in DOMAIN g :
                    \/ g[i] = [version_id |-> v, object_key |-> VersionKey(v)]
                    \/ \E j \in DOMAIN m.version_history : g[i] = m.version_history[j]
               /\ \A k \in PrunedKeys(p, n) :
                    \E w \in Ids(m.version_history) \cup {v} : k = VersionKey(w)
               /\ \A i \in DOMAIN g : VersionKey(g[i].version_id) \notin PrunedKeys(p, n)
<1> DEFINE h == NormalizeVersionHistory(m.version_history)
           s == [version_id |-> v, object_key |-> VersionKey(v)]
           p == Pushed(m, v)
           g == PruneHistory(p, n)
           K == PrunedKeys(p, n)
<1>1. m.version_history \in Seq(Snapshot) /\ n \in Nat
  BY VersionsAssumption DEF Row
<1>2. /\ h \in Seq(Snapshot)
      /\ \A i \in DOMAIN h :
            \E j \in DOMAIN m.version_history : h[i] = m.version_history[j]
      /\ \A a, b \in DOMAIN h : h[a].version_id = h[b].version_id => a = b
  BY <1>1, NormalizeProperties, NormalizeDistinct
<1>3. s \in Snapshot /\ s.version_id = v /\ s.object_key = VersionKey(v)
  BY DEF Snapshot, Keys
<1>4. p = Append(h, s)
  BY DEF Pushed
<1> HIDE DEF h, s, p, g
<1>5. /\ p \in Seq(Snapshot) /\ p # <<>> /\ Len(p) = Len(h) + 1
      /\ \A i \in 1..Len(h) : p[i] = h[i]
      /\ p[Len(p)] = s
  BY <1>2, <1>3, <1>4, AppendProperties
<1>6. DOMAIN p = 1..Len(p) /\ DOMAIN h = 1..Len(h) /\ Len(h) \in Nat
  BY <1>2, <1>5, LenProperties
<1>7. \A i \in DOMAIN p :
        \/ i = Len(p) /\ p[i] = s
        \/ i \in DOMAIN h /\ p[i] = h[i]
  <2> TAKE i \in DOMAIN p
  <2>1. i \in 1..Len(h) \/ i = Len(p)
    BY <1>5, <1>6
  <2> QED  BY <1>5, <1>6, <2>1
<1>8. \A i \in DOMAIN p :
        \/ p[i] = s
        \/ \E j \in DOMAIN m.version_history : p[i] = m.version_history[j]
  BY <1>2, <1>7
<1>9. \A i \in DOMAIN p : SnapshotOK(p[i])
  BY <1>3, <1>8 DEF RowOK, SnapshotOK
<1>10. \A a, b \in DOMAIN p : p[a].version_id = p[b].version_id => a = b
  <2>1. \A i \in DOMAIN h : h[i].version_id # v
    BY <1>2 DEF Ids
  <2> SUFFICES ASSUME NEW a \in DOMAIN p, NEW b \in DOMAIN p,
                      p[a].version_id = p[b].version_id
               PROVE  a = b
    OBVIOUS
  <2> QED  BY <1>2, <1>3, <1>7, <2>1
<1>11. \A i \in DOMAIN g :
         \E j \in DOMAIN p : g[i] = p[j] /\ (Len(p) <= Keep(n) \/ Len(p) < j + Keep(n))
  BY <1>1, <1>5, PruneKeepsNewest DEF g
<1>12. \A k \in K : \E j \in DOMAIN p :
         k = p[j].object_key /\ k # None /\ j + Keep(n) <= Len(p)
  BY DEF PrunedKeys, K
<1>13. Keep(n) \in Nat /\ Keep(n) # 0
  BY <1>1 DEF Keep
<1> HIDE DEF K
<1>14. \A i \in DOMAIN g :
         \/ g[i] = s
         \/ \E j \in DOMAIN m.version_history : g[i] = m.version_history[j]
  BY <1>8, <1>11
<1>15. \A k \in K : \E w \in Ids(m.version_history) \cup {v} : k = VersionKey(w)
  <2> TAKE k \in K
  <2>1. PICK j \in DOMAIN p : k = p[j].object_key /\ k # None
    BY <1>12
  <2>2. k = VersionKey(p[j].version_id)
    BY <1>9, <2>1 DEF SnapshotOK
  <2>3. p[j].version_id \in Ids(m.version_history) \cup {v}
    BY <1>3, <1>8 DEF Ids
  <2> QED  BY <2>2, <2>3
<1>16. \A i \in DOMAIN g : VersionKey(g[i].version_id) \notin K
  <2> SUFFICES ASSUME NEW i \in DOMAIN g, VersionKey(g[i].version_id) \in K
               PROVE  FALSE
    OBVIOUS
  <2>1. PICK a \in DOMAIN p : g[i] = p[a] /\ (Len(p) <= Keep(n) \/ Len(p) < a + Keep(n))
    BY <1>11
  <2>2. PICK b \in DOMAIN p : /\ VersionKey(g[i].version_id) = p[b].object_key
                              /\ p[b].object_key # None /\ b + Keep(n) <= Len(p)
    BY <1>12
  <2>3. p[b].object_key = VersionKey(p[b].version_id)
    BY <1>9, <2>2 DEF SnapshotOK
  <2>4. p[a].version_id = p[b].version_id
    BY <2>1, <2>2, <2>3, KeysDiffer
  <2>5. a = b
    BY <1>10, <2>4
  <2>6. a \in Nat /\ a # 0 /\ Len(p) \in Nat
    BY <1>5, <1>6
  <2> QED  BY <1>13, <2>1, <2>2, <2>5, <2>6
<1> QED  BY <1>14, <1>15, <1>16 DEF g, p, s, K

(* Filtering a history leaves snapshots of it, and none of that id. *)
LEMMA DeletionListsNoMore ==
    ASSUME NEW m \in Row, NEW v
    PROVE  LET g == Without(NormalizeVersionHistory(m.version_history), v)
           IN  \A i \in DOMAIN g :
                 \E j \in DOMAIN m.version_history : g[i] = m.version_history[j]
<1> DEFINE h == NormalizeVersionHistory(m.version_history)
<1>1. m.version_history \in Seq(Snapshot)
  BY DEF Row
<1>2. /\ h \in Seq(Snapshot)
      /\ \A i \in DOMAIN h :
            \E j \in DOMAIN m.version_history : h[i] = m.version_history[j]
  BY <1>1, NormalizeProperties
<1> HIDE DEF h
<1>3. \A n \in DOMAIN Without(h, v) : \E i \in DOMAIN h : Without(h, v)[n] = h[i]
  BY <1>2, WithoutProperties
<1>4. \A i \in DOMAIN Without(h, v) :
        \E j \in DOMAIN m.version_history : Without(h, v)[i] = m.version_history[j]
  BY <1>2, <1>3
<1> QED  BY <1>4 DEF h

(* What a version resolves to, if not the base key, is a key listed for it. *)
LEMMA ResolvesToListedKey ==
    ASSUME NEW m \in Row, NEW v \in Versions \cup {None},
           ResolveBlobKey(m, v) # None
    PROVE  \/ ResolveBlobKey(m, v) = BaseKey /\ Wanted(m, v) = m.current_version_id
           \/ \E i \in DOMAIN m.version_history :
                /\ m.version_history[i].version_id = Wanted(m, v)
                /\ m.version_history[i].object_key = ResolveBlobKey(m, v)
<1> DEFINE h == NormalizeVersionHistory(m.version_history)
           w == Wanted(m, v)
           own == KeysListed(h, w) \ {None}
           k == ResolveBlobKey(m, v)
<1>1. m.version_history \in Seq(Snapshot)
  BY DEF Row
<1>2. \A i \in DOMAIN h :
         \E j \in DOMAIN m.version_history : h[i] = m.version_history[j]
  BY <1>1, NormalizeProperties
<1>3. k = IF w # None /\ own # {} THEN CHOOSE x \in own : TRUE
          ELSE IF w = m.current_version_id THEN BaseKey ELSE None
  BY DEF ResolveBlobKey
<1> HIDE DEF h, w, k
<1>4. CASE w # None /\ own # {}
  <2>1. k \in own
    BY <1>3, <1>4
  <2>2. PICK i \in DOMAIN h : h[i].version_id = w /\ k = h[i].object_key
    BY <2>1 DEF KeysListed
  <2> QED  BY <1>2, <2>2 DEF k, w
<1>5. CASE ~(w # None /\ own # {})
  BY <1>3, <1>5 DEF k, w
<1> QED  BY <1>4, <1>5

(* With one request at a time a step changes only that one, so that what   *)
(* holds of it afterwards holds of all.                                    *)
LEMMA OthersStayIdle ==
    ASSUME Orderly, OneInFlight, UNCHANGED scenario,
           NEW r \in scenario.requests,
           req \in [Requests -> Request], req' \in [Requests -> Request],
           \A p \in Requests \ {r} : req'[p] = req[p],
           SerialRequest(req[r])'
    PROVE  OneInFlight' /\ (\A p \in Requests : SerialRequest(req[p]))'
<1>1. \A p \in Requests : p # r => p \notin scenario.requests
  BY DEF Orderly
<1>2. \A p \in Requests : p # r => req'[p] = Idle
  BY <1>1 DEF OneInFlight
<1>3. OneInFlight'
  BY <1>2 DEF OneInFlight
<1>4. ASSUME NEW p \in Requests PROVE SerialRequest(req[p])'
  <2>1. CASE p = r
    BY <2>1
  <2>2. CASE p # r
    <3>1. req'[p].pc = "idle"
      BY <1>2, <2>2 DEF Idle
    <3> QED  BY <3>1 DEF SerialRequest
  <2> QED  BY <2>1, <2>2
<1> QED  BY <1>3, <1>4

(* Initially nothing is under way. *)
LEMMA InitIsSerial == Init => SerialInv
<1> SUFFICES ASSUME Init PROVE SerialOK
  BY DEF SerialInv
<1>1. \A r \in Requests : req[r] = Idle
  BY DEF Init
<1>2. OneInFlight /\ \A r \in Requests : SerialRequest(req[r])
  BY <1>1 DEF OneInFlight, SerialRequest, Idle
<1>3. ListedOK
  <2> SUFFICES ASSUME NEW i \in DOMAIN row.version_history
               PROVE  /\ row.version_history[i].version_id \in LegacyIds
                      /\ row.version_history[i].object_key = None
    BY DEF Init, ListedOK
  <2>1. row = EmptyRow \/ \E h \in LegacyHistories : row.version_history = h
    BY DEF Init, LegacyRows, EmptyRow
  <2>2. CASE row = EmptyRow
    <3>1. DOMAIN row.version_history = {}
      BY <2>2, EmptySeq DEF EmptyRow
    <3> QED  BY <3>1
  <2>3. ASSUME NEW h \in LegacyHistories, row.version_history = h
        PROVE  h[i].version_id \in LegacyIds /\ h[i].object_key = None
    <3>1. CASE h = <<>>
      <4>1. DOMAIN h = {}
        BY <3>1
      <4> QED  BY <2>3, <4>1
    <3>2. CASE h = <<Legacy(LegacyCurrent)>>
      <4>1. i = 1 /\ h[1] = Legacy(LegacyCurrent)
        BY <2>3, <3>2
      <4> QED  BY <4>1, VersionsAssumption DEF Legacy
    <3>3. CASE \E v \in LegacyIds : h = <<Legacy(v), Legacy(LegacyCurrent)>>
      <4>1. PICK v \in LegacyIds : h = <<Legacy(v), Legacy(LegacyCurrent)>>
        BY <3>3
      <4>2. i \in {1, 2} /\ h[1] = Legacy(v) /\ h[2] = Legacy(LegacyCurrent)
        BY <2>3, <4>1
      <4> QED  BY <4>1, <4>2, VersionsAssumption DEF Legacy
    <3> QED  BY <3>1, <3>2, <3>3 DEF LegacyHistories
  <2> QED  BY <2>1, <2>2, <2>3
<1>4. CurrentOK
  <2>1. row.current_version_id \in LegacyIds \cup {None}
    <3>1. CASE row = EmptyRow
      BY <3>1 DEF EmptyRow
    <3>2. CASE row \in LegacyRows
      <4>1. row.current_version_id \in {None, LegacyCurrent}
        <5>1. CASE row = EmptyRow
          BY <5>1 DEF EmptyRow
        <5>2. ASSUME NEW h \in LegacyHistories,
                     row = [EmptyRow EXCEPT !.current_version_id = LegacyCurrent,
                                            !.version_history = h]
              PROVE  row.current_version_id = LegacyCurrent
          BY <5>2 DEF EmptyRow
        <5> QED  BY <3>2, <5>1, <5>2 DEF LegacyRows
      <4> QED  BY <4>1, VersionsAssumption
    <3> QED  BY <3>1, <3>2 DEF Init
  <2>2. row.current_version_id \in LegacyIds => BaseKey \in objects
    BY VersionsAssumption DEF Init, EmptyRow
  <2> QED  BY <2>1, <2>2 DEF Init, CurrentOK
<1>5. CleanupOK /\ pending \subseteq minted
  BY DEF Init, CleanupOK
<1>6. life = "absent" => row = EmptyRow
  BY DEF Init
<1> QED  BY <1>1, <1>2, <1>3, <1>4, <1>5, <1>6 DEF SerialOK

(* The steps that begin a request. *)
LEMMA BeginIsSerial ==
    ASSUME VersionsInv, VersionsInv', Orderly, SerialOK, life # "deleted",
           scenario \in Scenarios, UNCHANGED scenario,
           NEW r \in scenario.requests, Begin(r)
    PROVE  SerialOK'
<1>0. /\ r \in Requests /\ req[r] \in Request /\ SerialRequest(req[r])
      /\ req \in [Requests -> Request] /\ req' \in [Requests -> Request]
      /\ RowOK(row) /\ row \in Row /\ LegacyOK
      /\ OneInFlight /\ ListedOK /\ CurrentOK /\ CleanupOK
      /\ minted \subseteq Versions /\ pending \subseteq minted
      /\ ghost \in [lastSave : Versions \cup {None}, dropped : SUBSET Versions,
                    doomed : BOOLEAN]
  BY VersionsAssumption DEF VersionsInv, TypeOK, SerialOK
<1>a. CASE life = "absent"
  <2>1. CreateMindMap(r)
    BY <1>a DEF Begin, GetUploadUrl, UploadBlob, ConfirmUpload, DownloadBlob,
       DeleteVaultVersion, UpdateVaultMeta, DeleteMindMap, FindOwned
  <2>2. row = EmptyRow /\ row' = row /\ UNCHANGED <<objects, minted, pending, cleanup, ghost>>
    BY <1>a, <2>1 DEF CreateMindMap, SerialOK
  <2>3. req'[r].pc = "create" /\ \A p \in Requests \ {r} : req'[p] = req[p]
    BY <1>0, <2>1 DEF CreateMindMap, Goto, Request
  <2>4. SerialRequest(req[r])'
    BY <2>3 DEF SerialRequest
  <2>5. OneInFlight' /\ (\A p \in Requests : SerialRequest(req[p]))'
    BY <1>0, <2>3, <2>4, OthersStayIdle
  <2>6. ListedOK' /\ CurrentOK' /\ CleanupOK'
    BY <1>0, <2>2 DEF ListedOK, CurrentOK, CleanupOK
  <2>7. life' = "present"
    BY <2>1 DEF CreateMindMap
  <2> QED  BY <1>0, <2>2, <2>5, <2>6, <2>7 DEF SerialOK
<1>b. CASE life = "present"
  <2>0. life' = life /\ ~CreateMindMap(r)
    BY <1>b DEF Begin, CreateMindMap, GetUploadUrl, UploadBlob, ConfirmUpload, DownloadBlob,
       DeleteVaultVersion, UpdateVaultMeta, DeleteMindMap
  <2>1. CASE GetUploadUrl(r)
    <3>1. PICK v \in Versions : /\ v \notin minted /\ minted' = minted \cup {v}
                                /\ pending' = pending \cup {v}
      BY <2>1 DEF GetUploadUrl, Mint
    <3>2. UNCHANGED <<row, objects, req, cleanup, ghost>> /\ req[r].pc = "idle"
      BY <2>1 DEF GetUploadUrl, Doing
    <3>3. SerialRequest(req[r])'
      BY <3>2 DEF SerialRequest
    <3>4. OneInFlight' /\ (\A p \in Requests : SerialRequest(req[p]))'
      BY <1>0, <3>2, <3>3, OthersStayIdle
    <3>5. ListedOK' /\ CurrentOK' /\ CleanupOK'
      BY <1>0, <3>1, <3>2 DEF ListedOK, CurrentOK, CleanupOK
    <3>6. pending' \subseteq minted'
      BY <1>0, <3>1
    <3> QED  BY <1>b, <2>0, <3>4, <3>5, <3>6 DEF SerialOK
  <2>2. CASE UploadBlob(r)
    <3>1. PICK v \in Versions : Mint(v) /\ FindOwned(r, "put", row, v)
      BY <2>2 DEF UploadBlob
    <3>2. /\ UNCHANGED <<row, objects, pending, cleanup, ghost>>
          /\ v \notin minted /\ minted' = minted \cup {v}
      BY <2>2, <3>1 DEF UploadBlob, Mint
    <3>3. /\ req'[r] = [pc |-> "put", seen |-> row, vid |-> v, keys |-> {}]
          /\ \A p \in Requests \ {r} : req'[p] = req[p]
      BY <1>0, <3>1 DEF FindOwned
    <3>4. v \notin pending /\ v \notin Ids(row.version_history) /\ VersionKey(v) \notin cleanup
      BY <1>0, <3>2, KeysDiffer DEF ListedOK, CleanupOK, Ids
    <3>5. SerialRequest(req[r])'
      BY <3>2, <3>3, <3>4 DEF SerialRequest
    <3>6. OneInFlight' /\ (\A p \in Requests : SerialRequest(req[p]))'
      BY <1>0, <3>3, <3>5, OthersStayIdle
    <3>7. ListedOK' /\ CurrentOK' /\ CleanupOK'
      BY <1>0, <3>2 DEF ListedOK, CurrentOK, CleanupOK
    <3> QED  BY <1>0, <1>b, <2>0, <3>2, <3>6, <3>7 DEF SerialOK
  <2>3. CASE ConfirmUpload(r)
    <3>1. PICK v \in pending : FindOwned(r, "head", row, v) /\ pending' = pending \ {v}
      BY <2>3 DEF ConfirmUpload, Orderly
    <3>2. UNCHANGED <<row, objects, minted, cleanup, ghost>>
      BY <2>3 DEF ConfirmUpload
    <3>3. /\ req'[r] = [pc |-> "head", seen |-> row, vid |-> v, keys |-> {}]
          /\ \A p \in Requests \ {r} : req'[p] = req[p]
      BY <1>0, <3>1 DEF FindOwned
    <3>4. v \in minted /\ v \notin Ids(row.version_history) /\ VersionKey(v) \notin cleanup
      BY <1>0, KeysDiffer DEF ListedOK, CleanupOK, Ids
    <3>5. SerialRequest(req[r])'
      BY <3>1, <3>2, <3>3, <3>4 DEF SerialRequest
    <3>6. OneInFlight' /\ (\A p \in Requests : SerialRequest(req[p]))'
      BY <1>0, <3>3, <3>5, OthersStayIdle
    <3>7. ListedOK' /\ CurrentOK' /\ CleanupOK'
      BY <1>0, <3>1, <3>2 DEF ListedOK, CurrentOK, CleanupOK
    <3> QED  BY <1>0, <1>b, <2>0, <3>1, <3>2, <3>6, <3>7 DEF SerialOK
  <2>4. CASE DownloadBlob(r) \/ UpdateVaultMeta(r)
    <3>1. UNCHANGED <<row, objects, minted, pending, cleanup, ghost>>
      BY <2>4 DEF DownloadBlob, UpdateVaultMeta
    <3>2. /\ req'[r].pc \in {"download", "meta"}
          /\ \A p \in Requests \ {r} : req'[p] = req[p]
      BY <1>0, <2>4 DEF DownloadBlob, UpdateVaultMeta, FindOwned
    <3>3. SerialRequest(req[r])'
      BY <3>2 DEF SerialRequest
    <3>4. OneInFlight' /\ (\A p \in Requests : SerialRequest(req[p]))'
      BY <1>0, <3>2, <3>3, OthersStayIdle
    <3>5. ListedOK' /\ CurrentOK' /\ CleanupOK'
      BY <1>0, <3>1 DEF ListedOK, CurrentOK, CleanupOK
    <3> QED  BY <1>0, <1>b, <2>0, <3>1, <3>4, <3>5 DEF SerialOK
  <2>5. CASE DeleteVaultVersion(r)
    <3>1. PICK v \in Versions :
            /\ \/ FindOwned(r, "delete_object", row, v)
               \/ FindOwned(r, "delete_write", row, v)
            /\ ghost' = [ghost EXCEPT !.dropped = @ \cup {v}]
      BY <2>5 DEF DeleteVaultVersion
    <3>2. UNCHANGED <<row, objects, minted, pending, cleanup>>
      BY <2>5 DEF DeleteVaultVersion
    <3>3. /\ req'[r].pc \in {"delete_object", "delete_write"}
          /\ req'[r].seen = row /\ req'[r].vid = v
          /\ \A p \in Requests \ {r} : req'[p] = req[p]
      BY <1>0, <3>1 DEF FindOwned
    <3>4. /\ ghost'.dropped = ghost.dropped \cup {v} /\ ghost'.doomed = ghost.doomed
          /\ ghost'.lastSave = ghost.lastSave
      BY <1>0, <3>1
    <3>5. SerialRequest(req[r])'
      BY <3>2, <3>3, <3>4 DEF SerialRequest
    <3>6. OneInFlight' /\ (\A p \in Requests : SerialRequest(req[p]))'
      BY <1>0, <3>3, <3>5, OthersStayIdle
    <3>7. ListedOK' /\ CurrentOK' /\ CleanupOK'
      BY <1>0, <3>2, <3>4 DEF ListedOK, CurrentOK, CleanupOK
    <3> QED  BY <1>0, <1>b, <2>0, <3>2, <3>6, <3>7 DEF SerialOK
  <2>6. CASE DeleteMindMap(r)
    <3>1. UNCHANGED <<row, objects, minted, pending, cleanup>>
      BY <2>6 DEF DeleteMindMap
    <3>2. ghost'.doomed /\ ghost'.lastSave = ghost.lastSave /\ ghost'.dropped = ghost.dropped
      BY <1>0, <2>6 DEF DeleteMindMap
    <3>3. req'[r].pc = "list" /\ \A p \in Requests \ {r} : req'[p] = req[p]
      BY <1>0, <2>6 DEF DeleteMindMap, FindOwned
    <3>4. SerialRequest(req[r])'
      BY <3>2, <3>3 DEF SerialRequest
    <3>5. OneInFlight' /\ (\A p \in Requests : SerialRequest(req[p]))'
      BY <1>0, <3>3, <3>4, OthersStayIdle
    <3>6. ListedOK' /\ CurrentOK' /\ CleanupOK'
      BY <1>0, <3>1, <3>2 DEF ListedOK, CurrentOK, CleanupOK
    <3> QED  BY <1>0, <1>b, <2>0, <3>1, <3>5, <3>6 DEF SerialOK
  <2> QED  BY <2>0, <2>1, <2>2, <2>3, <2>4, <2>5, <2>6 DEF Begin
<1> QED  BY <1>a, <1>b DEF VersionsInv, TypeOK

(* What is left when a request ends having changed nothing it should not. *)
LEMMA EndIsSerial ==
    ASSUME VersionsInv, VersionsInv', Orderly, SerialOK, life = "present",
           scenario \in Scenarios,
           UNCHANGED <<scenario, life, row, minted, pending, cleanup, ghost>>,
           NEW r \in scenario.requests, Finish(r),
           \A i \in DOMAIN row.version_history :
               row.version_history[i].object_key \in objects
                 /\ row.version_history[i].version_id \notin ghost.dropped
                 /\ ~ghost.doomed
                 => row.version_history[i].object_key \in objects',
           ~ghost.doomed =>
             /\ row.current_version_id \in LegacyIds => (BaseKey \in objects => BaseKey \in objects')
             /\ row.current_version_id \notin LegacyIds \cup {None} =>
                  (VersionKey(row.current_version_id) \in objects
                     => VersionKey(row.current_version_id) \in objects')
    PROVE  SerialOK'
<1>1. /\ r \in Requests /\ OneInFlight /\ ListedOK /\ CurrentOK /\ CleanupOK
      /\ pending \subseteq minted
      /\ req \in [Requests -> Request] /\ req' \in [Requests -> Request]
  BY VersionsAssumption DEF VersionsInv, TypeOK, SerialOK, Orderly
<1>2. req'[r] = Idle /\ \A p \in Requests \ {r} : req'[p] = req[p]
  BY <1>1 DEF Finish
<1>3. SerialRequest(req[r])'
  BY <1>2 DEF SerialRequest, Idle
<1>4. OneInFlight' /\ (\A p \in Requests : SerialRequest(req[p]))'
  BY <1>1, <1>2, <1>3, OthersStayIdle
<1>5. ListedOK'
  BY <1>1 DEF ListedOK
<1>6. CurrentOK'
  BY <1>1 DEF CurrentOK
<1>7. CleanupOK'
  BY <1>1 DEF CleanupOK
<1> QED  BY <1>1, <1>4, <1>5, <1>6, <1>7 DEF SerialOK

(* The steps of a request in flight. *)
LEMMA ContinueIsSerial ==
    ASSUME VersionsInv, VersionsInv', Orderly, SerialOK, life # "deleted",
           scenario \in Scenarios, UNCHANGED scenario, life' # "deleted",
           NEW r \in scenario.requests, Continue(r)
    PROVE  SerialOK'
<1>0. /\ r \in Requests /\ req[r] \in Request /\ SerialRequest(req[r]) /\ RequestOK(req[r])
      /\ req \in [Requests -> Request] /\ req' \in [Requests -> Request]
      /\ RowOK(row) /\ row \in Row /\ RowOK(row)' /\ LegacyOK
      /\ OneInFlight /\ ListedOK /\ CurrentOK /\ CleanupOK
      /\ minted \subseteq Versions /\ pending \subseteq minted
      /\ ghost \in [lastSave : Versions \cup {None}, dropped : SUBSET Versions,
                    doomed : BOOLEAN]
  BY VersionsAssumption DEF VersionsInv, TypeOK, SerialOK, RequestsOK
<1>1. life = "present" /\ life' = "present"
  <2>1. req[r].pc # "idle"
    BY DEF Continue, CreateUrl, CreateUrlFails, CreateUndo, PutObject, PutObjectFails,
       HeadObject, HeadObjectFails, SaveRow, SaveRowFails, RollBackSave, GetObject,
       DeleteVersionObject, DeleteVersionObjectFails, DeleteVersionRow,
       UpdateMindMapMeta, DeleteAttachmentsFails, ListVersionKeys, DeleteListedKey,
       DeleteListedKeyFails, DeleteRow, Doing
  <2>2. life = "present"
    BY <1>0, <2>1 DEF VersionsInv, TypeOK, SerialOK, Idle
  <2>3. life' \in {life, "deleted"}
    BY DEF Continue, CreateUrl, CreateUrlFails, CreateUndo, PutObject, PutObjectFails,
       HeadObject, HeadObjectFails, SaveRow, SaveRowFails, RollBackSave, GetObject,
       DeleteVersionObject, DeleteVersionObjectFails, DeleteVersionRow,
       UpdateMindMapMeta, DeleteAttachmentsFails, ListVersionKeys, DeleteListedKey,
       DeleteListedKeyFails, DeleteRow
  <2> QED  BY <2>2, <2>3
<1>2. ASSUME UNCHANGED <<objects, row, cleanup, ghost, minted, pending>>,
             \A p \in Requests \ {r} : req'[p] = req[p],
             SerialRequest(req[r])'
      PROVE  SerialOK'
  <2>1. OneInFlight' /\ (\A p \in Requests : SerialRequest(req[p]))'
    BY <1>0, <1>2, OthersStayIdle
  <2>2. ListedOK' /\ CurrentOK' /\ CleanupOK'
    BY <1>0, <1>2 DEF ListedOK, CurrentOK, CleanupOK
  <2> QED  BY <1>0, <1>1, <1>2, <2>1, <2>2 DEF SerialOK
<1>3. CASE CreateUrl(r)
  <2>1. PICK v \in Versions : /\ v \notin minted /\ minted' = minted \cup {v}
                              /\ pending' = pending \cup {v}
    BY <1>3 DEF CreateUrl, Mint
  <2>2. UNCHANGED <<row, objects, cleanup, ghost>>
    BY <1>3 DEF CreateUrl
  <2>3. req'[r] = Idle /\ \A p \in Requests \ {r} : req'[p] = req[p]
    BY <1>0, <1>3 DEF CreateUrl, Finish
  <2>4. SerialRequest(req[r])'
    BY <2>3 DEF SerialRequest, Idle
  <2>5. OneInFlight' /\ (\A p \in Requests : SerialRequest(req[p]))'
    BY <1>0, <2>3, <2>4, OthersStayIdle
  <2>6. ListedOK' /\ CurrentOK' /\ CleanupOK'
    BY <1>0, <2>1, <2>2 DEF ListedOK, CurrentOK, CleanupOK
  <2>7. pending' \subseteq minted'
    BY <1>0, <2>1
  <2> QED  BY <1>1, <2>5, <2>6, <2>7 DEF SerialOK
<1>4. CASE CreateUrlFails(r)
  <2>1. req'[r].pc = "create_undo" /\ \A p \in Requests \ {r} : req'[p] = req[p]
    BY <1>0, <1>4 DEF CreateUrlFails, Goto, Request
  <2> QED  BY <1>2, <1>4, <2>1 DEF CreateUrlFails, SerialRequest
<1>5. CASE CreateUndo(r) \/ HeadObjectFails(r) \/ GetObject(r) \/ DeleteAttachmentsFails(r)
           \/ DeleteListedKeyFails(r) \/ DeleteRow(r)
  <2>1. req'[r] = Idle /\ \A p \in Requests \ {r} : req'[p] = req[p]
    BY <1>0, <1>5 DEF CreateUndo, HeadObjectFails, GetObject, DeleteAttachmentsFails,
       DeleteListedKeyFails, DeleteRow, Finish
  <2>2. UNCHANGED <<objects, row, cleanup, ghost, minted, pending>>
    BY <1>5 DEF CreateUndo, HeadObjectFails, GetObject, DeleteAttachmentsFails,
       DeleteListedKeyFails, DeleteRow
  <2> QED  BY <1>2, <2>1, <2>2 DEF SerialRequest, Idle
<1>6. CASE PutObject(r)
  <2>1. /\ objects' = objects \cup {VersionKey(req[r].vid)} /\ req[r].pc = "put"
        /\ UNCHANGED <<row, minted, pending, cleanup, ghost>>
    BY <1>6 DEF PutObject, Doing
  <2>2. req'[r] = [req[r] EXCEPT !.pc = "save"] /\ \A p \in Requests \ {r} : req'[p] = req[p]
    BY <1>0, <1>6 DEF PutObject, Goto
  <2>3. req'[r].pc = "save" /\ req'[r].vid = req[r].vid /\ req'[r].seen = req[r].seen
    BY <1>0, <2>2 DEF Request
  <2>4. SerialRequest(req[r])'
    BY <1>0, <2>1, <2>3 DEF SerialRequest
  <2>5. OneInFlight' /\ (\A p \in Requests : SerialRequest(req[p]))'
    BY <1>0, <2>2, <2>4, OthersStayIdle
  <2>6. ListedOK' /\ CurrentOK' /\ CleanupOK'
    BY <1>0, <2>1 DEF ListedOK, CurrentOK, CleanupOK
  <2> QED  BY <1>0, <1>1, <2>1, <2>5, <2>6 DEF SerialOK
<1>7. CASE PutObjectFails(r)
  <2>1. /\ objects \subseteq objects' /\ Finish(r)
        /\ UNCHANGED <<life, row, minted, pending, cleanup, ghost>>
    BY <1>7 DEF PutObjectFails
  <2> QED  BY <1>1, <2>1, EndIsSerial
<1>8. CASE HeadObject(r)
  <2>1. /\ UNCHANGED <<row, objects, minted, pending, cleanup, ghost>>
        /\ req[r].pc = "head" /\ VersionKey(req[r].vid) \in objects
    BY <1>8 DEF HeadObject, Doing
  <2>2. req'[r] = [req[r] EXCEPT !.pc = "save"] /\ \A p \in Requests \ {r} : req'[p] = req[p]
    BY <1>0, <1>8 DEF HeadObject, Goto
  <2>3. req'[r].pc = "save" /\ req'[r].vid = req[r].vid /\ req'[r].seen = req[r].seen
    BY <1>0, <2>2 DEF Request
  <2>4. SerialRequest(req[r])'
    BY <1>0, <2>1, <2>3 DEF SerialRequest
  <2> QED  BY <1>2, <2>1, <2>2, <2>4
<1>9. CASE SaveRow(r)
  <2> DEFINE v == req[r].vid
             n == req[r].seen.max_versions
             K == PrunedKeys(Pushed(req[r].seen, v), n)
             g == PruneHistory(Pushed(req[r].seen, v), n)
  <2>1. /\ req[r].pc = "save" /\ req[r].seen = row
        /\ v \in Versions /\ v \notin LegacyIds /\ v \in minted /\ v \notin pending
        /\ v \notin Ids(row.version_history) /\ VersionKey(v) \notin cleanup
        /\ VersionKey(v) \in objects /\ n \in MaxVersionsValues
    BY <1>0, <1>9 DEF SaveRow, Doing, SerialRequest, RequestOK, Row
  <2>2. /\ row' = [row EXCEPT !.current_version_id = v, !.version_history = g]
        /\ ghost' = [ghost EXCEPT !.lastSave = v]
        /\ cleanup' = cleanup \cup K
        /\ UNCHANGED <<objects, minted, pending>>
    BY <1>1, <1>9 DEF SaveRow, UpdateMindMapUpload, SavedHistory
  <2>3. req'[r] = Idle /\ \A p \in Requests \ {r} : req'[p] = req[p]
    BY <1>0, <1>9 DEF SaveRow, Finish
  <2>4. /\ \A i \in DOMAIN g :
             \/ g[i] = [version_id |-> v, object_key |-> VersionKey(v)]
             \/ \E j \in DOMAIN row.version_history : g[i] = row.version_history[j]
        /\ \A k \in K : \E w \in Ids(row.version_history) \cup {v} : k = VersionKey(w)
        /\ \A i \in DOMAIN g : VersionKey(g[i].version_id) \notin K
    BY <1>0, <2>1, SaveKeepsWhatItLists
  <2> HIDE DEF g, K, v
  <2>5. /\ row'.current_version_id = v /\ row'.version_history = g
        /\ ghost'.lastSave = v /\ ghost'.dropped = ghost.dropped /\ ghost'.doomed = ghost.doomed
    BY <1>0, <2>2 DEF Row
  <2>6. SerialRequest(req[r])'
    BY <2>3 DEF SerialRequest, Idle
  <2>7. OneInFlight' /\ (\A p \in Requests : SerialRequest(req[p]))'
    BY <1>0, <2>3, <2>6, OthersStayIdle
  <2>8. ListedOK'
    <3> SUFFICES ASSUME NEW i \in DOMAIN g
                 PROVE  /\ g[i].version_id \in minted \ pending
                        /\ g[i].version_id \in LegacyIds => g[i].object_key = None
                        /\ VersionKey(g[i].version_id) \notin cleanup \cup K
                        /\ g[i].object_key # None /\ g[i].version_id \notin ghost.dropped
                             /\ ~ghost.doomed => g[i].object_key \in objects
      BY <2>2, <2>5 DEF ListedOK
    <3>1. CASE g[i] = [version_id |-> v, object_key |-> VersionKey(v)]
      BY <2>1, <2>4, <3>1
    <3>2. ASSUME NEW j \in DOMAIN row.version_history, g[i] = row.version_history[j]
          PROVE  /\ g[i].version_id \in minted \ pending
                 /\ g[i].version_id \in LegacyIds => g[i].object_key = None
                 /\ VersionKey(g[i].version_id) \notin cleanup
                 /\ g[i].object_key # None /\ g[i].version_id \notin ghost.dropped
                      /\ ~ghost.doomed => g[i].object_key \in objects
      BY <1>0, <3>2 DEF ListedOK
    <3> QED  BY <2>4, <3>1, <3>2
  <2>9. CurrentOK'
    BY <2>1, <2>2, <2>5 DEF CurrentOK
  <2>10. CleanupOK'
    <3>1. \A w \in Ids(row.version_history) : w \in minted \ pending
      BY <1>0 DEF Ids, ListedOK
    <3> QED  BY <1>0, <2>1, <2>2, <2>4, <3>1 DEF CleanupOK
  <2> QED  BY <1>0, <1>1, <2>2, <2>7, <2>8, <2>9, <2>10 DEF SerialOK
<1>10. CASE SaveRowFails(r)
  <2>1. /\ UNCHANGED <<row, objects, minted, pending, cleanup, ghost>>
        /\ req[r].pc = "save"
    BY <1>10 DEF SaveRowFails, Doing, Orderly
  <2>2. req'[r] = [req[r] EXCEPT !.pc = "rollback"] /\ \A p \in Requests \ {r} : req'[p] = req[p]
    BY <1>0, <1>10 DEF SaveRowFails, Goto
  <2>3. req'[r].pc = "rollback" /\ req'[r].vid = req[r].vid
    BY <1>0, <2>2 DEF Request
  <2>4. SerialRequest(req[r])'
    BY <1>0, <2>1, <2>3 DEF SerialRequest
  <2> QED  BY <1>2, <2>1, <2>2, <2>4
<1>11. CASE RollBackSave(r)
  <2>1. /\ objects \ {VersionKey(req[r].vid)} \subseteq objects' /\ Finish(r)
        /\ UNCHANGED <<life, row, minted, pending, cleanup, ghost>>
        /\ req[r].pc = "rollback"
    BY <1>11 DEF RollBackSave, Doing
  <2>2. /\ req[r].vid \notin Ids(row.version_history)
        /\ req[r].vid \in Versions
    BY <1>0, <2>1 DEF SerialRequest, RequestOK
  <2>3. \A i \in DOMAIN row.version_history :
          row.version_history[i].object_key # None
            => row.version_history[i].object_key # VersionKey(req[r].vid)
    BY <1>0, <2>2, KeysDiffer DEF RowOK, SnapshotOK, Ids
  <2>4. \A i \in DOMAIN row.version_history :
          row.version_history[i].object_key # VersionKey(req[r].vid)
    BY <2>2, <2>3, KeysDiffer
  <2>5. VersionKey(req[r].vid) # BaseKey
    BY <2>2, KeysDiffer
  <2>6. row.current_version_id \notin LegacyIds \cup {None}
          => row.current_version_id \in Ids(row.version_history)
    BY <1>0, VersionsAssumption DEF RowOK, CurrentListedIn
  <2>7. row.current_version_id \notin LegacyIds \cup {None}
          => VersionKey(row.current_version_id) # VersionKey(req[r].vid)
    BY <2>2, <2>6, KeysDiffer
  <2> QED  BY <1>1, <2>1, <2>4, <2>5, <2>7, EndIsSerial
<1>12. CASE DeleteVersionObject(r) \/ DeleteVersionObjectFails(r)
  <2> DEFINE k == ResolveBlobKey(req[r].seen, req[r].vid)
  <2>1. /\ objects \ {k} \subseteq objects'
        /\ UNCHANGED <<life, row, minted, pending, cleanup, ghost>>
        /\ req[r].pc = "delete_object"
    BY <1>12 DEF DeleteVersionObject, DeleteVersionObjectFails, Doing
  <2>2. /\ req[r].seen = row /\ req[r].vid \in Versions /\ req[r].vid # row.current_version_id
        /\ req[r].vid \in ghost.dropped /\ k # None
    BY <1>0, <2>1 DEF SerialRequest, RequestOK
  <2>3. Wanted(req[r].seen, req[r].vid) = req[r].vid
    BY <2>2, VersionsAssumption DEF Wanted
  <2>4. k = VersionKey(req[r].vid)
    <3>1. /\ row.current_version_id # req[r].vid
          /\ \/ k = BaseKey /\ req[r].vid = row.current_version_id
             \/ \E i \in DOMAIN row.version_history :
                  /\ row.version_history[i].version_id = req[r].vid
                  /\ row.version_history[i].object_key = k
      BY <1>0, <2>2, <2>3, ResolvesToListedKey
    <3> QED  BY <1>0, <2>2, <3>1 DEF RowOK, SnapshotOK
  <2> HIDE DEF k
  <2>5. \A i \in DOMAIN row.version_history :
          row.version_history[i].object_key = k
            => row.version_history[i].version_id \in ghost.dropped
    BY <1>0, <2>2, <2>4, KeysDiffer DEF RowOK, SnapshotOK
  <2>6. k # BaseKey /\ VersionKey(row.current_version_id) # k
    BY <2>2, <2>4, KeysDiffer
  <2>7. CASE Finish(r)
    BY <1>1, <2>1, <2>5, <2>6, <2>7, EndIsSerial
  <2>8. CASE Goto(r, "delete_write")
    <3>1. req'[r] = [req[r] EXCEPT !.pc = "delete_write"]
          /\ \A p \in Requests \ {r} : req'[p] = req[p]
      BY <1>0, <2>8 DEF Goto
    <3>2. req'[r].pc = "delete_write" /\ req'[r].vid = req[r].vid /\ req'[r].seen = req[r].seen
      BY <1>0, <3>1 DEF Request
    <3>3. SerialRequest(req[r])'
      BY <2>1, <2>2, <3>2 DEF SerialRequest
    <3>4. OneInFlight' /\ (\A p \in Requests : SerialRequest(req[p]))'
      BY <1>0, <3>1, <3>3, OthersStayIdle
    <3>5. ListedOK'
      BY <1>0, <2>1, <2>5 DEF ListedOK
    <3>6. CurrentOK'
      BY <1>0, <2>1, <2>6 DEF CurrentOK
    <3>7. CleanupOK'
      BY <1>0, <2>1 DEF CleanupOK
    <3> QED  BY <1>0, <1>1, <2>1, <3>4, <3>5, <3>6, <3>7 DEF SerialOK
  <2> QED  BY <1>12, <2>7, <2>8 DEF DeleteVersionObject, DeleteVersionObjectFails
<1>13. CASE DeleteVersionRow(r)
  <2> DEFINE g == Without(NormalizeVersionHistory(row.version_history), req[r].vid)
  <2>1. req[r].seen = row
    BY <1>0, <1>13 DEF DeleteVersionRow, Doing, SerialRequest
  <2>2. /\ \/ row' = [row EXCEPT !.current_version_id = row.current_version_id,
                                 !.version_history = g]
           \/ row' = row
        /\ UNCHANGED <<objects, minted, pending, cleanup, ghost>>
    BY <1>1, <1>13, <2>1 DEF DeleteVersionRow, UpdateMindMapUpload
  <2>3. req'[r] = Idle /\ \A p \in Requests \ {r} : req'[p] = req[p]
    BY <1>0, <1>13 DEF DeleteVersionRow, Finish
  <2>4. \A i \in DOMAIN g : \E j \in DOMAIN row.version_history : g[i] = row.version_history[j]
    BY <1>0, DeletionListsNoMore
  <2> HIDE DEF g
  <2>5. /\ row'.current_version_id = row.current_version_id
        /\ row'.version_history \in {g, row.version_history}
    BY <1>0, <2>2 DEF Row
  <2>6. \A i \in DOMAIN row'.version_history :
          \E j \in DOMAIN row.version_history : row'.version_history[i] = row.version_history[j]
    BY <2>4, <2>5
  <2>7. SerialRequest(req[r])'
    BY <2>3 DEF SerialRequest, Idle
  <2>8. OneInFlight' /\ (\A p \in Requests : SerialRequest(req[p]))'
    BY <1>0, <2>3, <2>7, OthersStayIdle
  <2>9. ListedOK'
    <3> SUFFICES ASSUME NEW i \in DOMAIN row'.version_history
                 PROVE  LET s == row'.version_history[i]
                        IN  /\ s.version_id \in minted \ pending
                            /\ s.version_id \in LegacyIds => s.object_key = None
                            /\ VersionKey(s.version_id) \notin cleanup
                            /\ s.object_key # None /\ s.version_id \notin ghost.dropped
                                 /\ ~ghost.doomed => s.object_key \in objects
      BY <2>2 DEF ListedOK
    <3>1. PICK j \in DOMAIN row.version_history : row'.version_history[i] = row.version_history[j]
      BY <2>6
    <3> QED  BY <1>0, <3>1 DEF ListedOK
  <2>10. CurrentOK'
    BY <1>0, <2>2, <2>5 DEF CurrentOK
  <2>11. CleanupOK'
    BY <1>0, <2>2 DEF CleanupOK
  <2> QED  BY <1>0, <1>1, <2>2, <2>8, <2>9, <2>10, <2>11 DEF SerialOK
<1>14. CASE UpdateMindMapMeta(r)
  <2>1. /\ row'.current_version_id = row.current_version_id
        /\ row'.version_history = row.version_history
        /\ UNCHANGED <<objects, minted, pending, cleanup, ghost>>
    BY <1>0, <1>14 DEF UpdateMindMapMeta, Row
  <2>2. req'[r] = Idle /\ \A p \in Requests \ {r} : req'[p] = req[p]
    BY <1>0, <1>14 DEF UpdateMindMapMeta, Finish
  <2>3. SerialRequest(req[r])'
    BY <2>2 DEF SerialRequest, Idle
  <2>4. OneInFlight' /\ (\A p \in Requests : SerialRequest(req[p]))'
    BY <1>0, <2>2, <2>3, OthersStayIdle
  <2>5. ListedOK'
    BY <1>0, <2>1 DEF ListedOK
  <2>6. CurrentOK' /\ CleanupOK'
    BY <1>0, <2>1 DEF CurrentOK, CleanupOK
  <2> QED  BY <1>0, <1>1, <2>1, <2>4, <2>5, <2>6 DEF SerialOK
<1>15. CASE ListVersionKeys(r)
  <2>1. req'[r].pc = "delete_keys" /\ \A p \in Requests \ {r} : req'[p] = req[p]
    BY <1>0, <1>15 DEF ListVersionKeys, Request
  <2>2. ghost.doomed
    BY <1>0, <1>15 DEF ListVersionKeys, Doing, SerialRequest
  <2>3. UNCHANGED <<row, objects, minted, pending, cleanup, ghost>>
    BY <1>15 DEF ListVersionKeys
  <2> QED  BY <1>2, <2>1, <2>2, <2>3 DEF SerialRequest
<1>16. CASE DeleteListedKey(r)
  <2>1. req'[r].pc \in {"delete_keys", "delete_row"} /\ \A p \in Requests \ {r} : req'[p] = req[p]
    <3>1. PICK k \in req[r].keys :
            req' = [req EXCEPT
              ![r].keys = @ \ {k},
              ![r].pc = IF req[r].keys = {k} THEN "delete_row" ELSE @]
      BY <1>16 DEF DeleteListedKey
    <3> DEFINE q == [req[r] EXCEPT
                       !.keys = @ \ {k},
                       !.pc = IF req[r].keys = {k} THEN "delete_row" ELSE @]
    <3>2. req' = [req EXCEPT ![r] = q] /\ q.pc \in {"delete_keys", "delete_row"}
      BY <1>0, <1>16, <3>1 DEF DeleteListedKey, Doing, Request
    <3> HIDE DEF q
    <3> QED  BY <1>0, <3>2
  <2>2. ghost.doomed
    BY <1>0, <1>16 DEF DeleteListedKey, Doing, SerialRequest
  <2>3. UNCHANGED <<row, minted, pending, cleanup, ghost>>
    BY <1>16 DEF DeleteListedKey
  <2>4. SerialRequest(req[r])'
    BY <2>1, <2>2, <2>3 DEF SerialRequest
  <2>5. OneInFlight' /\ (\A p \in Requests : SerialRequest(req[p]))'
    BY <1>0, <2>1, <2>4, OthersStayIdle
  <2>6. ListedOK' /\ CurrentOK' /\ CleanupOK'
    BY <1>0, <2>2, <2>3 DEF ListedOK, CurrentOK, CleanupOK
  <2> QED  BY <1>0, <1>1, <2>3, <2>5, <2>6 DEF SerialOK
<1> QED  BY <1>3, <1>4, <1>5, <1>6, <1>7, <1>8, <1>9, <1>10, <1>11, <1>12, <1>13,
            <1>14, <1>15, <1>16 DEF Continue

(* Every step, of a request, a client, the background task or a crash. *)
LEMMA NextIsSerial ==
    VersionsInv /\ VersionsInv' /\ scenario \in Scenarios /\ SerialInv /\ [Next]_vars
      => SerialInv'
<1> SUFFICES ASSUME VersionsInv, VersionsInv', scenario \in Scenarios, [Next]_vars,
                    SerialInv, Orderly', life' # "deleted"
             PROVE  SerialOK'
  BY DEF SerialInv
<1>0. scenario' = scenario /\ Orderly /\ scenario.requests \subseteq Requests
  BY VersionsAssumption DEF Next, vars, Orderly, Faults
<1>1. life # "deleted"
  <2>1. life = "deleted" => life' = "deleted"
    BY DEF Next, vars, Begin, Continue, CreateMindMap, GetUploadUrl, UploadBlob, ConfirmUpload,
       DownloadBlob, DeleteVaultVersion, UpdateVaultMeta, DeleteMindMap,
       CreateUrl, CreateUrlFails, CreateUndo, PutObject, PutObjectFails,
       HeadObject, HeadObjectFails, SaveRow, SaveRowFails, RollBackSave, GetObject,
       DeleteVersionObject, DeleteVersionObjectFails, DeleteVersionRow,
       UpdateMindMapMeta, DeleteAttachmentsFails, ListVersionKeys, DeleteListedKey,
       DeleteListedKeyFails, DeleteRow, Cancel, ClientPut, CleanupObject, ServerCrash
  <2> QED  BY <2>1
<1>2. SerialOK
  BY <1>0, <1>1 DEF SerialInv
<1>3. /\ OneInFlight /\ ListedOK /\ CurrentOK /\ CleanupOK /\ RowOK(row)
      /\ pending \subseteq minted /\ LegacyOK
      /\ req \in [Requests -> Request] /\ req' \in [Requests -> Request]
      /\ \A p \in Requests : SerialRequest(req[p])
  BY <1>2 DEF SerialOK, VersionsInv, TypeOK
<1>4. ASSUME NEW r \in scenario.requests, Begin(r) PROVE SerialOK'
  BY <1>0, <1>1, <1>2, <1>4, BeginIsSerial
<1>5. ASSUME NEW r \in scenario.requests, Continue(r) PROVE SerialOK'
  BY <1>0, <1>1, <1>2, <1>5, ContinueIsSerial
<1>6. CASE (\E r \in scenario.requests : Cancel(r)) \/ ServerCrash
  <2>1. /\ UNCHANGED <<life, row, objects, minted, pending, ghost>> /\ cleanup' \subseteq cleanup
        /\ \A p \in Requests : req'[p] \in {req[p], Idle}
    BY <1>0, <1>3, <1>6 DEF Cancel, ServerCrash, Finish
  <2>2. OneInFlight' /\ (\A p \in Requests : SerialRequest(req[p]))'
    <3>1. OneInFlight'
      BY <1>0, <1>3, <2>1 DEF OneInFlight
    <3>2. ASSUME NEW p \in Requests PROVE SerialRequest(req[p])'
      <4>1. CASE req'[p] = Idle
        BY <4>1 DEF SerialRequest, Idle
      <4>2. CASE req'[p] = req[p]
        BY <1>3, <2>1, <4>2 DEF SerialRequest
      <4> QED  BY <2>1, <4>1, <4>2
    <3> QED  BY <3>1, <3>2
  <2>3. ListedOK' /\ CurrentOK' /\ CleanupOK'
    BY <1>3, <2>1 DEF ListedOK, CurrentOK, CleanupOK
  <2>4. life' = "absent" => row' = EmptyRow /\ \A p \in Requests : req'[p] = Idle
    BY <1>2, <2>1 DEF SerialOK
  <2> QED  BY <1>3, <2>1, <2>2, <2>3, <2>4 DEF SerialOK
<1>7. CASE \E v \in Versions : ClientPut(v)
  <2>1. /\ UNCHANGED <<life, row, minted, pending, req, cleanup, ghost>> /\ objects \subseteq objects'
    BY <1>7 DEF ClientPut
  <2>2. OneInFlight' /\ (\A p \in Requests : SerialRequest(req[p]))'
    BY <1>0, <1>3, <2>1 DEF OneInFlight, SerialRequest
  <2>3. ListedOK' /\ CurrentOK' /\ CleanupOK'
    BY <1>3, <2>1 DEF ListedOK, CurrentOK, CleanupOK
  <2> QED  BY <1>2, <1>3, <2>1, <2>2, <2>3 DEF SerialOK
<1>8. ASSUME NEW k \in Keys, CleanupObject(k) PROVE SerialOK'
  <2>1. /\ UNCHANGED <<life, row, minted, pending, req, ghost>> /\ objects \ {k} \subseteq objects'
        /\ cleanup' = cleanup \ {k} /\ k \in cleanup
    BY <1>8 DEF CleanupObject
  <2>2. PICK v \in minted \ pending : k = VersionKey(v)
    BY <1>3, <2>1 DEF CleanupOK
  <2>3. k # BaseKey
    BY <2>2, KeysDiffer DEF VersionsInv, TypeOK
  <2>4. OneInFlight' /\ (\A p \in Requests : SerialRequest(req[p]))'
    <3>1. ASSUME NEW p \in Requests PROVE SerialRequest(req[p])'
      <4>1. SerialRequest(req[p])
        BY <1>3
      <4>2. req[p].pc = "save" => VersionKey(req[p].vid) # k
        BY <2>1, <4>1 DEF SerialRequest
      <4> QED  BY <2>1, <4>1, <4>2 DEF SerialRequest
    <3> QED  BY <1>0, <1>3, <2>1, <3>1 DEF OneInFlight
  <2>5. ListedOK'
    <3>1. \A i \in DOMAIN row.version_history :
            row.version_history[i].object_key # None => row.version_history[i].object_key # k
      BY <1>3, <2>1 DEF ListedOK, RowOK, SnapshotOK
    <3> QED  BY <1>3, <2>1, <3>1 DEF ListedOK
  <2>6. CurrentOK'
    <3>1. row.current_version_id \notin LegacyIds \cup {None}
            => row.current_version_id \in Ids(row.version_history)
      BY <1>3, VersionsAssumption DEF RowOK, CurrentListedIn
    <3>2. row.current_version_id \notin LegacyIds \cup {None}
            => VersionKey(row.current_version_id) \notin cleanup
      BY <1>3, <3>1 DEF ListedOK, Ids
    <3> QED  BY <1>3, <2>1, <2>3, <3>2 DEF CurrentOK
  <2>7. CleanupOK'
    BY <1>3, <2>1 DEF CleanupOK
  <2> QED  BY <1>2, <1>3, <2>1, <2>4, <2>5, <2>6, <2>7 DEF SerialOK
<1>9. CASE UNCHANGED vars
  <2>1. OneInFlight' /\ (\A p \in Requests : SerialRequest(req[p]))'
    BY <1>3, <1>9 DEF vars, OneInFlight, SerialRequest
  <2>2. ListedOK' /\ CurrentOK' /\ CleanupOK'
    BY <1>3, <1>9 DEF vars, ListedOK, CurrentOK, CleanupOK
  <2> QED  BY <1>2, <1>3, <1>9, <2>1, <2>2 DEF SerialOK, vars
<1> QED  BY <1>4, <1>5, <1>6, <1>7, <1>8, <1>9 DEF Next

(* With one request at a time the invariant holds in every state. *)
THEOREM SerialInvariant == Spec => []SerialInv
<1>1. Init => scenario \in Scenarios
  BY DEF Init
<1>2. scenario \in Scenarios /\ [Next]_vars => (scenario \in Scenarios)'
  BY DEF Next, vars
<1> QED  BY <1>1, <1>2, InitIsSerial, NextIsSerial, VersionsInvariant, PTL DEF Spec

(* Neither a deletion of a version, nor a request that fails or is         *)
(* abandoned at any of its calls, takes the vault back to an older save.   *)
THEOREM LastSaveIsCurrent == Spec => []CurrentIsLastSave
<1>1. SerialInv => CurrentIsLastSave
  BY DEF SerialInv, SerialOK, CurrentOK, CurrentIsLastSave
<1> QED  BY <1>1, SerialInvariant, PTL

(* Retention, deletions of versions and the roll-backs of failed saves     *)
(* leave every version that the history lists, and the current one, with   *)
(* its object, until somebody asks for the vault to be deleted.            *)
THEOREM ListedVersionsLoad == Spec => []HistoryNeverDangles
<1>1. VersionsInv /\ SerialInv => HistoryNeverDangles
  <2> SUFFICES ASSUME VersionsInv, SerialInv, Orderly, life = "present", ~ghost.doomed
               PROVE  /\ \A i \in DOMAIN row.version_history :
                           LET s == row.version_history[i]
                           IN  s.object_key # None /\ s.version_id \notin ghost.dropped
                                 => s.object_key \in objects
                      /\ row.current_version_id # None
                           => ResolveBlobKey(row, None) \in objects
    BY DEF HistoryNeverDangles
  <2>1. ListedOK /\ CurrentOK /\ RowOK(row) /\ row \in Row
    BY DEF SerialInv, SerialOK, VersionsInv, TypeOK
  <2>2. \A i \in DOMAIN row.version_history :
          LET s == row.version_history[i]
          IN  s.object_key # None /\ s.version_id \notin ghost.dropped
                => s.object_key \in objects
    BY <2>1 DEF ListedOK
  <2>3. ASSUME row.current_version_id # None
        PROVE  ResolveBlobKey(row, None) \in objects
    <3> DEFINE c == row.current_version_id
               k == ResolveBlobKey(row, None)
    <3>1. Wanted(row, None) = c /\ c \in Versions
      BY <2>1, <2>3 DEF Wanted, Row
    <3>2. k # None
      <4>1. BaseKey # None
        BY BaseKeyAssumption DEF Keys
      <4> DEFINE own == KeysListed(NormalizeVersionHistory(row.version_history), c) \ {None}
      <4>2. k = IF c # None /\ own # {} THEN CHOOSE x \in own : TRUE ELSE BaseKey
        BY <3>1 DEF ResolveBlobKey
      <4>3. own # {} => (CHOOSE x \in own : TRUE) \in own
        OBVIOUS
      <4>4. None \notin own
        OBVIOUS
      <4> QED  BY <4>1, <4>2, <4>3, <4>4
    <3>3. ServesOnly(k, c)
      BY <2>1, <3>1, <3>2, ResolvesToOwnKey
    <3>4. \/ k = BaseKey
          \/ \E i \in DOMAIN row.version_history :
               /\ row.version_history[i].version_id = c
               /\ row.version_history[i].object_key = k
      BY <2>1, <3>1, <3>2, ResolvesToListedKey
    <3> HIDE DEF k
    <3>5. CASE k = BaseKey
      <4>1. c = LegacyCurrent
        BY <2>3, <3>1, <3>3, <3>5, KeysDiffer DEF ServesOnly
      <4> QED  BY <2>1, <3>5, <4>1, VersionsAssumption DEF CurrentOK, k
    <3>6. CASE k # BaseKey
      <4>1. k = VersionKey(c)
        BY <3>3, <3>6 DEF ServesOnly
      <4>2. c \notin LegacyIds
        BY <2>1, <3>2, <3>4, <3>6 DEF ListedOK
      <4> QED  BY <2>1, <2>3, <4>1, <4>2 DEF CurrentOK, k
    <3> QED  BY <3>5, <3>6 DEF k
  <2> QED  BY <2>2, <2>3
<1> QED  BY <1>1, VersionsInvariant, SerialInvariant, PTL

-----------------------------------------------------------------------------
(* The start-up migration. *)

Mig == [pc : MigrationPcs, seen : Row, left : Seq(Snapshot),
        done : Seq(Snapshot), listed : SUBSET LegacyIds,
        held : LegacyIds \cup {None}]

(* While a vault is being migrated: the copy of the row is a good one with *)
(* a current version; the snapshots still to do are good ones, those done  *)
(* have their own key; and a current version that is not a legacy one is   *)
(* among them.                                                             *)
CopyOK(g) ==
    /\ RowOK(g.seen)
    /\ g.seen.current_version_id # None
    /\ \A i \in DOMAIN g.left : SnapshotOK(g.left[i])
    /\ \A i \in DOMAIN g.done :
         g.done[i].object_key = VersionKey(g.done[i].version_id)
    /\ g.seen.current_version_id \notin LegacyIds =>
         g.seen.current_version_id \in Ids(g.left) \cup Ids(g.done)

(* The version in hand is a legacy one, and what is held are its bytes. *)
InHand(g) == IF g.left = <<>> THEN g.seen.current_version_id
             ELSE Head(g.left).version_id

RescueOK(g) ==
    /\ g.pc \in {"get", "put", "verify"} => InHand(g) \in LegacyIds
    /\ g.pc = "get" => \/ InHand(g) = g.seen.current_version_id
                       \/ InHand(g) \in g.listed
    /\ g.pc \in {"put", "verify"} => g.held = InHand(g)

MigOK(g) ==
    /\ g \in Mig
    /\ g.pc \notin {"maps", "serving"} => CopyOK(g)
    /\ g.listed # {} => site.versioned
    /\ RescueOK(g)

MigrationInv ==
    /\ VersionsInv
    /\ scenario \in Scenarios
    /\ site \in Sites
    /\ filed = [v \in Versions |-> v]
    /\ MigOK(mig)

-----------------------------------------------------------------------------
(* Steps of the migration turn a good state of it into a good one. *)

(* Before and after run there is nothing in hand. *)
LEMMA RestingOK ==
    /\ Starting \in Mig /\ MigOK(Starting)
    /\ Listening \in Mig /\ MigOK(Listening)
<1>1. <<>> \in Seq(Snapshot)
  BY EmptySeq
<1>2. EmptyRow \in Row
  BY EmptyRowOK
<1> QED  BY <1>1, <1>2 DEF Starting, Listening, Before, Mig, MigrationPcs,
                          MigOK, RescueOK

(* Going on to the next snapshot, whether or not this one is kept: the     *)
(* current version is not lost, unless it is a legacy one.                 *)
LEMMA OnwardOK ==
    ASSUME MigOK(mig), mig.pc \notin {"maps", "serving"},
           NEW done \in Seq(Snapshot),
           \A i \in DOMAIN done :
             done[i].object_key = VersionKey(done[i].version_id),
           Ids(mig.done) \subseteq Ids(done),
           mig.left # <<>> =>
             Head(mig.left).version_id \in Ids(done) \cup LegacyIds
    PROVE  MigOK(Onward(done))
<1> DEFINE g == Onward(done)
           rest == IF mig.left = <<>> THEN <<>> ELSE Tail(mig.left)
<1>1. mig \in Mig /\ CopyOK(mig)
  BY DEF MigOK
<1>2. g = [mig EXCEPT !.pc = "snapshot", !.left = rest, !.done = done,
                      !.held = None]
  BY DEF Onward
<1>3. rest \in Seq(Snapshot)
  BY <1>1, EmptySeq, HeadTailProperties DEF Mig
<1>4. \A i \in DOMAIN rest : \E j \in DOMAIN mig.left : rest[i] = mig.left[j]
  <2>1. CASE mig.left = <<>>
    BY <2>1
  <2>2. CASE mig.left # <<>>
    <3>1. mig.left \in Seq(Snapshot)
      BY <1>1 DEF Mig
    <3>2. /\ Len(Tail(mig.left)) = Len(mig.left) - 1
          /\ \A i \in 1..Len(Tail(mig.left)) : Tail(mig.left)[i] = mig.left[i + 1]
          /\ Len(mig.left) \in Nat
          /\ DOMAIN Tail(mig.left) = 1..Len(Tail(mig.left))
          /\ DOMAIN mig.left = 1..Len(mig.left)
      BY <2>2, <3>1, HeadTailProperties, LenProperties
    <3>3. \A i \in DOMAIN rest : i + 1 \in DOMAIN mig.left /\ rest[i] = mig.left[i + 1]
      BY <2>2, <3>2
    <3> QED  BY <3>3
  <2> QED  BY <2>1, <2>2
<1>5. Ids(mig.left) \subseteq Ids(rest) \cup
        (IF mig.left = <<>> THEN {} ELSE {Head(mig.left).version_id})
  <2>1. CASE mig.left = <<>>
    BY <2>1 DEF Ids
  <2>2. CASE mig.left # <<>>
    <3>1. mig.left \in Seq(Snapshot)
      BY <1>1 DEF Mig
    <3>2. /\ Len(Tail(mig.left)) = Len(mig.left) - 1
          /\ \A i \in 1..Len(Tail(mig.left)) : Tail(mig.left)[i] = mig.left[i + 1]
          /\ Len(mig.left) \in Nat /\ Head(mig.left) = mig.left[1]
          /\ DOMAIN Tail(mig.left) = 1..Len(Tail(mig.left))
          /\ DOMAIN mig.left = 1..Len(mig.left)
      BY <2>2, <3>1, HeadTailProperties, LenProperties
    <3>3. \A j \in DOMAIN mig.left :
            \/ j = 1
            \/ j - 1 \in DOMAIN rest /\ rest[j - 1] = mig.left[j]
      BY <2>2, <3>2
    <3>4. \A j \in DOMAIN mig.left :
            \/ mig.left[j] = Head(mig.left)
            \/ \E i \in DOMAIN rest : rest[i] = mig.left[j]
      BY <2>2, <3>2, <3>3
    <3> QED  BY <2>2, <3>4 DEF Ids
  <2> QED  BY <2>1, <2>2
<1>6. g \in Mig
  BY <1>1, <1>2, <1>3 DEF Mig, MigrationPcs
<1> HIDE DEF rest
<1>7. CopyOK(g)
  <2>1. g.seen = mig.seen /\ g.left = rest /\ g.done = done
    BY <1>1, <1>2 DEF Mig
  <2>2. \A i \in DOMAIN rest : SnapshotOK(rest[i])
    BY <1>1, <1>4 DEF CopyOK
  <2>3. mig.seen.current_version_id \notin LegacyIds =>
          mig.seen.current_version_id \in Ids(rest) \cup Ids(done)
    BY <1>1, <1>5 DEF CopyOK
  <2> QED  BY <1>1, <2>1, <2>2, <2>3 DEF CopyOK
<1>8. g.pc = "snapshot" /\ g.listed = mig.listed
  BY <1>1, <1>2 DEF Mig
<1> QED  BY <1>6, <1>7, <1>8 DEF MigOK, RescueOK

(* The version in hand, where it has no key or is the one to add. *)
LEMMA TargetIsLegacy ==
    ASSUME MigOK(mig), Rescuing
    PROVE  /\ Target \in LegacyIds /\ Target \in Versions
           /\ Target = InHand(mig)
           /\ mig.left # <<>> => Head(mig.left).version_id \in LegacyIds
<1>1. mig \in Mig /\ CopyOK(mig)
  BY DEF MigOK, Rescuing, Reached
<1>2. Target = InHand(mig)
  BY DEF Target, InHand
<1>3. CASE mig.left # <<>>
  <2>1. Head(mig.left) = mig.left[1] /\ 1 \in DOMAIN mig.left
    <3>1. mig.left \in Seq(Snapshot)
      BY <1>1 DEF Mig
    <3>2. Len(mig.left) \in Nat \ {0} /\ DOMAIN mig.left = 1..Len(mig.left)
      BY <1>3, <3>1, EmptySeq, LenProperties
    <3> QED  BY <3>2
  <2>2. SnapshotOK(Head(mig.left))
    BY <1>1, <2>1 DEF CopyOK
  <2>3. Head(mig.left).object_key = None /\ Head(mig.left) \in Snapshot
    BY <1>1, <1>3, HeadTailProperties DEF Rescuing, Mig
  <2>4. VersionKey(Head(mig.left).version_id) # None
    BY <2>3, BaseKeyAssumption DEF Keys, Snapshot
  <2> QED  BY <1>2, <1>3, <2>2, <2>3, <2>4, VersionsAssumption
           DEF SnapshotOK, Target
<1>4. CASE mig.left = <<>>
  <2>1. Target = mig.seen.current_version_id
    BY <1>4 DEF Target
  <2>2. mig.seen.current_version_id \notin Ids(mig.done)
    BY <1>4 DEF Rescuing, AllMoved
  <2>3. Ids(mig.left) = {}
    BY <1>4 DEF Ids
  <2> QED  BY <1>1, <1>2, <1>4, <2>1, <2>2, <2>3, VersionsAssumption
           DEF CopyOK
<1> QED  BY <1>3, <1>4

(* Keeping one more snapshot that has its own key. *)
LEMMA KeptOK ==
    ASSUME MigOK(mig), mig.pc \notin {"maps", "serving"},
           NEW s \in Snapshot, s.object_key = VersionKey(s.version_id),
           mig.left # <<>> => s.version_id = Head(mig.left).version_id
    PROVE  MigOK(Onward(Append(mig.done, s)))
<1> DEFINE done == Append(mig.done, s)
<1>1. mig.done \in Seq(Snapshot) /\ CopyOK(mig)
  BY DEF MigOK, Mig
<1>2. done \in Seq(Snapshot) /\ Len(done) = Len(mig.done) + 1
  BY <1>1, AppendProperties
<1>3. /\ DOMAIN mig.done = 1..Len(mig.done) /\ Len(mig.done) \in Nat
      /\ DOMAIN done = 1..(Len(mig.done) + 1)
      /\ \A i \in DOMAIN mig.done : done[i] = mig.done[i]
      /\ done[Len(mig.done) + 1] = s
  BY <1>1, <1>2, AppendProperties, LenProperties
<1> HIDE DEF done
<1>4. \A i \in DOMAIN done : i \in DOMAIN mig.done \/ done[i] = s
  BY <1>3
<1>5. \A i \in DOMAIN done : done[i].object_key = VersionKey(done[i].version_id)
  BY <1>1, <1>3, <1>4 DEF CopyOK
<1>6. DOMAIN mig.done \subseteq DOMAIN done /\ Len(mig.done) + 1 \in DOMAIN done
  BY <1>3
<1>7. Ids(mig.done) \subseteq Ids(done) /\ s.version_id \in Ids(done)
  BY <1>3, <1>6 DEF Ids
<1>8. MigOK(Onward(done))
  BY <1>2, <1>5, <1>7, OnwardOK
<1> QED  BY <1>8 DEF done

(* A rescue that ends, either way, leaves the migration in a good state. *)
LEMMA RescuedOK ==
    ASSUME MigOK(mig), mig.pc \notin {"maps", "serving"},
           InHand(mig) \in LegacyIds
    PROVE  MigOK(Rescued) /\ MigOK(NotRescued)
<1> DEFINE s == [version_id |-> Target, object_key |-> VersionKey(Target)]
<1>1. Target = InHand(mig)
  BY DEF Target, InHand
<1>2. Target \in Versions
  BY <1>1, VersionsAssumption
<1>3. /\ s \in Snapshot /\ s.object_key = VersionKey(s.version_id)
      /\ s.version_id = Target
  BY <1>2 DEF Snapshot, Keys
<1>4. mig.left # <<>> => Target = Head(mig.left).version_id
  BY DEF Target
<1>5. MigOK(Onward(Append(mig.done, s)))
  <2> HIDE DEF s
  <2> QED  BY <1>3, <1>4, KeptOK
<1>6. MigOK(Onward(mig.done))
  <2>1. mig.done \in Seq(Snapshot) /\ CopyOK(mig)
    BY DEF MigOK, Mig
  <2>2. mig.left # <<>> => Head(mig.left).version_id \in LegacyIds
    BY <1>1, <1>4
  <2> QED  BY <2>1, <2>2, OnwardOK DEF CopyOK
<1> QED  BY <1>5, <1>6, RestingOK DEF Rescued, NotRescued

-----------------------------------------------------------------------------
(* Every step keeps the invariant. *)

(* A step that leaves the vault alone, or only removes objects. *)
LEMMA VaultUntouched ==
    ASSUME VersionsInv, UNCHANGED <<row, Elsewhere>>, objects' \subseteq Keys
    PROVE  VersionsInv'
<1>1. RequestsOK'
  BY DEF VersionsInv, RequestsOK, Elsewhere
<1> QED  BY <1>1 DEF VersionsInv, TypeOK, LegacyOK, Elsewhere

(* A step of the migration keeps the invariant. *)
LEMMA MigrateKeepsInv ==
    ASSUME MigrationInv, Migrate
    PROVE  MigrationInv'
<1> USE DEF MigrationInv
<1>0. /\ mig \in Mig /\ VersionsInv /\ MigOK(mig)
      /\ row \in Row /\ RowOK(row) /\ objects \subseteq Keys
      /\ site \in Sites /\ scenario \in Scenarios
  BY DEF MigOK, VersionsInv, TypeOK
<1>1. ASSUME UNCHANGED <<row, Elsewhere>>, objects' \subseteq Keys,
             filed' = filed, MigOK(mig')
      PROVE  MigrationInv'
  <2>1. VersionsInv'
    BY <1>0, <1>1, VaultUntouched
  <2>2. MigOK(mig)'
    BY <1>1 DEF MigOK, Elsewhere
  <2> QED  BY <1>0, <1>1, <2>1, <2>2 DEF Elsewhere
<1>2. CASE ListMindMaps
  <2> DEFINE g == [Before("versions") EXCEPT !.seen = row,
                                             !.left = row.version_history]
  <2>1. row.version_history \in Seq(Snapshot) /\ <<>> \in Seq(Snapshot)
    BY <1>0, EmptySeq DEF Row
  <2>2. /\ g.pc = "versions" /\ g.seen = row /\ g.done = <<>>
        /\ g.left = row.version_history /\ g.listed = {}
    BY DEF Before
  <2>3. g \in Mig
    BY <1>0, <2>1 DEF Before, Mig, MigrationPcs
  <2> HIDE DEF g
  <2>4. ASSUME ~IsMigrated(row) PROVE CopyOK(g)
    <3>1. row.current_version_id # None
      BY <2>4 DEF IsMigrated
    <3>2. row.current_version_id \in Ids(row.version_history) \cup {LegacyCurrent}
      BY <1>0, <3>1 DEF RowOK, CurrentListedIn
    <3>3. row.current_version_id \notin LegacyIds =>
            row.current_version_id \in Ids(row.version_history)
      BY <3>2, VersionsAssumption
    <3>4. \A i \in DOMAIN row.version_history : SnapshotOK(row.version_history[i])
      BY <1>0 DEF RowOK
    <3> QED  BY <1>0, <2>2, <3>1, <3>3, <3>4 DEF CopyOK
  <2>5. ASSUME ~IsMigrated(row) PROVE MigOK(g)
    BY <2>2, <2>3, <2>4, <2>5 DEF MigOK, RescueOK
  <2>6. MigOK(mig')
    BY <1>2, <2>5, RestingOK DEF ListMindMaps, g
  <2> QED  BY <1>0, <1>1, <1>2, <2>6 DEF ListMindMaps
<1>3. CASE ListMindMapsFails
  BY <1>0, <1>1, <1>3, RestingOK DEF ListMindMapsFails
<1>4. CASE ListLegacyVersions
  <2>1. PICK listed \in
          {IF site.versioned THEN site.kept \cup {LegacyCurrent} ELSE {}}
            \cup (IF "store" \in Faults THEN {{}} ELSE {}) :
          mig' = [mig EXCEPT !.pc = "snapshot", !.listed = listed]
    BY <1>4 DEF ListLegacyVersions
  <2>2. listed \subseteq LegacyIds /\ (listed # {} => site.versioned)
    BY <1>0, <2>1, SitesAssumption, VersionsAssumption
  <2>3. /\ mig' \in Mig /\ mig'.pc = "snapshot" /\ mig'.listed = listed
        /\ mig'.seen = mig.seen /\ mig'.left = mig.left /\ mig'.done = mig.done
    BY <1>0, <2>1, <2>2 DEF Mig, MigrationPcs
  <2>4. CopyOK(mig')
    BY <1>0, <1>4, <2>3 DEF ListLegacyVersions, Reached, MigOK, CopyOK
  <2>5. MigOK(mig')
    BY <2>2, <2>3, <2>4 DEF MigOK, RescueOK
  <2> QED  BY <1>0, <1>1, <1>4, <2>5 DEF ListLegacyVersions
<1>5. CASE KeepKeyed
  <2>1. mig.left # <<>> /\ Head(mig.left) \in Snapshot
        /\ Head(mig.left).object_key # None /\ mig.pc = "snapshot"
    BY <1>0, <1>5, HeadTailProperties DEF KeepKeyed, Mig, Reached
  <2>2. SnapshotOK(Head(mig.left))
    <3>1. Len(mig.left) \in Nat \ {0} /\ DOMAIN mig.left = 1..Len(mig.left)
      BY <1>0, <2>1, EmptySeq, LenProperties DEF Mig
    <3>2. Head(mig.left) = mig.left[1] /\ 1 \in DOMAIN mig.left
      BY <3>1
    <3> QED  BY <1>0, <2>1, <3>2 DEF MigOK, CopyOK
  <2>3. Head(mig.left).object_key = VersionKey(Head(mig.left).version_id)
    BY <2>1, <2>2 DEF SnapshotOK
  <2>4. MigOK(mig')
    BY <1>0, <1>5, <2>1, <2>3, KeptOK DEF KeepKeyed
  <2> QED  BY <1>0, <1>1, <1>5, <2>4 DEF KeepKeyed
<1>6. CASE HeadCopyFinds
  <2>1. InHand(mig) \in LegacyIds /\ mig.pc = "snapshot"
    BY <1>0, <1>6, TargetIsLegacy DEF HeadCopyFinds, Rescuing, Reached
  <2>2. MigOK(mig')
    BY <1>0, <1>6, <2>1, RescuedOK DEF HeadCopyFinds
  <2> QED  BY <1>0, <1>1, <1>6, <2>2 DEF HeadCopyFinds
<1>7. CASE HeadCopyMisses
  <2>1. /\ InHand(mig) \in LegacyIds /\ mig.pc = "snapshot"
        /\ Target = InHand(mig)
    BY <1>0, <1>7, TargetIsLegacy DEF HeadCopyMisses, Rescuing, Reached
  <2>2. CASE IsCurrent \/ Target \in mig.listed
    <3> DEFINE g == [mig EXCEPT !.pc = "get"]
    <3>1. /\ g \in Mig /\ g.pc = "get" /\ g.listed = mig.listed
          /\ g.seen = mig.seen /\ g.left = mig.left /\ g.done = mig.done
      BY <1>0 DEF Mig, MigrationPcs
    <3> HIDE DEF g
    <3>2. CopyOK(g) /\ InHand(g) = InHand(mig)
      BY <1>0, <2>1, <3>1 DEF MigOK, CopyOK, InHand
    <3>3. MigOK(g)
      BY <1>0, <2>1, <2>2, <3>1, <3>2 DEF MigOK, RescueOK, IsCurrent
    <3>4. mig' = g
      BY <1>7, <2>2 DEF HeadCopyMisses, g
    <3> QED  BY <1>0, <1>1, <1>7, <3>3, <3>4 DEF HeadCopyMisses
  <2>3. CASE ~(IsCurrent \/ Target \in mig.listed)
    <3>1. MigOK(mig')
      BY <1>0, <1>7, <2>1, <2>3, RescuedOK DEF HeadCopyMisses
    <3> QED  BY <1>0, <1>1, <1>7, <3>1 DEF HeadCopyMisses
  <2> QED  BY <2>2, <2>3
<1>8. CASE GetSource
  <2>1. mig.pc = "get" /\ Target = InHand(mig) /\ InHand(mig) \in LegacyIds
    BY <1>0, <1>8 DEF GetSource, Reached, MigOK, RescueOK, Target, InHand
  <2>2. CASE Source = {}
    <3>1. MigOK(mig')
      BY <1>0, <1>8, <2>1, <2>2, RescuedOK DEF GetSource
    <3> QED  BY <1>0, <1>1, <1>8, <3>1 DEF GetSource
  <2>3. CASE Source # {}
    <3>1. PICK b \in Source : mig' = [mig EXCEPT !.pc = "put", !.held = b]
      BY <1>8, <2>3 DEF GetSource
    <3>2. b = InHand(mig)
      <4>1. CASE IsCurrent
        <5>1. b = LegacyCurrent
          BY <3>1, <4>1 DEF Source
        <5>2. mig.seen.current_version_id \in LegacyIds
          BY <2>1, <4>1 DEF IsCurrent
        <5>3. mig.seen.current_version_id = LegacyCurrent
          BY <1>0, <2>1, <5>2 DEF MigOK, CopyOK, RowOK
        <5> QED  BY <2>1, <4>1, <5>1, <5>3 DEF IsCurrent
      <4>2. CASE ~IsCurrent
        <5>1. InHand(mig) \in mig.listed
          BY <1>0, <2>1, <4>2 DEF MigOK, RescueOK, IsCurrent
        <5>2. site.versioned
          BY <1>0, <5>1 DEF MigOK
        <5> QED  BY <2>1, <3>1, <4>2, <5>2 DEF Source
      <4> QED  BY <4>1, <4>2
    <3>3. /\ mig' \in Mig /\ mig'.pc = "put" /\ mig'.held = b
          /\ mig'.seen = mig.seen /\ mig'.left = mig.left
          /\ mig'.done = mig.done /\ mig'.listed = mig.listed
      BY <1>0, <2>1, <3>1, <3>2 DEF Mig, MigrationPcs
    <3>4. CopyOK(mig') /\ InHand(mig') = InHand(mig)
      BY <1>0, <2>1, <3>3 DEF MigOK, CopyOK, InHand
    <3>5. MigOK(mig')
      BY <1>0, <2>1, <3>2, <3>3, <3>4 DEF MigOK, RescueOK
    <3> QED  BY <1>0, <1>1, <1>8, <3>5 DEF GetSource
  <2> QED  BY <2>2, <2>3
<1>9. ASSUME Reached("put"), StoreCopy, UNCHANGED <<row, Elsewhere>>,
             MigOK(mig')
      PROVE  MigrationInv'
  <2>1. /\ Target \in Versions /\ mig.held = Target
    BY <1>0, <1>9, VersionsAssumption
       DEF Reached, MigOK, RescueOK, Target, InHand
  <2>2. objects' \subseteq Keys
    BY <1>0, <1>9, <2>1 DEF StoreCopy, Keys
  <2>3. filed' = [v \in Versions |-> v]
    BY <1>9, <2>1 DEF StoreCopy
  <2>4. VersionsInv'
    BY <1>0, <1>9, <2>2, VaultUntouched
  <2>5. MigOK(mig)'
    BY <1>9 DEF MigOK, Elsewhere
  <2> QED  BY <1>0, <1>9, <2>3, <2>4, <2>5 DEF Elsewhere
<1>10. CASE PutCopy
  <2>1. mig.pc = "put" /\ mig' = [mig EXCEPT !.pc = "verify"]
    BY <1>10 DEF PutCopy, Reached
  <2>2. /\ mig' \in Mig /\ mig'.pc = "verify" /\ mig'.held = mig.held
        /\ mig'.seen = mig.seen /\ mig'.left = mig.left
        /\ mig'.done = mig.done /\ mig'.listed = mig.listed
    BY <1>0, <2>1 DEF Mig, MigrationPcs
  <2>3. CopyOK(mig') /\ InHand(mig') = InHand(mig)
    BY <1>0, <2>1, <2>2 DEF MigOK, CopyOK, InHand
  <2>4. MigOK(mig')
    BY <1>0, <2>1, <2>2, <2>3 DEF MigOK, RescueOK
  <2> QED  BY <1>9, <1>10, <2>4 DEF PutCopy
<1>11. CASE PutCopyFails
  <2>1. CASE StoreCopy
    BY <1>9, <1>11, <2>1, RestingOK DEF PutCopyFails
  <2>2. CASE UNCHANGED <<objects, filed>>
    BY <1>0, <1>1, <1>11, <2>2, RestingOK DEF PutCopyFails
  <2> QED  BY <1>11, <2>1, <2>2 DEF PutCopyFails
<1>12. CASE VerifyCopy
  <2>1. mig.pc = "verify" /\ InHand(mig) \in LegacyIds
    BY <1>0, <1>12 DEF VerifyCopy, Reached, MigOK, RescueOK
  <2>2. MigOK(mig')
    BY <1>0, <1>12, <2>1, RescuedOK, RestingOK DEF VerifyCopy
  <2> QED  BY <1>0, <1>1, <1>12, <2>2 DEF VerifyCopy
<1>13. CASE ReadFails
  BY <1>0, <1>1, <1>13, RestingOK DEF ReadFails
<1>14. ASSUME Reached("snapshot"), AllMoved,
              UpdateMindMapUpload(mig.seen.current_version_id, mig.done),
              UNCHANGED <<objects, filed, Elsewhere>>, MigOK(mig')
       PROVE  MigrationInv'
  <2> DEFINE c == mig.seen.current_version_id
             m == [row EXCEPT !.current_version_id = c,
                              !.version_history = mig.done]
  <2>1. CopyOK(mig) /\ mig.done \in Seq(Snapshot) /\ c \in Versions
    BY <1>0, <1>14 DEF MigOK, Reached, Mig, Row, CopyOK
  <2>2. m \in Row /\ m.current_version_id = c /\ m.version_history = mig.done
    BY <1>0, <2>1 DEF Row
  <2>3. RowOK(m)
    <3>1. CurrentListedIn(m)
      BY <1>14, <2>1, <2>2, VersionsAssumption DEF AllMoved, CurrentListedIn
    <3>2. c \in LegacyIds => c = LegacyCurrent
      BY <2>1 DEF CopyOK, RowOK
    <3>3. \A i \in DOMAIN mig.done : SnapshotOK(mig.done[i])
      BY <2>1 DEF CopyOK, SnapshotOK
    <3> QED  BY <2>2, <3>1, <3>2, <3>3 DEF RowOK
  <2>4. row' = m \/ row' = row
    BY <1>14 DEF UpdateMindMapUpload
  <2> HIDE DEF m, c
  <2>5. row' \in Row /\ RowOK(row')
    BY <1>0, <2>2, <2>3, <2>4
  <2>6. RequestsOK'
    BY <1>0, <1>14 DEF VersionsInv, RequestsOK, Elsewhere
  <2>7. VersionsInv'
    BY <1>0, <1>14, <2>5, <2>6 DEF VersionsInv, TypeOK, LegacyOK, Elsewhere
  <2>8. MigOK(mig)'
    BY <1>14 DEF MigOK, Elsewhere
  <2> QED  BY <1>0, <1>14, <2>7, <2>8 DEF Elsewhere
<1>15. CASE WriteRow
  <2>1. mig.pc = "snapshot" /\ mig' = [mig EXCEPT !.pc = "bare"]
    BY <1>15 DEF WriteRow, Reached
  <2>2. /\ mig' \in Mig /\ mig'.pc = "bare" /\ mig'.listed = mig.listed
        /\ mig'.seen = mig.seen /\ mig'.left = mig.left /\ mig'.done = mig.done
    BY <1>0, <2>1 DEF Mig, MigrationPcs
  <2>3. CopyOK(mig')
    BY <1>0, <2>1, <2>2 DEF MigOK, CopyOK
  <2>4. MigOK(mig')
    BY <1>0, <2>2, <2>3 DEF MigOK, RescueOK
  <2> QED  BY <1>14, <1>15, <2>4 DEF WriteRow
<1>16. CASE WriteRowFails
  <2>1. CASE row' = row
    BY <1>0, <1>1, <1>16, <2>1, RestingOK DEF WriteRowFails
  <2>2. CASE UpdateMindMapUpload(mig.seen.current_version_id, mig.done)
    BY <1>14, <1>16, <2>2, RestingOK DEF WriteRowFails
  <2> QED  BY <1>16, <2>1, <2>2 DEF WriteRowFails
<1>17. CASE DeleteBareKey
  BY <1>0, <1>1, <1>17, RestingOK DEF DeleteBareKey
<1> QED  BY <1>2, <1>3, <1>4, <1>5, <1>6, <1>7, <1>8, <1>10, <1>11, <1>12,
            <1>13, <1>15, <1>16, <1>17 DEF Migrate

(* Requests, clients and restarts are steps of VaultVersions; a restart    *)
(* begins the migration afresh.                                            *)
LEMMA MigrationNextKeepsInv ==
    MigrationInv /\ [MigrationNext]_migVars => MigrationInv'
<1> SUFFICES ASSUME MigrationInv, [MigrationNext]_migVars
             PROVE  MigrationInv'
  OBVIOUS
<1>0. VersionsInv /\ scenario \in Scenarios /\ MigOK(mig)
  BY DEF MigrationInv
<1>1. CASE Migrate
  BY <1>1, MigrateKeepsInv
<1>2. CASE Serve
  <2>1. Next
    BY <1>2 DEF Serve, Next
  <2>2. VersionsInv'
    BY <1>0, <2>1, NextKeepsInv
  <2>3. UNCHANGED <<scenario, site, filed, mig>>
    BY <1>2 DEF Serve
  <2>4. MigOK(mig)'
    BY <1>0, <2>3 DEF MigOK
  <2> QED  BY <2>2, <2>3, <2>4 DEF MigrationInv
<1>3. CASE Restart
  <2>1. Next
    BY <1>3 DEF Restart, Next
  <2>2. VersionsInv'
    BY <1>0, <2>1, NextKeepsInv
  <2>3. UNCHANGED <<scenario, site, filed>> /\ mig' = Starting
    BY <1>3 DEF Restart
  <2>4. MigOK(mig)'
    BY <2>3, RestingOK DEF MigOK
  <2> QED  BY <2>2, <2>3, <2>4 DEF MigrationInv
<1>4. CASE UNCHANGED migVars
  <2>1. UNCHANGED <<vars, scenario, site, filed, mig>>
    BY <1>4 DEF migVars, vars
  <2>2. VersionsInv'
    BY <1>0, <2>1, NextKeepsInv
  <2>3. MigOK(mig)'
    BY <1>0, <2>1 DEF MigOK
  <2> QED  BY <2>1, <2>2, <2>3 DEF MigrationInv
<1> QED  BY <1>1, <1>2, <1>3, <1>4 DEF MigrationNext

(* Every reachable state of the server and its migration is a good one. *)
THEOREM MigrationInvariant == MigrationSpec => []MigrationInv
<1>1. MigrationInit => MigrationInv
  <2> SUFFICES ASSUME MigrationInit PROVE MigrationInv
    OBVIOUS
  <2>1. VersionsInv /\ scenario \in Scenarios
    BY InitEstablishesInv DEF MigrationInit, Init
  <2> QED  BY <2>1, RestingOK DEF MigrationInit, MigrationInv
<1> QED  BY <1>1, MigrationNextKeepsInv, PTL DEF MigrationSpec

-----------------------------------------------------------------------------
(* The theorems about the code. *)

(* The vault, the store, every request and the migration keep their shape. *)
THEOREM MigrationTypes == MigrationSpec => []MigrationTypeOK
<1>1. MigrationInv => MigrationTypeOK
  BY DEF MigrationInv, VersionsInv, MigrationTypeOK, MigOK, Mig
<1> QED  BY <1>1, MigrationInvariant, PTL

(* However often rescue_version is interrupted, fails or runs again, on    *)
(* whatever store, and with other replicas saving and deleting meanwhile,  *)
(* it never stores one version's bytes under another one's id.             *)
THEOREM CopiesAreFaithful == MigrationSpec => []CopiesKeepTheirBytes
<1>1. MigrationInv => CopiesKeepTheirBytes
  BY DEF MigrationInv, CopiesKeepTheirBytes
<1> QED  BY <1>1, MigrationInvariant, PTL

(* The migration never rewrites a row so that a download resolves to       *)
(* another version's object, not even one that read the row before.        *)
THEOREM MigratedDownloadsServeWanted == MigrationSpec => []DownloadServesWanted
<1>1. MigrationInv => DownloadServesWanted
  <2> SUFFICES ASSUME VersionsInv, NEW r \in Requests, Doing(r, "download")
               PROVE  ServesOnly(ResolveBlobKey(req[r].seen, req[r].vid),
                                 Wanted(req[r].seen, req[r].vid))
    BY DEF MigrationInv, DownloadServesWanted
  <2>1. req[r] \in Request /\ RequestOK(req[r])
    BY DEF VersionsInv, TypeOK, RequestsOK
  <2>2. /\ req[r].seen \in Row /\ RowOK(req[r].seen)
        /\ req[r].vid \in Versions \cup {None}
        /\ ResolveBlobKey(req[r].seen, req[r].vid) # None
    BY <2>1 DEF Request, RequestOK, Doing
  <2> QED  BY <2>2, ResolvesToOwnKey
<1> QED  BY <1>1, MigrationInvariant, PTL

-----------------------------------------------------------------------------
(* One version, one key: whatever the requests did to the history, two     *)
(* snapshots of the same version agree on where its bytes are.             *)

Alike(h) ==
    \A i, j \in DOMAIN h :
        h[i].version_id = h[j].version_id => h[i].object_key = h[j].object_key

AlikeInv ==
    /\ Alike(row.version_history)
    /\ \A r \in Requests : Alike(req[r].seen.version_history)

KeyedIn(h, v) ==
    \E i \in DOMAIN h : h[i].version_id = v /\ h[i].object_key # None

(* A history made of snapshots of an alike one and of keyed ones is alike. *)
LEMMA AlikeIsInherited ==
    ASSUME NEW h, Alike(h), NEW g, NEW v \in Versions, v \notin LegacyIds,
           \A i \in DOMAIN h : SnapshotOK(h[i]),
           \A n \in DOMAIN g :
             \/ g[n] = [version_id |-> v, object_key |-> VersionKey(v)]
             \/ \E i \in DOMAIN h : g[n] = h[i]
    PROVE  Alike(g)
<1> DEFINE s == [version_id |-> v, object_key |-> VersionKey(v)]
<1>1. \A i \in DOMAIN h : h[i].version_id = v => h[i].object_key = VersionKey(v)
  BY DEF SnapshotOK
<1>2. s.version_id = v /\ s.object_key = VersionKey(v)
  OBVIOUS
<1>3. \A n \in DOMAIN g : g[n] = s \/ \E i \in DOMAIN h : g[n] = h[i]
  OBVIOUS
<1> HIDE DEF s
<1> SUFFICES ASSUME NEW a \in DOMAIN g, NEW b \in DOMAIN g,
                    g[a].version_id = g[b].version_id
             PROVE  g[a].object_key = g[b].object_key
  BY DEF Alike
<1> QED  BY <1>1, <1>2, <1>3 DEF Alike

(* What a save writes: the version it saves and snapshots of its copy.     *)
LEMMA SaveListsNoMore ==
    ASSUME NEW m \in Row, NEW v \in Versions, NEW n \in MaxVersionsValues
    PROVE  LET g == PruneHistory(Pushed(m, v), n)
           IN  \A i \in DOMAIN g :
                 \/ g[i] = [version_id |-> v, object_key |-> VersionKey(v)]
                 \/ \E j \in DOMAIN m.version_history :
                      g[i] = m.version_history[j]
<1> DEFINE h == NormalizeVersionHistory(m.version_history)
           s == [version_id |-> v, object_key |-> VersionKey(v)]
           p == Pushed(m, v)
           g == PruneHistory(p, n)
<1>1. m.version_history \in Seq(Snapshot)
  BY DEF Row
<1>2. /\ h \in Seq(Snapshot)
      /\ \A i \in DOMAIN h :
           \E j \in DOMAIN m.version_history : h[i] = m.version_history[j]
  BY <1>1, NormalizeProperties
<1>3. s \in Snapshot
  BY DEF Snapshot, Keys
<1>4. p = Append(h, s)
  BY DEF Pushed
<1> HIDE DEF h, s, p
<1>5. /\ p \in Seq(Snapshot) /\ p # <<>> /\ Len(p) = Len(h) + 1
      /\ \A i \in 1..Len(h) : p[i] = h[i]
      /\ p[Len(h) + 1] = s
  BY <1>2, <1>3, <1>4, AppendProperties
<1>6. /\ DOMAIN p = 1..(Len(h) + 1) /\ DOMAIN h = 1..Len(h)
      /\ Len(h) \in Nat
  BY <1>2, <1>5, LenProperties
<1>7. \A i \in DOMAIN p : p[i] = s \/ \E j \in DOMAIN h : p[i] = h[j]
  BY <1>5, <1>6
<1>8. n \in Nat
  BY VersionsAssumption
<1>9. \A i \in DOMAIN g : \E j \in DOMAIN p : g[i] = p[j]
  BY <1>5, <1>8, PruneProperties
<1> HIDE DEF g
<1>10. \A i \in DOMAIN g :
         g[i] = s \/ \E j \in DOMAIN m.version_history : g[i] = m.version_history[j]
  BY <1>2, <1>7, <1>9
<1> QED  BY <1>10 DEF g, s, p

(* How the row changes, if it does, in a step of VaultVersions.            *)
LEMMA RowChanges ==
    ASSUME VersionsInv, scenario \in Scenarios, NEW r \in Requests,
           Begin(r) \/ Continue(r)
    PROVE  \/ row'.version_history = row.version_history
              /\ row'.current_version_id = row.current_version_id
           \/ life = "absent" /\ row' = EmptyRow
           \/ /\ req[r].pc = "save" /\ life = "present"
              /\ row'.current_version_id = req[r].vid
              /\ row'.version_history = SavedHistory(r)
           \/ /\ req[r].pc = "delete_write" /\ life = "present"
              /\ row'.current_version_id = req[r].seen.current_version_id
              /\ row'.version_history =
                   Without(NormalizeVersionHistory(req[r].seen.version_history),
                           req[r].vid)
<1>1. row \in Row
  BY DEF VersionsInv, TypeOK
<1>2. CASE Begin(r)
  BY <1>2 DEF Begin, CreateMindMap, GetUploadUrl, UploadBlob, ConfirmUpload,
     DownloadBlob, DeleteVaultVersion, UpdateVaultMeta, DeleteMindMap
<1>3. CASE SaveRow(r) \/ SaveRowFails(r)
  <2> DEFINE g == SavedHistory(r)
  <2>1. req[r].pc = "save" /\ (row' = row \/ UpdateMindMapUpload(req[r].vid, g))
    BY <1>3 DEF SaveRow, SaveRowFails, Doing
  <2> HIDE DEF g
  <2> QED  BY <1>1, <2>1 DEF UpdateMindMapUpload, Row, g
<1>4. CASE DeleteVersionRow(r)
  <2> DEFINE g == Without(NormalizeVersionHistory(req[r].seen.version_history),
                          req[r].vid)
             c == req[r].seen.current_version_id
  <2>1. req[r].pc = "delete_write" /\ (row' = row \/ UpdateMindMapUpload(c, g))
    BY <1>4 DEF DeleteVersionRow, Doing
  <2> HIDE DEF g, c
  <2> QED  BY <1>1, <2>1 DEF UpdateMindMapUpload, Row, g, c
<1>5. CASE UpdateMindMapMeta(r)
  BY <1>1, <1>5 DEF UpdateMindMapMeta, Row
<1>6. CASE Continue(r) /\ ~(SaveRow(r) \/ SaveRowFails(r)
                            \/ DeleteVersionRow(r) \/ UpdateMindMapMeta(r))
  BY <1>6 DEF Continue, CreateUrl, CreateUrlFails, CreateUndo, PutObject,
     PutObjectFails, HeadObject, HeadObjectFails, RollBackSave, GetObject,
     DeleteVersionObject, DeleteVersionObjectFails, DeleteAttachmentsFails,
     ListVersionKeys, DeleteListedKey, DeleteListedKeyFails, DeleteRow
<1> QED  BY <1>2, <1>3, <1>4, <1>5, <1>6

(* What requests have in hand after a step: what they had, nothing, the    *)
(* row, or a row without history.                                          *)
LEMMA CopiesChange ==
    ASSUME VersionsInv, scenario \in Scenarios, NEW r \in Requests,
           Begin(r) \/ Continue(r) \/ Cancel(r), NEW p \in Requests
    PROVE  \/ req'[p].seen = req[p].seen
           \/ req'[p].seen = row
           \/ \E n \in Nat : req'[p].seen = [EmptyRow EXCEPT !.max_versions = n]
<1>1. req \in [Requests -> Request] /\ DefaultMaxVersions \in Nat
  BY VersionsAssumption DEF VersionsInv, TypeOK
<1>2. EmptyRow = [EmptyRow EXCEPT !.max_versions = DefaultMaxVersions]
  BY DEF EmptyRow
<1>3. Idle.seen = EmptyRow
  BY DEF Idle
<1>4. ASSUME Finish(r) PROVE req'[p].seen \in {req[p].seen, EmptyRow}
  BY <1>1, <1>3, <1>4 DEF Finish
<1>5. ASSUME NEW pc, Goto(r, pc) PROVE req'[p].seen = req[p].seen
  BY <1>1, <1>5 DEF Goto, Request
<1>6. ASSUME NEW pc, NEW m, NEW v, FindOwned(r, pc, m, v)
      PROVE  req'[p].seen \in {req[p].seen, m}
  BY <1>1, <1>6 DEF FindOwned
<1>7. CASE Begin(r)
  <2>1. CASE CreateMindMap(r)
    BY <1>5, <2>1 DEF CreateMindMap
  <2>2. CASE GetUploadUrl(r)
    BY <2>2 DEF GetUploadUrl
  <2>3. CASE UploadBlob(r) \/ ConfirmUpload(r) \/ DownloadBlob(r) \/ DeleteVaultVersion(r)
    BY <1>6, <2>3 DEF UploadBlob, ConfirmUpload, DownloadBlob, DeleteVaultVersion
  <2>4. CASE UpdateVaultMeta(r)
    <3>1. PICK n \in scenario.limits :
            FindOwned(r, "meta", [EmptyRow EXCEPT !.max_versions = n], None)
      BY <2>4 DEF UpdateVaultMeta
    <3>2. n \in Nat
      BY <3>1, VersionsAssumption
    <3> QED  BY <1>6, <3>1, <3>2
  <2>5. CASE DeleteMindMap(r)
    BY <1>1, <1>2, <1>6, <2>5 DEF DeleteMindMap
  <2> QED  BY <1>7, <2>1, <2>2, <2>3, <2>4, <2>5 DEF Begin
<1>8. CASE Continue(r)
  <2>1. CASE ListVersionKeys(r)
    BY <1>1, <2>1 DEF ListVersionKeys, Request
  <2>2. CASE DeleteListedKey(r)
    BY <1>1, <2>2 DEF DeleteListedKey, Request
  <2>3. CASE ~ListVersionKeys(r) /\ ~DeleteListedKey(r)
    <3>1. Finish(r) \/ \E pc \in Pcs : Goto(r, pc)
      BY <1>8, <2>3 DEF Continue, CreateUrl, CreateUrlFails, CreateUndo,
         PutObject, PutObjectFails, HeadObject, HeadObjectFails, SaveRow,
         SaveRowFails, RollBackSave, GetObject, DeleteVersionObject,
         DeleteVersionObjectFails, DeleteVersionRow, UpdateMindMapMeta,
         DeleteAttachmentsFails, DeleteListedKeyFails, DeleteRow, Pcs
    <3> QED  BY <1>1, <1>2, <1>4, <1>5, <3>1
  <2> QED  BY <2>1, <2>2, <2>3
<1>9. CASE Cancel(r)
  BY <1>1, <1>2, <1>4, <1>9 DEF Cancel
<1> QED  BY <1>7, <1>8, <1>9

(* What the migration leaves alone, and the only thing it writes.          *)
LEMMA MigrateWrites ==
    ASSUME MigrationInv, Migrate
    PROVE  /\ UNCHANGED Elsewhere
           /\ \/ row' = row
              \/ /\ Reached("snapshot") /\ AllMoved /\ objects' = objects
                 /\ UpdateMindMapUpload(mig.seen.current_version_id, mig.done)
                 /\ mig'.pc \in {"bare", "serving"}
<1>1. mig \in Mig
  BY DEF MigrationInv, MigOK
<1>2. Listening.pc = "serving"
  BY DEF Listening, Before
<1>3. CASE WriteRow
  BY <1>1, <1>3 DEF WriteRow, Mig
<1>4. CASE WriteRowFails
  BY <1>2, <1>4 DEF WriteRowFails
<1> QED  BY <1>3, <1>4 DEF Migrate, ListMindMaps, ListMindMapsFails,
            ListLegacyVersions, KeepKeyed, HeadCopyFinds, HeadCopyMisses,
            GetSource, PutCopy, PutCopyFails, VerifyCopy, ReadFails, DeleteBareKey

(* Requests, clients, restarts and the migration keep histories alike.     *)
LEMMA NextIsAlike ==
    MigrationInv /\ AlikeInv /\ [MigrationNext]_migVars => AlikeInv'
<1> SUFFICES ASSUME MigrationInv, AlikeInv, [MigrationNext]_migVars
             PROVE  AlikeInv'
  OBVIOUS
<1>0. /\ VersionsInv /\ scenario \in Scenarios /\ MigOK(mig)
      /\ row \in Row /\ RowOK(row) /\ req \in [Requests -> Request]
      /\ \A r \in Requests : RequestOK(req[r]) /\ req[r] \in Request
      /\ scenario.requests \subseteq Requests
  BY VersionsAssumption DEF MigrationInv, VersionsInv, TypeOK, RequestsOK
<1>1. Alike(<<>>) /\ EmptyRow.version_history = <<>>
  BY DEF Alike, EmptyRow
<1>2. \A n : [EmptyRow EXCEPT !.max_versions = n].version_history = <<>>
  BY DEF EmptyRow
<1>3. CASE Migrate
  <2>1. UNCHANGED <<req, life>>
    BY <1>3, MigrateWrites DEF Elsewhere
  <2>2. CASE row' = row
    BY <2>1, <2>2 DEF AlikeInv
  <2>3. CASE row' # row
    <3>1. /\ Reached("snapshot")
          /\ UpdateMindMapUpload(mig.seen.current_version_id, mig.done)
      BY <1>3, <2>3, MigrateWrites
    <3>2. row'.version_history = mig.done
      BY <1>0, <2>3, <3>1 DEF UpdateMindMapUpload, Row
    <3>3. Alike(mig.done)
      BY <1>0, <3>1 DEF MigOK, Reached, CopyOK, Alike
    <3> QED  BY <2>1, <3>2, <3>3 DEF AlikeInv
  <2> QED  BY <2>2, <2>3
<1>4. ASSUME NEW r \in scenario.requests, Begin(r) \/ Continue(r) \/ Cancel(r)
      PROVE  AlikeInv'
  <2>1. ASSUME NEW p \in Requests PROVE Alike(req'[p].seen.version_history)
    BY <1>0, <1>1, <1>2, <1>4, CopiesChange DEF AlikeInv
  <2>2. CASE row'.version_history = row.version_history
    BY <2>1, <2>2 DEF AlikeInv
  <2>3. CASE row' = EmptyRow
    BY <1>1, <2>1, <2>3 DEF AlikeInv
  <2>4. CASE req[r].pc = "save" /\ row'.version_history = SavedHistory(r)
    <3> DEFINE m == req[r].seen
               v == req[r].vid
               h == m.version_history
               g == row'.version_history
    <3>1. /\ m \in Row /\ v \in Versions /\ v \notin LegacyIds
          /\ m.max_versions \in MaxVersionsValues
          /\ \A i \in DOMAIN h : SnapshotOK(h[i])
      BY <1>0, <2>4 DEF Request, RequestOK, RowOK, Row
    <3>2. g = PruneHistory(Pushed(m, v), m.max_versions)
      BY <2>4 DEF SavedHistory
    <3>3. Alike(h)
      BY <1>0 DEF AlikeInv
    <3> HIDE DEF m, v, g
    <3>4. \A i \in DOMAIN g :
            \/ g[i] = [version_id |-> v, object_key |-> VersionKey(v)]
            \/ \E j \in DOMAIN h : g[i] = h[j]
      BY <3>1, <3>2, SaveListsNoMore
    <3> HIDE DEF h
    <3>5. Alike(g)
      BY <3>1, <3>3, <3>4, AlikeIsInherited
    <3> QED  BY <2>1, <3>5 DEF AlikeInv, g
  <2>5. CASE row'.version_history =
               Without(NormalizeVersionHistory(req[r].seen.version_history),
                       req[r].vid)
    <3> DEFINE m == req[r].seen
               g == row'.version_history
    <3>1. m \in Row /\ Alike(m.version_history)
      BY <1>0 DEF Request, AlikeInv
    <3>2. g = Without(NormalizeVersionHistory(m.version_history), req[r].vid)
      BY <2>5
    <3> HIDE DEF m, g
    <3>3. \A i \in DOMAIN g : \E j \in DOMAIN m.version_history :
            g[i] = m.version_history[j]
      BY <3>1, <3>2, DeletionListsNoMore
    <3>4. Alike(g)
      BY <3>1, <3>3 DEF Alike
    <3> QED  BY <2>1, <3>4 DEF AlikeInv, g
  <2>6. Cancel(r) => row' = row
    BY DEF Cancel
  <2>7. r \in Requests
    BY <1>0
  <2> QED  BY <1>0, <1>4, <2>2, <2>3, <2>4, <2>5, <2>6, <2>7, RowChanges
<1>5. CASE Serve
  <2>1. CASE \E v \in Versions : ClientPut(v)
    BY <2>1 DEF ClientPut, AlikeInv
  <2>2. CASE \E k \in Keys : CleanupObject(k)
    BY <2>2 DEF CleanupObject, AlikeInv
  <2> QED  BY <1>4, <1>5, <2>1, <2>2 DEF Serve
<1>6. CASE Restart
  <2>1. row' = row /\ \A r \in Requests : req'[r] = Idle
    BY <1>6 DEF Restart, ServerCrash
  <2> QED  BY <1>1, <2>1 DEF AlikeInv, Idle
<1>7. CASE UNCHANGED migVars
  BY <1>7 DEF migVars, vars, AlikeInv
<1> QED  BY <1>3, <1>5, <1>6, <1>7 DEF MigrationNext

(* The histories older releases left give no version a key. *)
LEMMA InitIsAlike == MigrationInit => AlikeInv
<1> SUFFICES ASSUME MigrationInit PROVE AlikeInv
  OBVIOUS
<1>1. Init /\ Idle.seen.version_history = <<>>
  BY DEF MigrationInit, Idle, EmptyRow
<1>2. \A v : Legacy(v).object_key = None
  BY DEF Legacy
<1>3. \A h \in LegacyHistories : \A i \in DOMAIN h : h[i].object_key = None
  <2> TAKE h \in LegacyHistories
  <2>1. CASE h = <<>>
    BY <2>1
  <2>2. CASE h = <<Legacy(LegacyCurrent)>>
    BY <1>2, <2>2
  <2>3. CASE \E v \in LegacyIds : h = <<Legacy(v), Legacy(LegacyCurrent)>>
    BY <1>2, <2>3
  <2> QED  BY <2>1, <2>2, <2>3 DEF LegacyHistories
<1>4. row.version_history \in LegacyHistories
  <2>1. EmptyRow.version_history \in LegacyHistories
    BY DEF EmptyRow, LegacyHistories
  <2>2. \A h \in LegacyHistories :
          [EmptyRow EXCEPT !.current_version_id = LegacyCurrent,
                           !.version_history = h].version_history = h
    BY DEF EmptyRow
  <2> QED  BY <1>1, <2>1, <2>2 DEF Init, LegacyRows
<1>5. \A r \in Requests : req[r] = Idle
  BY <1>1 DEF Init
<1> QED  BY <1>1, <1>3, <1>4, <1>5 DEF AlikeInv, Alike


-----------------------------------------------------------------------------
(* A server that is alone: while run is at work nothing else is, the row   *)
(* is still the one it read, and what it has moved is stored.              *)

Copying(g) == g.pc \notin {"maps", "serving", "bare"}

RunOK ==
    /\ mig.pc # "serving" => cleanup = {} /\ \A r \in Requests : req[r] = Idle
    /\ mig.pc \notin {"maps", "serving"} => life = "present"
    /\ Copying(mig) =>
         /\ row = mig.seen
         /\ \A i \in DOMAIN mig.left :
              \E j \in DOMAIN row.version_history :
                mig.left[i] = row.version_history[j]
         /\ \A v \in Versions : KeyedIn(row.version_history, v) =>
              v \in Ids(mig.left) \cup Ids(mig.done)
         /\ \A v \in Ids(mig.done) :
              VersionKey(v) \in objects \/ KeyedIn(row.version_history, v)
    /\ mig.pc \in {"get", "put", "verify"} =>
         ~KeyedIn(row.version_history, InHand(mig))
    /\ mig.pc = "verify" => VersionKey(InHand(mig)) \in objects
    /\ mig.pc = "bare" => IsMigrated(row)

RunInv == ~site.replicas => RunOK

(* The snapshots left are the one in hand and those after it. *)
LEMMA HeadAndTail ==
    ASSUME NEW h \in Seq(Snapshot), h # <<>>
    PROVE  /\ Ids(h) = {Head(h).version_id} \cup Ids(Tail(h))
           /\ \E i \in DOMAIN h : h[i] = Head(h)
           /\ \A i \in DOMAIN Tail(h) : \E j \in DOMAIN h : Tail(h)[i] = h[j]
<1>1. /\ Len(Tail(h)) = Len(h) - 1
      /\ \A i \in 1..Len(Tail(h)) : Tail(h)[i] = h[i + 1]
      /\ Len(h) \in Nat \ {0} /\ Head(h) = h[1]
      /\ DOMAIN Tail(h) = 1..Len(Tail(h))
      /\ DOMAIN h = 1..Len(h)
  BY HeadTailProperties, LenProperties, EmptySeq
<1>2. \A j \in DOMAIN h :
        \/ h[j] = Head(h)
        \/ \E i \in DOMAIN Tail(h) : Tail(h)[i] = h[j]
  <2> TAKE j \in DOMAIN h
  <2>1. CASE j = 1
    BY <1>1, <2>1
  <2>2. CASE j # 1
    <3>1. j - 1 \in DOMAIN Tail(h) /\ Tail(h)[j - 1] = h[j]
      BY <1>1, <2>2
    <3> QED  BY <3>1
  <2> QED  BY <2>1, <2>2
<1>3. \A i \in DOMAIN Tail(h) : \E j \in DOMAIN h : Tail(h)[i] = h[j]
  <2> TAKE i \in DOMAIN Tail(h)
  <2>1. i + 1 \in DOMAIN h /\ Tail(h)[i] = h[i + 1]
    BY <1>1
  <2> QED  BY <2>1
<1>4. \E i \in DOMAIN h : h[i] = Head(h)
  BY <1>1
<1> QED  BY <1>2, <1>3, <1>4 DEF Ids

(* Appending a snapshot adds its id. *)
LEMMA AppendedIds ==
    ASSUME NEW h \in Seq(Snapshot), NEW s \in Snapshot
    PROVE  Ids(Append(h, s)) = Ids(h) \cup {s.version_id}
<1> DEFINE g == Append(h, s)
<1>1. /\ g \in Seq(Snapshot) /\ Len(g) = Len(h) + 1
      /\ \A i \in 1..Len(h) : g[i] = h[i]
      /\ g[Len(h) + 1] = s
  BY AppendProperties
<1>2. DOMAIN g = 1..(Len(h) + 1) /\ DOMAIN h = 1..Len(h) /\ Len(h) \in Nat
  BY <1>1, LenProperties
<1> HIDE DEF g
<1>3. \A i \in DOMAIN g : g[i] = s \/ \E j \in DOMAIN h : g[i] = h[j]
  BY <1>1, <1>2
<1>4. \A j \in DOMAIN h : \E i \in DOMAIN g : g[i] = h[j]
  BY <1>1, <1>2
<1>5. \E i \in DOMAIN g : g[i] = s
  BY <1>1, <1>2
<1> QED  BY <1>3, <1>4, <1>5 DEF Ids, g

(* On to the next snapshot: what stays the same, and where the ids are. *)
LEMMA OnwardFields ==
    ASSUME mig \in Mig, NEW done \in Seq(Snapshot), NEW g, g = Onward(done)
    PROVE  /\ g.pc = "snapshot" /\ g.seen = mig.seen /\ g.done = done
           /\ g.listed = mig.listed
           /\ g.left = IF mig.left = <<>> THEN <<>> ELSE Tail(mig.left)
           /\ mig.left = <<>> => Ids(g.left) = {} /\ Ids(mig.left) = {}
           /\ mig.left # <<>> =>
                Ids(mig.left) = {Head(mig.left).version_id} \cup Ids(g.left)
           /\ \A i \in DOMAIN g.left :
                \E j \in DOMAIN mig.left : g.left[i] = mig.left[j]
<1> DEFINE rest == IF mig.left = <<>> THEN <<>> ELSE Tail(mig.left)
<1>1. g = [mig EXCEPT !.pc = "snapshot", !.left = rest, !.done = done,
                      !.held = None]
  BY DEF Onward
<1>2. /\ g.pc = "snapshot" /\ g.seen = mig.seen /\ g.done = done
      /\ g.listed = mig.listed /\ g.left = rest
  <2> HIDE DEF rest
  <2> QED  BY <1>1 DEF Mig
<1>3. Ids(<<>>) = {}
  BY DEF Ids
<1>4. mig.left \in Seq(Snapshot)
  BY DEF Mig
<1> QED  BY <1>2, <1>3, <1>4, HeadAndTail

(* Going on keeps what is known, when the snapshot in hand is done with:   *)
(* it is in the new list if its row said it has a key, and what is new in  *)
(* the list is stored or keyed in the row.                                 *)
LEMMA OnwardRuns ==
    ASSUME MigrationInv, RunOK, Copying(mig), NEW done \in Seq(Snapshot),
           mig' = Onward(done), UNCHANGED <<row, objects, life, req, cleanup>>,
           Ids(mig.done) \subseteq Ids(done),
           \A v \in Ids(done) \ Ids(mig.done) :
             VersionKey(v) \in objects \/ KeyedIn(row.version_history, v),
           mig.left # <<>> /\ KeyedIn(row.version_history, Head(mig.left).version_id)
             => Head(mig.left).version_id \in Ids(done)
    PROVE  RunOK'
<1>1. mig \in Mig
  BY DEF MigrationInv, MigOK
<1>2. /\ mig'.pc = "snapshot" /\ mig'.seen = mig.seen /\ mig'.done = done
      /\ mig.left = <<>> => Ids(mig'.left) = {} /\ Ids(mig.left) = {}
      /\ mig.left # <<>> =>
           Ids(mig.left) = {Head(mig.left).version_id} \cup Ids(mig'.left)
      /\ \A i \in DOMAIN mig'.left :
           \E j \in DOMAIN mig.left : mig'.left[i] = mig.left[j]
  BY <1>1, OnwardFields
<1>3. mig.pc \notin {"maps", "serving", "bare"}
  BY DEF Copying
<1>4. \A v \in Ids(done) : VersionKey(v) \in objects \/ KeyedIn(row.version_history, v)
  BY DEF RunOK
<1>5. \A v \in Versions : KeyedIn(row.version_history, v) =>
        v \in Ids(mig'.left) \cup Ids(done)
  BY <1>2 DEF RunOK
<1>6. \A i \in DOMAIN mig'.left :
        \E j \in DOMAIN row.version_history :
          mig'.left[i] = row.version_history[j]
  BY <1>2 DEF RunOK
<1> QED  BY <1>2, <1>3, <1>4, <1>5, <1>6 DEF RunOK, Copying

(* A step of the migration that touches neither the row nor the snapshots  *)
(* still to do, and takes no object away.                                  *)
LEMMA StayRuns ==
    ASSUME RunOK, Copying(mig), Copying(mig'),
           mig'.seen = mig.seen, mig'.left = mig.left, mig'.done = mig.done,
           UNCHANGED <<row, life, req, cleanup>>, objects \subseteq objects',
           mig'.pc = "verify" => VersionKey(InHand(mig)) \in objects',
           mig'.pc \in {"get", "put", "verify"} =>
             ~KeyedIn(row.version_history, InHand(mig))
    PROVE  RunOK'
<1>1. /\ mig.pc \notin {"maps", "serving", "bare"}
      /\ mig'.pc \notin {"maps", "serving", "bare"}
      /\ InHand(mig') = InHand(mig)
  BY DEF Copying, InHand
<1> QED  BY <1>1 DEF RunOK, Copying

(* Once run is over it promises nothing of this any more. *)
LEMMA OverRuns ==
    ASSUME mig' = Listening
    PROVE  RunOK'
BY DEF RunOK, Listening, Before, Copying


(* Whether the version in hand is kept or dropped; when it is dropped, the *)
(* row has no key for it.                                                  *)
LEMMA RescueRuns ==
    ASSUME MigrationInv, RunOK, Copying(mig), Target \in Versions,
           UNCHANGED <<row, objects, life, req, cleanup>>,
           \/ mig' = Rescued /\ VersionKey(Target) \in objects
           \/ mig' = NotRescued /\ ~KeyedIn(row.version_history, Target)
    PROVE  RunOK'
<1> DEFINE s == [version_id |-> Target, object_key |-> VersionKey(Target)]
<1>1. mig \in Mig /\ mig.done \in Seq(Snapshot)
  BY DEF MigrationInv, MigOK, Mig
<1>2. s \in Snapshot /\ s.version_id = Target
  BY DEF Snapshot, Keys
<1>3. mig.left # <<>> => Target = Head(mig.left).version_id
  BY DEF Target
<1>4. CASE mig' = Rescued /\ VersionKey(Target) \in objects
  <2> DEFINE done == Append(mig.done, s)
  <2>1. mig' = Onward(done)
    BY <1>4 DEF Rescued
  <2> HIDE DEF s
  <2>2. done \in Seq(Snapshot) /\ Ids(done) = Ids(mig.done) \cup {Target}
    BY <1>1, <1>2, AppendProperties, AppendedIds
  <2> HIDE DEF done
  <2> QED  BY <1>3, <1>4, <2>1, <2>2, OnwardRuns
<1>5. CASE mig' = NotRescued /\ ~KeyedIn(row.version_history, Target)
  <2>1. CASE mig.left = <<>>
    BY <1>5, <2>1, OverRuns DEF NotRescued
  <2>2. CASE mig.left # <<>>
    <3>1. mig' = Onward(mig.done)
      BY <1>5, <2>2 DEF NotRescued
    <3> QED  BY <1>1, <1>3, <1>5, <3>1, OnwardRuns
  <2> QED  BY <2>1, <2>2
<1> QED  BY <1>4, <1>5


(* What is rescued is a version the row has no key for, and listed in it   *)
(* or its current one.                                                     *)
LEMMA TargetHasNoKey ==
    ASSUME MigrationInv, AlikeInv, RunOK, Rescuing
    PROVE  ~KeyedIn(row.version_history, Target)
<1>1. mig \in Mig /\ Copying(mig) /\ Target \in Versions
  BY TargetIsLegacy DEF MigrationInv, MigOK, Copying, Rescuing, Reached
<1>2. CASE mig.left = <<>>
  <2>1. Ids(mig.left) = {} /\ Target \notin Ids(mig.done)
    BY <1>2 DEF Ids, Rescuing, AllMoved, Target
  <2> QED  BY <1>1, <2>1 DEF RunOK
<1>3. CASE mig.left # <<>>
  <2>1. mig.left \in Seq(Snapshot)
    BY <1>1 DEF Mig
  <2>2. PICK i \in DOMAIN mig.left : mig.left[i] = Head(mig.left)
    BY <1>3, <2>1, HeadAndTail
  <2>3. PICK j \in DOMAIN row.version_history :
          Head(mig.left) = row.version_history[j]
    BY <1>1, <2>2 DEF RunOK
  <2>4. row.version_history[j].version_id = Target
        /\ row.version_history[j].object_key = None
    BY <1>3, <2>3 DEF Target, Rescuing
  <2> QED  BY <2>4 DEF AlikeInv, Alike, KeyedIn
<1> QED  BY <1>2, <1>3

(* The row that is written needs no migration any more. *)
LEMMA RowIsMigrated ==
    ASSUME MigrationInv, RunOK, Reached("snapshot"), AllMoved,
           UpdateMindMapUpload(mig.seen.current_version_id, mig.done)
    PROVE  /\ row'.current_version_id = mig.seen.current_version_id
           /\ row'.version_history = mig.done
           /\ \A i \in DOMAIN mig.done : mig.done[i].object_key # None
           /\ IsMigrated(row)'
<1>1. /\ mig.pc = "snapshot" /\ mig \in Mig /\ CopyOK(mig) /\ row \in Row
  BY DEF MigrationInv, MigOK, Reached, VersionsInv, TypeOK
<1>2. life = "present"
  BY <1>1 DEF RunOK
<1>3. /\ row'.current_version_id = mig.seen.current_version_id
      /\ row'.version_history = mig.done
  BY <1>1, <1>2 DEF UpdateMindMapUpload, Row
<1>4. \A i \in DOMAIN mig.done : mig.done[i].version_id \in Versions
  <2>1. mig.done \in Seq(Snapshot)
    BY <1>1 DEF Mig
  <2>2. \A i \in DOMAIN mig.done : mig.done[i] \in Snapshot
    BY <2>1, ElementOfSeq, LenProperties
  <2> QED  BY <2>2 DEF Snapshot
<1>5. \A i \in DOMAIN mig.done : mig.done[i].object_key # None
  BY <1>1, <1>4, KeysDiffer DEF CopyOK
<1> QED  BY <1>3, <1>5 DEF IsMigrated, AllMoved

(* The steps of the migration of a server that is alone. *)
LEMMA MigrateRuns ==
    ASSUME MigrationInv, AlikeInv, RunOK, Migrate
    PROVE  RunOK'
<1>0. /\ mig \in Mig /\ MigOK(mig) /\ RowOK(row) /\ row \in Row
      /\ UNCHANGED <<life, req, cleanup>>
      /\ Target = InHand(mig)
  BY MigrateWrites DEF MigrationInv, MigOK, VersionsInv, TypeOK, Elsewhere,
     Target, InHand
<1>1. CASE ListMindMaps
  <2> DEFINE g == [Before("versions") EXCEPT !.seen = row,
                                             !.left = row.version_history]
  <2>1. CASE mig' = Listening
    BY <2>1, OverRuns
  <2>2. CASE life = "present" /\ mig' = g
    <3>1. /\ mig'.pc = "versions" /\ mig'.seen = row /\ mig'.done = <<>>
          /\ mig'.left = row.version_history /\ mig.pc = "maps"
      BY <1>1, <2>2 DEF Before, ListMindMaps, Reached
    <3>2. \A v \in Versions : KeyedIn(row.version_history, v)
            => v \in Ids(row.version_history)
      BY DEF KeyedIn, Ids
    <3>3. Ids(mig'.done) = {}
      BY <3>1 DEF Ids
    <3>4. row' = row /\ objects' = objects
      BY <1>1 DEF ListMindMaps
    <3> QED  BY <1>0, <2>2, <3>1, <3>2, <3>3, <3>4 DEF RunOK, Copying
  <2> QED  BY <1>1, <2>1, <2>2 DEF ListMindMaps
<1>2. CASE ListMindMapsFails \/ ReadFails \/ DeleteBareKey \/ PutCopyFails
  BY <1>2, OverRuns DEF ListMindMapsFails, ReadFails, DeleteBareKey, PutCopyFails
<1>3. CASE ListLegacyVersions
  <2>1. PICK listed : mig' = [mig EXCEPT !.pc = "snapshot", !.listed = listed]
    BY <1>3 DEF ListLegacyVersions
  <2>2. /\ mig'.pc = "snapshot" /\ mig'.seen = mig.seen
        /\ mig'.left = mig.left /\ mig'.done = mig.done
    BY <1>0, <2>1 DEF Mig
  <2> QED  BY <1>0, <1>3, <2>2, StayRuns DEF ListLegacyVersions, Reached, Copying
<1>4. CASE KeepKeyed
  <2> DEFINE s == Head(mig.left)
  <2>1. /\ mig.left # <<>> /\ s \in Snapshot /\ mig.done \in Seq(Snapshot)
        /\ s.object_key # None /\ Copying(mig) /\ mig.left \in Seq(Snapshot)
        /\ mig' = Onward(Append(mig.done, s))
    BY <1>0, <1>4, HeadTailProperties DEF KeepKeyed, Mig, Reached, Copying
  <2>2. PICK i \in DOMAIN mig.left : mig.left[i] = s
    BY <2>1, HeadAndTail
  <2>3. KeyedIn(row.version_history, s.version_id)
    BY <2>1, <2>2 DEF RunOK, KeyedIn
  <2> DEFINE done == Append(mig.done, s)
  <2> HIDE DEF s
  <2>4. done \in Seq(Snapshot) /\ Ids(done) = Ids(mig.done) \cup {s.version_id}
    BY <2>1, AppendProperties, AppendedIds
  <2>5. mig' = Onward(done)
    BY <2>1
  <2>6. UNCHANGED <<row, objects>>
    BY <1>4 DEF KeepKeyed
  <2> HIDE DEF done
  <2> QED  BY <1>0, <2>1, <2>3, <2>4, <2>5, <2>6, OnwardRuns DEF s
<1>5. CASE HeadCopyFinds
  <2>1. Copying(mig) /\ Target \in Versions
    BY <1>5, <1>0, TargetIsLegacy DEF HeadCopyFinds, Rescuing, Reached, Copying
  <2> QED  BY <1>0, <1>5, <2>1, RescueRuns DEF HeadCopyFinds
<1>6. CASE HeadCopyMisses
  <2>1. /\ Copying(mig) /\ Target \in Versions
        /\ ~KeyedIn(row.version_history, Target)
    BY <1>6, <1>0, TargetIsLegacy, TargetHasNoKey
       DEF HeadCopyMisses, Rescuing, Reached, Copying
  <2>2. CASE mig' = NotRescued
    BY <1>0, <1>6, <2>1, <2>2, RescueRuns DEF HeadCopyMisses
  <2>3. CASE mig' = [mig EXCEPT !.pc = "get"]
    <3>1. /\ mig'.pc = "get" /\ mig'.seen = mig.seen
          /\ mig'.left = mig.left /\ mig'.done = mig.done
      BY <1>0, <2>3 DEF Mig
    <3>2. UNCHANGED <<row, objects>>
      BY <1>6 DEF HeadCopyMisses
    <3> QED  BY <1>0, <2>1, <3>1, <3>2, StayRuns DEF Copying
  <2> QED  BY <1>6, <2>2, <2>3 DEF HeadCopyMisses
<1>7. CASE GetSource
  <2>1. /\ mig.pc = "get" /\ Copying(mig) /\ Target \in Versions
        /\ ~KeyedIn(row.version_history, Target)
        /\ UNCHANGED <<row, objects>>
    BY <1>0, <1>7, VersionsAssumption
       DEF GetSource, Reached, Copying, RunOK, MigOK, RescueOK
  <2>2. CASE mig' = NotRescued
    BY <1>0, <1>7, <2>1, <2>2, RescueRuns DEF GetSource
  <2>3. CASE \E b : mig' = [mig EXCEPT !.pc = "put", !.held = b]
    <3>1. /\ mig'.pc = "put" /\ mig'.seen = mig.seen
          /\ mig'.left = mig.left /\ mig'.done = mig.done
      BY <1>0, <2>3 DEF Mig
    <3> QED  BY <1>0, <2>1, <3>1, StayRuns DEF Copying
  <2> QED  BY <1>7, <2>2, <2>3 DEF GetSource
<1>8. CASE PutCopy
  <2>1. /\ mig.pc = "put" /\ ~KeyedIn(row.version_history, InHand(mig))
        /\ row' = row /\ objects' = objects \cup {VersionKey(Target)}
    BY <1>8 DEF PutCopy, Reached, RunOK, StoreCopy
  <2>2. /\ mig'.pc = "verify" /\ mig'.seen = mig.seen
        /\ mig'.left = mig.left /\ mig'.done = mig.done
    BY <1>0, <1>8 DEF PutCopy, Mig
  <2> QED  BY <1>0, <2>1, <2>2, StayRuns DEF Copying
<1>9. CASE VerifyCopy
  <2>1. /\ mig.pc = "verify" /\ Copying(mig) /\ Target \in Versions
        /\ VersionKey(Target) \in objects /\ UNCHANGED <<row, objects>>
    BY <1>0, <1>9, VersionsAssumption
       DEF VerifyCopy, Reached, Copying, RunOK, MigOK, RescueOK
  <2>2. mig' = Rescued \/ mig' = Listening
    BY <1>9 DEF VerifyCopy
  <2> QED  BY <1>0, <2>1, <2>2, RescueRuns, OverRuns
<1>10. CASE WriteRow
  <2>1. IsMigrated(row)' /\ mig.pc = "snapshot"
    BY <1>10, RowIsMigrated DEF WriteRow, Reached
  <2>2. mig'.pc = "bare"
    BY <1>0, <1>10 DEF WriteRow, Mig
  <2>3. life = "present" /\ cleanup = {} /\ \A r \in Requests : req[r] = Idle
    BY <2>1 DEF RunOK
  <2> QED  BY <1>0, <2>1, <2>2, <2>3 DEF RunOK, Copying
<1>11. CASE WriteRowFails
  BY <1>11, OverRuns DEF WriteRowFails
<1> QED  BY <1>1, <1>2, <1>3, <1>4, <1>5, <1>6, <1>7, <1>8, <1>9, <1>10, <1>11
         DEF Migrate


(* A free slot neither goes on nor is cancelled. *)
LEMMA IdleStands ==
    ASSUME NEW r, req[r] = Idle
    PROVE  ~Continue(r) /\ ~Cancel(r)
<1>1. req[r].pc = "idle"
  BY DEF Idle
<1> QED  BY <1>1 DEF Continue, Cancel, Doing, CreateUrl, CreateUrlFails,
     CreateUndo, PutObject, PutObjectFails, HeadObject, HeadObjectFails, SaveRow,
     SaveRowFails, RollBackSave, GetObject, DeleteVersionObject,
     DeleteVersionObjectFails, DeleteVersionRow, UpdateMindMapMeta,
     DeleteAttachmentsFails, ListVersionKeys, DeleteListedKey,
     DeleteListedKeyFails, DeleteRow

(* While run is at work on a server that is alone, a client's PUT is all   *)
(* that the rest of the server lets through.                               *)
LEMMA ServesNothing ==
    ASSUME MigrationInv, RunOK, ~site.replicas, Serve, mig.pc # "serving"
    PROVE  \E v \in pending :
             /\ objects' = objects \cup {VersionKey(v)}
             /\ UNCHANGED <<life, row, req, cleanup, pending, mig, site, scenario,
                            ghost>>
<1>1. cleanup = {} /\ (\A r \in Requests : req[r] = Idle) /\ ~Serving
  BY DEF RunOK, Serving, Reached
<1>2. scenario.requests \subseteq Requests
  BY VersionsAssumption DEF MigrationInv
<1>3. \A r \in scenario.requests : ~Continue(r) /\ ~Cancel(r)
  BY <1>1, <1>2, IdleStands
<1>4. \E v \in Versions : ClientPut(v)
  BY <1>1, <1>3 DEF Serve, CleanupObject
<1> QED  BY <1>4 DEF ClientPut, Serve

(* Every step of the server and its migration keeps the invariant. *)
LEMMA NextRuns ==
    MigrationInv /\ AlikeInv /\ RunInv /\ [MigrationNext]_migVars => RunInv'
<1> SUFFICES ASSUME MigrationInv, AlikeInv, RunInv, [MigrationNext]_migVars,
                    ~site'.replicas
             PROVE  RunOK'
  BY DEF RunInv
<1>1. site' = site
  BY MigrateWrites DEF MigrationNext, Serve, Restart, migVars, Elsewhere
<1>2. RunOK /\ ~site.replicas
  BY <1>1 DEF RunInv
<1>3. CASE Migrate
  BY <1>2, <1>3, MigrateRuns
<1>4. CASE Serve /\ mig.pc = "serving"
  <2>1. mig'.pc = "serving"
    BY <1>4 DEF Serve
  <2> QED  BY <2>1 DEF RunOK, Copying
<1>5. CASE Serve /\ mig.pc # "serving"
  <2>1. PICK v \in pending :
             /\ objects' = objects \cup {VersionKey(v)}
             /\ UNCHANGED <<life, row, req, cleanup, pending, mig, site, scenario,
                            ghost>>
    BY <1>2, <1>5, ServesNothing
  <2> QED  BY <1>2, <2>1 DEF RunOK, Copying, InHand
<1>6. CASE Restart
  <2>1. mig'.pc = "maps" /\ cleanup' = {} /\ \A r \in Requests : req'[r] = Idle
    BY <1>6 DEF Restart, Starting, Before, ServerCrash
  <2> QED  BY <2>1 DEF RunOK, Copying
<1>7. CASE UNCHANGED migVars
  <2>1. UNCHANGED <<life, row, objects, req, cleanup, mig>>
    BY <1>7 DEF migVars, vars
  <2> QED  BY <1>2, <2>1 DEF RunOK, Copying, InHand, IsMigrated
<1> QED  BY <1>3, <1>4, <1>5, <1>6, <1>7 DEF MigrationNext

(* run has not begun, and nothing else has. *)
LEMMA InitRuns == MigrationInit => RunInv
<1> SUFFICES ASSUME MigrationInit PROVE RunOK
  BY DEF RunInv
<1>1. mig.pc = "maps" /\ cleanup = {} /\ \A r \in Requests : req[r] = Idle
  BY DEF MigrationInit, Init, Starting, Before
<1> QED  BY <1>1 DEF RunOK, Copying

(* A run of the migration knows which of the vault it has not lost. *)
LEMMA RunInvariant == MigrationSpec => [](AlikeInv /\ RunInv)
BY InitIsAlike, NextIsAlike, InitRuns, NextRuns, MigrationInvariant, PTL
   DEF MigrationSpec


-----------------------------------------------------------------------------
(* Nothing that could be downloaded is lost.                               *)

(* A version that the history gives a key is served from it; any other     *)
(* only while it is the current one, from the bare key.                    *)
LEMMA ResolvesAs ==
    ASSUME NEW m \in Row, RowOK(m), Alike(m.version_history), NEW v \in Versions
    PROVE  ResolveBlobKey(m, v) =
             IF KeyedIn(m.version_history, v) THEN VersionKey(v)
             ELSE IF v = m.current_version_id THEN BaseKey ELSE None
<1> DEFINE h == m.version_history
           n == NormalizeVersionHistory(h)
           own == KeysListed(n, v) \ {None}
<1>1. h \in Seq(Snapshot)
  BY DEF Row
<1>2. /\ \A i \in DOMAIN n : \E j \in DOMAIN h : n[i] = h[j]
      /\ \A j \in DOMAIN h :
           \E i \in DOMAIN n : n[i].version_id = h[j].version_id
  BY <1>1, NormalizeProperties
<1>3. v # None /\ Wanted(m, v) = v
  BY VersionsAssumption DEF Wanted
<1>4. ResolveBlobKey(m, v) =
        IF own # {} THEN CHOOSE k \in own : TRUE
        ELSE IF v = m.current_version_id THEN BaseKey ELSE None
  BY <1>3 DEF ResolveBlobKey
<1>5. \A j \in DOMAIN h : SnapshotOK(h[j])
  BY DEF RowOK
<1> HIDE DEF n
<1>6. CASE KeyedIn(h, v)
  <2>1. \A j \in DOMAIN h : h[j].version_id = v => h[j].object_key = VersionKey(v)
    BY <1>5, <1>6 DEF KeyedIn, Alike, SnapshotOK
  <2>2. \A i \in DOMAIN n : n[i].version_id = v => n[i].object_key = VersionKey(v)
    BY <1>2, <2>1
  <2>3. \E i \in DOMAIN n : n[i].version_id = v
    BY <1>2, <1>6 DEF KeyedIn
  <2>4. own = {VersionKey(v)}
    BY <2>2, <2>3, KeysDiffer DEF KeysListed
  <2> QED  BY <1>4, <1>6, <2>4
<1>7. CASE ~KeyedIn(h, v)
  <2>1. \A i \in DOMAIN n : n[i].version_id = v => n[i].object_key = None
    BY <1>2, <1>7 DEF KeyedIn
  <2>2. own = {}
    BY <2>1 DEF KeysListed
  <2> QED  BY <1>4, <1>7, <2>2
<1> QED  BY <1>6, <1>7

(* A step that takes away at most the object at the bare key, of a row     *)
(* that needs no migration.                                                *)
LEMMA LoadableStays ==
    ASSUME VersionsInv, AlikeInv, row' = row, life' = life,
           \/ objects \subseteq objects'
           \/ objects \ {BaseKey} \subseteq objects' /\ IsMigrated(row)
    PROVE  Loadable \subseteq Loadable'
<1> SUFFICES ASSUME NEW v \in Versions, life = "present",
                    ResolveBlobKey(row, v) \in objects
             PROVE  ResolveBlobKey(row, v) \in objects'
  BY DEF Loadable
<1>1. row \in Row /\ RowOK(row) /\ objects \subseteq Keys
      /\ Alike(row.version_history)
  BY DEF VersionsInv, TypeOK, AlikeInv
<1>2. CASE IsMigrated(row)
  <2>1. v = row.current_version_id => KeyedIn(row.version_history, v)
    <3>1. v # None
      BY VersionsAssumption
    <3> QED  BY <1>2, <3>1 DEF IsMigrated, KeyedIn, Ids
  <2>2. None \notin objects
    BY <1>1, BaseKeyAssumption
  <2>3. ResolveBlobKey(row, v) = VersionKey(v)
    BY <1>1, <2>1, <2>2, ResolvesAs
  <2> QED  BY <2>3, KeysDiffer
<1> QED  BY <1>2

(* Writing the row makes nothing unavailable: what had a key keeps it, and *)
(* the current version, served from the bare key until now, has its copy.  *)
LEMMA WriteLosesNothing ==
    ASSUME MigrationInv, MigrationInv', AlikeInv, AlikeInv', RunOK,
           Reached("snapshot"), AllMoved,
           UpdateMindMapUpload(mig.seen.current_version_id, mig.done),
           objects' = objects, life' = life
    PROVE  Loadable \subseteq Loadable'
<1> SUFFICES ASSUME NEW v \in Versions, life = "present",
                    ResolveBlobKey(row, v) \in objects
             PROVE  ResolveBlobKey(row', v) \in objects
  BY DEF Loadable
<1>1. /\ row \in Row /\ RowOK(row) /\ objects \subseteq Keys
      /\ Alike(row.version_history)
      /\ row' \in Row /\ RowOK(row') /\ Alike(row'.version_history)
  BY DEF MigrationInv, VersionsInv, TypeOK, AlikeInv
<1>2. /\ row'.version_history = mig.done
      /\ \A i \in DOMAIN mig.done : mig.done[i].object_key # None
  BY RowIsMigrated
<1>3. Copying(mig) /\ row = mig.seen
  BY DEF Reached, Copying, RunOK
<1>4. mig.left = <<>> /\ row.current_version_id \in Ids(mig.done)
  BY <1>3 DEF AllMoved
<1>5. Ids(mig.left) = {}
  BY <1>4 DEF Ids
<1>6. None \notin objects
  BY <1>1, BaseKeyAssumption
<1>7. v \in Ids(mig.done) /\ VersionKey(v) \in objects
  <2>1. CASE KeyedIn(row.version_history, v)
    <3>1. ResolveBlobKey(row, v) = VersionKey(v)
      BY <1>1, <2>1, ResolvesAs
    <3> QED  BY <1>3, <1>5, <2>1, <3>1 DEF RunOK
  <2>2. CASE ~KeyedIn(row.version_history, v)
    <3>1. v = row.current_version_id
      BY <1>1, <1>6, <2>2, ResolvesAs
    <3> QED  BY <1>3, <1>4, <2>2, <3>1 DEF RunOK
  <2> QED  BY <2>1, <2>2
<1>8. KeyedIn(row'.version_history, v)
  BY <1>2, <1>7 DEF KeyedIn, Ids
<1> QED  BY <1>1, <1>7, <1>8, ResolvesAs

(* No step of the migration of a server that is alone loses anything.      *)
LEMMA MigrateKeepsLoadable ==
    ASSUME MigrationInv, MigrationInv', AlikeInv, AlikeInv', RunOK, Migrate
    PROVE  Loadable \subseteq Loadable'
<1>0. VersionsInv /\ life' = life
  BY MigrateWrites DEF MigrationInv, Elsewhere
<1>1. CASE row' # row
  BY <1>0, <1>1, MigrateWrites, WriteLosesNothing
<1>2. CASE row' = row
  <2>1. CASE DeleteBareKey
    <3>1. IsMigrated(row) /\ objects \ {BaseKey} \subseteq objects'
      BY <2>1 DEF DeleteBareKey, Reached, RunOK
    <3> QED  BY <1>0, <1>2, <3>1, LoadableStays
  <2>2. CASE ~DeleteBareKey
    <3>1. objects \subseteq objects'
      BY <2>2 DEF Migrate, ListMindMaps, ListMindMapsFails,
         ListLegacyVersions, KeepKeyed, HeadCopyFinds, HeadCopyMisses,
         GetSource, PutCopy, PutCopyFails, StoreCopy, VerifyCopy, ReadFails,
         WriteRow, WriteRowFails
    <3> QED  BY <1>0, <1>2, <3>1, LoadableStays
  <2> QED  BY <2>1, <2>2
<1> QED  BY <1>1, <1>2


-----------------------------------------------------------------------------
(* Where the store and the database answer, the server listens only to a   *)
(* row that needs no migration any more, and what run drops has no bytes.  *)

Answering == {"store", "db"} \cap Faults = {}

(* The versions the store can be asked for. *)
Offered == IF site.versioned THEN site.kept \cup {LegacyCurrent} ELSE {}

Untouched ==
    /\ life = "present"
    /\ row.current_version_id = LegacyCurrent
    /\ BaseKey \in objects

QuietOK ==
    /\ \A r \in Requests : IsMigrated(req[r].seen)
    /\ mig.pc = "serving" => IsMigrated(row)
    /\ IsMigrated(row) \/ Untouched
    /\ Copying(mig) => ~IsMigrated(row)
    /\ Copying(mig) /\ mig.pc # "versions" => mig.listed = Offered
    /\ mig.pc \in {"get", "put", "verify"} =>
         InHand(mig) \in Offered \cup {LegacyCurrent}
    /\ Copying(mig) =>
         \A v \in Ids(row.version_history) \ (Ids(mig.left) \cup Ids(mig.done)) :
             \/ v = LegacyCurrent
             \/ v \notin Offered /\ VersionKey(v) \notin objects

QuietInv == Answering /\ ~site.replicas => QuietOK

(* Going on drops only a version without bytes. *)
LEMMA OnwardIsQuiet ==
    ASSUME mig \in Mig, QuietOK, Copying(mig), mig.pc # "versions",
           NEW done \in Seq(Snapshot), mig' = Onward(done),
           Ids(mig.done) \subseteq Ids(done),
           UNCHANGED <<row, objects, life, req, site>>,
           mig.left # <<>> =>
             \/ Head(mig.left).version_id \in Ids(done) \cup {LegacyCurrent}
             \/ /\ Head(mig.left).version_id \notin Offered
                /\ VersionKey(Head(mig.left).version_id) \notin objects
    PROVE  QuietOK'
<1>1. /\ mig'.pc = "snapshot" /\ mig'.done = done /\ mig'.listed = mig.listed
      /\ mig.left = <<>> => Ids(mig'.left) = {} /\ Ids(mig.left) = {}
      /\ mig.left # <<>> =>
           Ids(mig.left) = {Head(mig.left).version_id} \cup Ids(mig'.left)
  BY OnwardFields
<1>2. \A v \in Ids(row.version_history) \ (Ids(mig'.left) \cup Ids(done)) :
        \/ v = LegacyCurrent
        \/ v \notin Offered /\ VersionKey(v) \notin objects
  BY <1>1 DEF QuietOK
<1>3. IsMigrated(row)' = IsMigrated(row) /\ Untouched' = Untouched
      /\ Offered' = Offered
  BY DEF IsMigrated, Untouched, Offered
<1>4. \A r \in Requests : IsMigrated(req[r].seen)'
  BY DEF QuietOK
<1> QED  BY <1>1, <1>2, <1>3, <1>4 DEF QuietOK, Copying

(* A step that stays at the snapshot in hand. *)
LEMMA StayIsQuiet ==
    ASSUME QuietOK, Copying(mig), Copying(mig'),
           mig'.seen = mig.seen, mig'.left = mig.left, mig'.done = mig.done,
           UNCHANGED <<row, life, req, site>>, objects \subseteq objects',
           mig'.listed = Offered,
           mig'.pc \in {"get", "put", "verify"} =>
             InHand(mig) \in Offered \cup {LegacyCurrent},
           \A v \in objects' \ objects :
             \E w \in Offered \cup {LegacyCurrent} : v = VersionKey(w)
    PROVE  QuietOK'
<1>1. InHand(mig') = InHand(mig)
  BY DEF InHand
<1>2. IsMigrated(row)' = IsMigrated(row) /\ Offered' = Offered
  BY DEF IsMigrated, Offered
<1>3. Untouched => Untouched'
  BY DEF Untouched
<1>4. \A r \in Requests : IsMigrated(req[r].seen)'
  BY DEF QuietOK
<1>5. \A v : v \notin Offered /\ v # LegacyCurrent /\ VersionKey(v) \notin objects
        => VersionKey(v) \notin objects'
  BY KeysDiffer
<1>6. Copying(mig)' /\ mig'.pc # "serving"
  BY DEF Copying
<1>7. \A v \in Ids(row.version_history) \ (Ids(mig.left) \cup Ids(mig.done)) :
        \/ v = LegacyCurrent
        \/ v \notin Offered /\ VersionKey(v) \notin objects'
  BY <1>5 DEF QuietOK
<1>8. ~IsMigrated(row)
  BY DEF QuietOK
<1>9. Untouched'
  BY <1>3, <1>8 DEF QuietOK
<1> QED  BY <1>1, <1>2, <1>4, <1>6, <1>7, <1>8, <1>9 DEF QuietOK

(* Once run is over, the row needs no migration. *)
LEMMA OverIsQuiet ==
    ASSUME QuietOK, mig'.pc \in {"serving", "bare"}, UNCHANGED req,
           IsMigrated(row)'
    PROVE  QuietOK'
<1>1. \A r \in Requests : IsMigrated(req[r].seen)'
  BY DEF QuietOK
<1> QED  BY <1>1 DEF QuietOK, Copying

(* The steps of the migration. *)
LEMMA MigrateIsQuiet ==
    ASSUME MigrationInv, AlikeInv, RunOK, QuietOK, Answering, Migrate
    PROVE  QuietOK'
<1>0. /\ mig \in Mig /\ MigOK(mig) /\ RowOK(row) /\ row \in Row
      /\ UNCHANGED <<life, req, cleanup, site>>
      /\ Target = InHand(mig)
      /\ filed = [v \in Versions |-> v]
      /\ Listening.pc = "serving"
  BY MigrateWrites DEF MigrationInv, MigOK, VersionsInv, TypeOK, Elsewhere,
     Target, InHand, Listening, Before
<1>a. "store" \notin Faults /\ "db" \notin Faults
  BY DEF Answering
<1>b. Copying(mig) => /\ mig.seen = row /\ Untouched
                      /\ mig.seen.current_version_id = LegacyCurrent
  BY DEF QuietOK, Untouched, RunOK
<1>c. IsMigrated(row) /\ row' = row => IsMigrated(row)'
  OBVIOUS
<1>1. CASE ListMindMaps
  <2> DEFINE g == [Before("versions") EXCEPT !.seen = row,
                                             !.left = row.version_history]
  <2>0. row' = row /\ objects' = objects
    BY <1>1 DEF ListMindMaps
  <2>1. CASE mig' = Listening
    <3>1. IsMigrated(row)
      <4>1. g.pc = "versions"
        BY DEF Before
      <4> HIDE DEF g
      <4>2. ~(life = "present" /\ ~IsMigrated(row))
        BY <1>0, <1>1, <2>1, <4>1 DEF ListMindMaps, g
      <4> QED  BY <4>2 DEF QuietOK, Untouched
    <3> QED  BY <1>0, <1>c, <2>0, <2>1, <3>1, OverIsQuiet
  <2>2. CASE life = "present" /\ ~IsMigrated(row) /\ mig' = g
    <3>1. /\ mig'.pc = "versions" /\ mig'.left = row.version_history
      BY <2>2 DEF Before
    <3>2. \A r \in Requests : IsMigrated(req[r].seen)'
      BY <1>0 DEF QuietOK
    <3>3. ~IsMigrated(row)' /\ Untouched'
      BY <1>0, <2>0, <2>2 DEF QuietOK, Untouched
    <3> QED  BY <2>0, <3>1, <3>2, <3>3 DEF QuietOK, Copying
  <2> QED  BY <1>1, <2>1, <2>2 DEF ListMindMaps
<1>2. ~ListMindMapsFails /\ ~ReadFails /\ ~PutCopyFails
  BY <1>a DEF ListMindMapsFails, ReadFails, PutCopyFails
<1>3. CASE ListLegacyVersions
  <2>1. mig' = [mig EXCEPT !.pc = "snapshot", !.listed = Offered]
    BY <1>3, <1>a DEF ListLegacyVersions, Offered
  <2>2. /\ mig'.pc = "snapshot" /\ mig'.seen = mig.seen
        /\ mig'.left = mig.left /\ mig'.done = mig.done /\ mig'.listed = Offered
    BY <1>0, <2>1 DEF Mig
  <2> QED  BY <1>0, <1>3, <2>2, StayIsQuiet
           DEF ListLegacyVersions, Reached, Copying
<1>4. CASE KeepKeyed
  <2> DEFINE s == Head(mig.left)
             done == Append(mig.done, s)
  <2>1. /\ s \in Snapshot /\ mig.done \in Seq(Snapshot)
        /\ Copying(mig) /\ mig.pc # "versions" /\ mig' = Onward(done)
        /\ UNCHANGED <<row, objects>>
    BY <1>0, <1>4, HeadTailProperties DEF KeepKeyed, Mig, Reached, Copying
  <2> HIDE DEF s
  <2>2. done \in Seq(Snapshot) /\ Ids(done) = Ids(mig.done) \cup {s.version_id}
    BY <2>1, AppendProperties, AppendedIds
  <2> HIDE DEF done
  <2> QED  BY <1>0, <2>1, <2>2, OnwardIsQuiet DEF s
<1>5. ASSUME mig' = Rescued, Target \in Versions, Copying(mig),
             mig.pc # "versions", UNCHANGED <<row, objects>>
      PROVE  QuietOK'
  <2> DEFINE s == [version_id |-> Target, object_key |-> VersionKey(Target)]
             done == Append(mig.done, s)
  <2>1. s \in Snapshot /\ s.version_id = Target /\ mig.done \in Seq(Snapshot)
    BY <1>0, <1>5 DEF Snapshot, Keys, Mig
  <2>2. mig' = Onward(done)
    BY <1>5 DEF Rescued
  <2>3. mig.left # <<>> => Head(mig.left).version_id = Target
    BY DEF Target
  <2> HIDE DEF s
  <2>4. done \in Seq(Snapshot) /\ Ids(done) = Ids(mig.done) \cup {Target}
    BY <2>1, AppendProperties, AppendedIds
  <2> HIDE DEF done
  <2> QED  BY <1>0, <1>5, <2>2, <2>3, <2>4, OnwardIsQuiet
<1>6. CASE HeadCopyFinds
  <2>1. /\ Copying(mig) /\ Target \in Versions /\ mig.pc # "versions"
        /\ mig' = Rescued /\ UNCHANGED <<row, objects>>
    BY <1>6, <1>0, TargetIsLegacy DEF HeadCopyFinds, Rescuing, Reached, Copying
  <2> QED  BY <1>5, <2>1
<1>7. CASE HeadCopyMisses
  <2>1. /\ Copying(mig) /\ mig.pc = "snapshot" /\ mig.listed = Offered
        /\ VersionKey(Target) \notin objects /\ UNCHANGED <<row, objects>>
    BY <1>7, <1>a DEF HeadCopyMisses, Rescuing, Reached, Copying, QuietOK
  <2>2. CASE IsCurrent \/ Target \in mig.listed
    <3>1. mig' = [mig EXCEPT !.pc = "get"]
      BY <1>7, <2>2 DEF HeadCopyMisses
    <3>2. /\ mig'.pc = "get" /\ mig'.seen = mig.seen /\ mig'.listed = Offered
          /\ mig'.left = mig.left /\ mig'.done = mig.done
      BY <1>0, <2>1, <3>1 DEF Mig
    <3>3. InHand(mig) \in Offered \cup {LegacyCurrent}
      BY <1>0, <1>b, <2>1, <2>2 DEF IsCurrent
    <3> QED  BY <1>0, <2>1, <3>2, <3>3, StayIsQuiet DEF Copying
  <2>3. CASE ~(IsCurrent \/ Target \in mig.listed)
    <3>1. mig' = NotRescued /\ mig.left # <<>>
      BY <1>7, <2>3 DEF HeadCopyMisses, IsCurrent, Target
    <3>2. mig' = Onward(mig.done) /\ mig.done \in Seq(Snapshot)
          /\ Target = Head(mig.left).version_id
      BY <1>0, <3>1 DEF NotRescued, Mig, Target
    <3> QED  BY <1>0, <2>1, <2>3, <3>1, <3>2, OnwardIsQuiet
  <2> QED  BY <2>2, <2>3
<1>8. CASE GetSource
  <2>1. /\ mig.pc = "get" /\ Copying(mig) /\ mig.listed = Offered
        /\ Target \in Offered \cup {LegacyCurrent} /\ UNCHANGED <<row, objects>>
    BY <1>0, <1>8 DEF GetSource, Reached, Copying, QuietOK
  <2>2. Source # {}
    <3>1. CASE IsCurrent
      BY <1>b, <2>1, <3>1 DEF Source, Untouched
    <3>2. CASE ~IsCurrent
      BY <1>b, <2>1, <3>2 DEF Source, Offered, IsCurrent
    <3> QED  BY <3>1, <3>2
  <2>3. PICK b : mig' = [mig EXCEPT !.pc = "put", !.held = b]
    BY <1>8, <2>2 DEF GetSource
  <2>4. /\ mig'.pc = "put" /\ mig'.seen = mig.seen /\ mig'.listed = Offered
        /\ mig'.left = mig.left /\ mig'.done = mig.done
    BY <1>0, <2>1, <2>3 DEF Mig
  <2> QED  BY <1>0, <2>1, <2>4, StayIsQuiet DEF Copying
<1>9. CASE PutCopy
  <2>1. /\ mig.pc = "put" /\ Copying(mig) /\ mig.listed = Offered
        /\ InHand(mig) \in Offered \cup {LegacyCurrent}
        /\ row' = row /\ objects' = objects \cup {VersionKey(Target)}
    BY <1>9 DEF PutCopy, Reached, StoreCopy, Copying, QuietOK
  <2>2. /\ mig'.pc = "verify" /\ mig'.seen = mig.seen /\ mig'.listed = Offered
        /\ mig'.left = mig.left /\ mig'.done = mig.done
    BY <1>0, <1>9, <2>1 DEF PutCopy, Mig
  <2> QED  BY <1>0, <2>1, <2>2, StayIsQuiet DEF Copying
<1>10. CASE VerifyCopy
  <2>1. /\ mig.pc = "verify" /\ Copying(mig) /\ Target \in Versions
        /\ UNCHANGED <<row, objects>>
        /\ VersionKey(Target) \in objects /\ filed[Target] = mig.held
    BY <1>0, <1>10, VersionsAssumption
       DEF VerifyCopy, Reached, Copying, RunOK, MigOK, RescueOK
  <2>2. mig' = Rescued
    BY <1>10, <2>1 DEF VerifyCopy
  <2> QED  BY <1>5, <2>1, <2>2
<1>11. CASE WriteRow
  <2>1. IsMigrated(row)' /\ mig'.pc = "bare"
    BY <1>0, <1>11, RowIsMigrated DEF WriteRow, Mig
  <2> QED  BY <1>0, <2>1, OverIsQuiet
<1>12. CASE WriteRowFails
  <2>1. IsMigrated(row)' /\ mig'.pc = "serving"
    BY <1>0, <1>a, <1>12, RowIsMigrated DEF WriteRowFails
  <2> QED  BY <1>0, <2>1, OverIsQuiet
<1>13. CASE DeleteBareKey
  <2>1. IsMigrated(row) /\ row' = row /\ mig'.pc = "serving"
    BY <1>0, <1>13 DEF DeleteBareKey, Reached, RunOK
  <2> QED  BY <1>0, <1>c, <2>1, OverIsQuiet
<1> QED  BY <1>1, <1>2, <1>3, <1>4, <1>6, <1>7, <1>8, <1>9, <1>10, <1>11,
            <1>12, <1>13 DEF Migrate


(* What a save and a deletion write needs no migration, if their copy of   *)
(* the row needed none.                                                    *)
LEMMA WritersKeepMigrated ==
    ASSUME VersionsInv, NEW r \in Requests, IsMigrated(req[r].seen), NEW m,
           \/ /\ req[r].pc = "save"
              /\ m.current_version_id = req[r].vid
              /\ m.version_history = SavedHistory(r)
           \/ /\ req[r].pc = "delete_write"
              /\ m.current_version_id = req[r].seen.current_version_id
              /\ m.version_history =
                   Without(NormalizeVersionHistory(req[r].seen.version_history),
                           req[r].vid)
    PROVE  IsMigrated(m)
<1> DEFINE q == req[r].seen
           v == req[r].vid
           h == q.version_history
           g == m.version_history
<1>1. /\ q \in Row /\ RowOK(q) /\ RequestOK(req[r]) /\ req[r] \in Request
      /\ h \in Seq(Snapshot)
  BY DEF VersionsInv, TypeOK, RequestsOK, RequestOK, Request, Row
<1>2. \A j \in DOMAIN h : h[j].object_key # None
  <2>1. CASE q.current_version_id = None
    BY <1>1, <2>1, EmptySeq, LenProperties DEF RowOK, CurrentListedIn
  <2> QED  BY <2>1 DEF IsMigrated
<1>3. CASE req[r].pc = "save" /\ m.current_version_id = v /\ g = SavedHistory(r)
  <2>1. /\ v \in Versions /\ v \notin LegacyIds
        /\ q.max_versions \in MaxVersionsValues
    BY <1>1, <1>3 DEF RequestOK, Row
  <2>2. g = PruneHistory(Pushed(q, v), q.max_versions)
    BY <1>3 DEF SavedHistory
  <2> HIDE DEF q, v, g
  <2>3. v \in Ids(g)
    BY <1>1, <2>1, <2>2, SavePreservesRowOK
  <2>4. \A i \in DOMAIN g :
          \/ g[i] = [version_id |-> v, object_key |-> VersionKey(v)]
          \/ \E j \in DOMAIN h : g[i] = h[j]
    BY <1>1, <2>1, <2>2, SaveListsNoMore
  <2>5. \A i \in DOMAIN g : g[i].object_key # None
    BY <1>2, <2>1, <2>4, KeysDiffer
  <2>6. m.current_version_id = v
    BY <1>3 DEF v
  <2> QED  BY <2>3, <2>5, <2>6 DEF IsMigrated, g
<1>4. CASE /\ req[r].pc = "delete_write"
           /\ m.current_version_id = q.current_version_id
           /\ g = Without(NormalizeVersionHistory(h), v)
  <2> DEFINE n == NormalizeVersionHistory(h)
             c == q.current_version_id
  <2>1. v # c /\ c # None
    BY <1>1, <1>4 DEF RequestOK
  <2>2. c \in Ids(h)
    BY <2>1 DEF IsMigrated
  <2>3. /\ n \in Seq(Snapshot)
        /\ \A i \in DOMAIN n : \E j \in DOMAIN h : n[i] = h[j]
        /\ \A i \in DOMAIN h :
             \E j \in DOMAIN n : n[j].version_id = h[i].version_id
    BY <1>1, NormalizeProperties
  <2>4. g = Without(n, v) /\ m.current_version_id = c
    BY <1>4
  <2> HIDE DEF n, g, v, c
  <2>5. /\ \A i \in DOMAIN g : \E j \in DOMAIN n : g[i] = n[j]
        /\ \A i \in DOMAIN n : n[i].version_id # v =>
             \E j \in DOMAIN g : g[j] = n[i]
    BY <2>3, <2>4, WithoutProperties
  <2>6. \E i \in DOMAIN n : n[i].version_id = c
    BY <2>2, <2>3 DEF Ids
  <2>7. c \in Ids(g)
    BY <2>1, <2>5, <2>6 DEF Ids
  <2>8. \A i \in DOMAIN g : g[i].object_key # None
    BY <1>2, <2>3, <2>5
  <2> QED  BY <2>4, <2>7, <2>8 DEF IsMigrated, g
<1> QED  BY <1>3, <1>4

(* The steps of a server that listens. *)
LEMMA ServeIsQuiet ==
    ASSUME MigrationInv, QuietOK, mig.pc = "serving", Serve
    PROVE  QuietOK'
<1>1. /\ VersionsInv /\ scenario \in Scenarios
      /\ scenario.requests \subseteq Requests
      /\ mig' = mig /\ IsMigrated(row)
  BY VersionsAssumption DEF MigrationInv, Serve, QuietOK
<1>2. /\ IsMigrated(EmptyRow)
      /\ \A n : IsMigrated([EmptyRow EXCEPT !.max_versions = n])
  BY DEF IsMigrated, EmptyRow
<1>3. ASSUME IsMigrated(row'), \A r \in Requests : IsMigrated(req'[r].seen)
      PROVE  QuietOK'
  BY <1>1, <1>3 DEF QuietOK, Copying
<1>4. ASSUME NEW r \in scenario.requests, Begin(r) \/ Continue(r) \/ Cancel(r)
      PROVE  QuietOK'
  <2>0. r \in Requests /\ IsMigrated(req[r].seen)
    BY <1>1 DEF QuietOK
  <2>1. ASSUME NEW p \in Requests PROVE IsMigrated(req'[p].seen)
    <3>1. \/ req'[p].seen = req[p].seen
          \/ req'[p].seen = row
          \/ \E n \in Nat : req'[p].seen = [EmptyRow EXCEPT !.max_versions = n]
      BY <1>1, <1>4, <2>0, CopiesChange
    <3>2. IsMigrated(req[p].seen)
      BY DEF QuietOK
    <3> QED  BY <1>1, <1>2, <3>1, <3>2
  <2>2. CASE Cancel(r)
    BY <1>1, <1>3, <2>1, <2>2 DEF Cancel
  <2>3. CASE Begin(r) \/ Continue(r)
    <3>1. ASSUME row'.version_history = row.version_history,
                 row'.current_version_id = row.current_version_id
          PROVE  IsMigrated(row')
      BY <1>1, <3>1 DEF IsMigrated
    <3>2. row' = EmptyRow => IsMigrated(row')
      BY <1>2
    <3>3. ASSUME \/ /\ req[r].pc = "save"
                    /\ row'.current_version_id = req[r].vid
                    /\ row'.version_history = SavedHistory(r)
                 \/ /\ req[r].pc = "delete_write"
                    /\ row'.current_version_id = req[r].seen.current_version_id
                    /\ row'.version_history =
                         Without(NormalizeVersionHistory(req[r].seen.version_history),
                                 req[r].vid)
          PROVE  IsMigrated(row')
      BY <1>1, <2>0, <3>3, WritersKeepMigrated
    <3>4. IsMigrated(row')
      BY <1>1, <2>0, <2>3, <3>1, <3>2, <3>3, RowChanges
    <3> QED  BY <1>3, <2>1, <3>4
  <2> QED  BY <1>4, <2>2, <2>3
<1>5. CASE \E v \in Versions : ClientPut(v)
  <2>1. row' = row /\ req' = req
    BY <1>5 DEF ClientPut
  <2> QED  BY <1>1, <1>3, <2>1 DEF QuietOK
<1>6. CASE \E k \in Keys : CleanupObject(k)
  <2>1. row' = row /\ req' = req
    BY <1>6 DEF CleanupObject
  <2> QED  BY <1>1, <1>3, <2>1 DEF QuietOK
<1> QED  BY <1>4, <1>5, <1>6 DEF Serve

(* Every step of a server that is alone and whose store and database       *)
(* answer.                                                                 *)
LEMMA NextIsQuiet ==
    MigrationInv /\ AlikeInv /\ RunInv /\ QuietInv /\ [MigrationNext]_migVars
      => QuietInv'
<1> SUFFICES ASSUME MigrationInv, AlikeInv, RunInv, QuietInv,
                    [MigrationNext]_migVars, Answering', ~site'.replicas
             PROVE  QuietOK'
  BY DEF QuietInv
<1>1. site' = site /\ scenario' = scenario
  BY MigrateWrites DEF MigrationNext, Serve, Restart, migVars, vars, Elsewhere
<1>2. RunOK /\ QuietOK /\ ~site.replicas /\ Answering
  BY <1>1 DEF RunInv, QuietInv, Answering, Faults
<1>3. CASE Migrate
  BY <1>2, <1>3, MigrateIsQuiet
<1>4. CASE Serve /\ mig.pc = "serving"
  BY <1>2, <1>4, ServeIsQuiet
<1>5. CASE Serve /\ mig.pc # "serving"
  <2>1. PICK v \in pending :
             /\ objects' = objects \cup {VersionKey(v)}
             /\ UNCHANGED <<life, row, req, cleanup, pending, mig, site, scenario,
                            ghost>>
    BY <1>2, <1>5, ServesNothing
  <2>2. v \notin LegacyIds /\ RowOK(row) /\ row \in Row
    BY <2>1 DEF MigrationInv, VersionsInv, TypeOK, LegacyOK
  <2>3. ASSUME Copying(mig),
               NEW w \in Ids(row.version_history) \ (Ids(mig.left) \cup Ids(mig.done))
        PROVE  w \in LegacyIds
    <3>1. PICK i \in DOMAIN row.version_history :
            row.version_history[i].version_id = w
      BY <2>3 DEF Ids
    <3>2. row.version_history[i] \in Snapshot
      <4>1. row.version_history \in Seq(Snapshot)
        BY <2>2 DEF Row
      <4> QED  BY <4>1, ElementOfSeq, LenProperties
    <3>3. w \in Versions
      BY <3>1, <3>2 DEF Snapshot
    <3>4. row.version_history[i].object_key = None
      BY <1>2, <2>3, <3>1, <3>3 DEF RunOK, KeyedIn
    <3> QED  BY <2>2, <3>1, <3>3, <3>4, KeysDiffer DEF RowOK, SnapshotOK
  <2>4. Copying(mig) =>
          \A w \in Ids(row.version_history) \ (Ids(mig.left) \cup Ids(mig.done)) :
              \/ w = LegacyCurrent
              \/ w \notin Offered /\ VersionKey(w) \notin objects'
    BY <1>2, <2>1, <2>2, <2>3, KeysDiffer DEF QuietOK
  <2>5. Untouched => Untouched'
    BY <2>1 DEF Untouched
  <2>6. IsMigrated(row)' = IsMigrated(row) /\ Offered' = Offered
        /\ InHand(mig)' = InHand(mig) /\ Copying(mig)' = Copying(mig)
        /\ \A r \in Requests : IsMigrated(req[r].seen)'
    BY <1>2, <2>1 DEF Offered, InHand, Copying, QuietOK
  <2>7. mig' = mig /\ row' = row
    BY <2>1
  <2> QED  BY <1>2, <2>4, <2>5, <2>6, <2>7 DEF QuietOK
<1>6. CASE Restart
  <2>1. /\ mig'.pc = "maps" /\ \A r \in Requests : req'[r] = Idle
        /\ UNCHANGED <<life, row, objects>>
    BY <1>6 DEF Restart, Starting, Before, ServerCrash
  <2>2. IsMigrated(Idle.seen)
    BY DEF Idle, IsMigrated, EmptyRow
  <2> QED  BY <1>2, <2>1, <2>2 DEF QuietOK, Copying, Untouched
<1>7. CASE UNCHANGED migVars
  <2>1. UNCHANGED <<life, row, objects, req, mig, site>>
    BY <1>7 DEF migVars, vars
  <2>2. QuietOK = QuietOK'
    BY <2>1 DEF QuietOK, Copying, InHand, IsMigrated, Untouched, Offered
  <2> QED  BY <1>2, <2>2
<1> QED  BY <1>3, <1>4, <1>5, <1>6, <1>7 DEF MigrationNext

(* A vault that an older release left is whole: its bare key holds the     *)
(* bytes of its current version.                                           *)
LEMMA InitIsQuiet == MigrationInit => QuietInv
<1> SUFFICES ASSUME MigrationInit PROVE QuietOK
  BY DEF QuietInv
<1>1. mig.pc = "maps" /\ \A r \in Requests : req[r] = Idle
  BY DEF MigrationInit, Init, Starting, Before
<1>2. IsMigrated(Idle.seen)
  BY DEF Idle, IsMigrated, EmptyRow
<1>3. Untouched
  <2>1. EmptyRow.current_version_id = None
    BY DEF EmptyRow
  <2>2. row # EmptyRow
    BY <2>1 DEF MigrationInit
  <2>3. \A h : [EmptyRow EXCEPT !.current_version_id = LegacyCurrent,
                                !.version_history = h].current_version_id = LegacyCurrent
    BY DEF EmptyRow
  <2> QED  BY <2>2, <2>3 DEF MigrationInit, Init, LegacyRows, Untouched
<1> QED  BY <1>1, <1>2, <1>3 DEF QuietOK, Copying

(* QuietInv holds throughout, beside MigrationInv and RunInv. *)
LEMMA QuietInvariant == MigrationSpec => []QuietInv
BY InitIsQuiet, NextIsQuiet, RunInvariant, MigrationInvariant, PTL
   DEF MigrationSpec


-----------------------------------------------------------------------------
(* One request at a time on a server that is alone: the current version is *)
(* the one saved last, and so is the one a deletion is about to write.     *)

SavedOK ==
    /\ OneInFlight
    /\ life = "present"
    /\ row.current_version_id = ghost.lastSave
    /\ \A r \in Requests : req[r].pc \in {"delete_object", "delete_write"} =>
         req[r].seen.current_version_id = row.current_version_id

SavedInv == Orderly /\ ~site.replicas /\ life # "deleted" => SavedOK

(* The requests of one slot at a time. *)
LEMMA ServeSaves ==
    ASSUME VersionsInv, scenario \in Scenarios, Orderly, SavedOK,
           UNCHANGED scenario, life' # "deleted",
           NEW r \in scenario.requests, Begin(r) \/ Continue(r) \/ Cancel(r)
    PROVE  SavedOK'
<1>0. /\ r \in Requests /\ req \in [Requests -> Request] /\ row \in Row
      /\ life = "present"
      /\ \A p \in Requests : p # r => req[p] = Idle
      /\ ghost \in [lastSave : Versions \cup {None}, dropped : SUBSET Versions,
                    doomed : BOOLEAN]
  BY VersionsAssumption DEF VersionsInv, TypeOK, SavedOK, OneInFlight, Orderly
<1>a. /\ row.current_version_id = ghost.lastSave
      /\ req[r].pc \in {"delete_object", "delete_write"} =>
           req[r].seen.current_version_id = row.current_version_id
  BY <1>0 DEF SavedOK
<1>1. /\ life' = "present"
      /\ req' \in [Requests -> Request]
      /\ \A p \in Requests : p # r => req'[p] = req[p]
  <2>1. VersionsInv'
    <3>1. Next
      BY DEF Next
    <3> QED  BY <3>1, NextKeepsInv
  <2>2. req' \in [Requests -> Request] /\ life' \in {"absent", "present", "deleted"}
    BY <2>1 DEF VersionsInv, TypeOK
  <2>3. CASE Begin(r)
    BY <1>0, <2>2, <2>3 DEF Begin, CreateMindMap, GetUploadUrl, UploadBlob,
       ConfirmUpload, DownloadBlob, DeleteVaultVersion, UpdateVaultMeta,
       DeleteMindMap, FindOwned
  <2>4. CASE Continue(r)
    BY <1>0, <2>2, <2>4 DEF Continue, CreateUrl, CreateUrlFails, CreateUndo,
       PutObject, PutObjectFails, HeadObject, HeadObjectFails, SaveRow,
       SaveRowFails, RollBackSave, GetObject, DeleteVersionObject,
       DeleteVersionObjectFails, DeleteVersionRow, UpdateMindMapMeta,
       DeleteAttachmentsFails, ListVersionKeys, DeleteListedKey,
       DeleteListedKeyFails, DeleteRow, Goto, Finish
  <2>5. CASE Cancel(r)
    BY <1>0, <2>2, <2>5 DEF Cancel, Finish
  <2> QED  BY <2>3, <2>4, <2>5
<1>2. OneInFlight'
  BY <1>0, <1>1 DEF SavedOK, OneInFlight
<1>3. Idle.pc = "idle"
  BY DEF Idle
<1>4. ASSUME row'.current_version_id = ghost'.lastSave,
             req'[r].pc \in {"delete_object", "delete_write"} =>
               req'[r].seen.current_version_id = row'.current_version_id
      PROVE  SavedOK'
  BY <1>0, <1>1, <1>2, <1>3, <1>4 DEF SavedOK
<1>5. CASE Begin(r)
  <2>1. row' = row /\ ghost'.lastSave = ghost.lastSave
    BY <1>0, <1>5 DEF Begin, CreateMindMap, GetUploadUrl, UploadBlob,
       ConfirmUpload, DownloadBlob, DeleteVaultVersion, UpdateVaultMeta,
       DeleteMindMap
  <2>2. req'[r].pc \in {"delete_object", "delete_write"} => req'[r].seen = row
    <3>1. CASE DeleteVaultVersion(r)
      BY <1>0, <3>1 DEF DeleteVaultVersion, FindOwned
    <3>2. CASE GetUploadUrl(r) \/ CreateMindMap(r)
      BY <1>0, <3>2 DEF GetUploadUrl, CreateMindMap, Doing
    <3>3. CASE UploadBlob(r) \/ ConfirmUpload(r) \/ DownloadBlob(r)
               \/ UpdateVaultMeta(r) \/ DeleteMindMap(r)
      BY <1>0, <3>3 DEF UploadBlob, ConfirmUpload, DownloadBlob,
         UpdateVaultMeta, DeleteMindMap, FindOwned
    <3> QED  BY <1>5, <3>1, <3>2, <3>3 DEF Begin, GetUploadUrl, Doing
  <2> QED  BY <1>4, <2>1, <2>2 DEF SavedOK
<1>6. CASE SaveRow(r)
  <2>1. req'[r].pc = "idle" /\ ghost'.lastSave = req[r].vid
    BY <1>0, <1>3, <1>6 DEF SaveRow, Finish
  <2>2. row'.current_version_id = req[r].vid
    BY <1>0, <1>6 DEF SaveRow, UpdateMindMapUpload, Row
  <2> QED  BY <1>4, <2>1, <2>2
<1>7. CASE SaveRowFails(r)
  <2>1. req'[r].pc = "rollback" /\ UNCHANGED <<row, ghost>>
    BY <1>0, <1>7 DEF SaveRowFails, Orderly, Goto, Request
  <2> QED  BY <1>4, <2>1 DEF SavedOK
<1>8. CASE DeleteVersionRow(r)
  <2>1. req'[r].pc = "idle" /\ ghost' = ghost
    BY <1>0, <1>3, <1>8 DEF DeleteVersionRow, Finish
  <2>2. row'.current_version_id = row.current_version_id
    BY <1>0, <1>8 DEF DeleteVersionRow, UpdateMindMapUpload, Row, Doing, SavedOK
  <2> QED  BY <1>4, <2>1, <2>2 DEF SavedOK
<1>9. CASE DeleteVersionObject(r)
  <2>1. /\ UNCHANGED <<row, ghost>> /\ req[r].pc = "delete_object"
        /\ req'[r].seen \in {req[r].seen, Idle.seen}
        /\ req'[r].pc \in {"idle", "delete_write"}
        /\ req'[r].pc = "delete_write" => req'[r].seen = req[r].seen
    BY <1>0, <1>3, <1>9 DEF DeleteVersionObject, Doing, Finish, Goto, Request
  <2>2. row'.current_version_id = ghost'.lastSave
    BY <1>a, <2>1
  <2>3. req[r].seen.current_version_id = row'.current_version_id
    BY <1>a, <2>1
  <2>4. req'[r].pc \in {"delete_object", "delete_write"} =>
          req'[r].seen.current_version_id = row'.current_version_id
    BY <2>1, <2>3
  <2> QED  BY <1>4, <2>2, <2>4
<1>10. CASE UpdateMindMapMeta(r)
  <2>1. req'[r].pc = "idle" /\ ghost' = ghost
    BY <1>0, <1>3, <1>10 DEF UpdateMindMapMeta, Finish
  <2>2. row'.current_version_id = row.current_version_id
    BY <1>0, <1>10 DEF UpdateMindMapMeta, Row
  <2> QED  BY <1>4, <2>1, <2>2 DEF SavedOK
<1>11. CASE CreateUrl(r) \/ CreateUrlFails(r) \/ CreateUndo(r)
            \/ PutObject(r) \/ PutObjectFails(r)
            \/ HeadObject(r) \/ HeadObjectFails(r) \/ RollBackSave(r)
            \/ GetObject(r) \/ DeleteVersionObjectFails(r)
            \/ DeleteAttachmentsFails(r) \/ ListVersionKeys(r)
            \/ DeleteListedKey(r) \/ DeleteListedKeyFails(r) \/ DeleteRow(r)
            \/ Cancel(r)
  <2>1. UNCHANGED <<row, ghost>>
    BY <1>11 DEF CreateUrl, CreateUrlFails, CreateUndo, PutObject,
       PutObjectFails, HeadObject, HeadObjectFails, RollBackSave, GetObject,
       DeleteVersionObjectFails, DeleteAttachmentsFails, ListVersionKeys,
       DeleteListedKey, DeleteListedKeyFails, DeleteRow, Cancel
  <2>2. req'[r].pc \notin {"delete_object", "delete_write"}
    <3>1. CASE ListVersionKeys(r)
      BY <1>0, <3>1 DEF ListVersionKeys, Request
    <3>2. CASE DeleteListedKey(r)
      <4>1. PICK k \in req[r].keys :
              req' = [req EXCEPT
                ![r].keys = @ \ {k},
                ![r].pc = IF req[r].keys = {k} THEN "delete_row" ELSE @]
        BY <3>2 DEF DeleteListedKey
      <4>2. req'[r].pc \in {"delete_row", req[r].pc} /\ req[r].pc = "delete_keys"
        BY <1>0, <3>2, <4>1 DEF DeleteListedKey, Doing, Request
      <4> QED  BY <4>2
    <3>3. CASE ~ListVersionKeys(r) /\ ~DeleteListedKey(r)
      <4>1. Finish(r) \/ Goto(r, "create_undo") \/ Goto(r, "save")
        BY <1>11, <3>3 DEF CreateUrl, CreateUrlFails, CreateUndo, PutObject,
           PutObjectFails, HeadObject, HeadObjectFails, RollBackSave, GetObject,
           DeleteVersionObjectFails, DeleteAttachmentsFails,
           DeleteListedKeyFails, DeleteRow, Cancel
      <4> QED  BY <1>0, <1>3, <4>1 DEF Finish, Goto, Request
    <3> QED  BY <3>1, <3>2, <3>3
  <2> QED  BY <1>4, <2>1, <2>2 DEF SavedOK
<1> QED  BY <1>5, <1>6, <1>7, <1>8, <1>9, <1>10, <1>11 DEF Continue

(* Every step of the server and its migration. *)
LEMMA NextSaves ==
    MigrationInv /\ AlikeInv /\ RunInv /\ SavedInv /\ [MigrationNext]_migVars
      => SavedInv'
<1> SUFFICES ASSUME MigrationInv, AlikeInv, RunInv, SavedInv,
                    [MigrationNext]_migVars,
                    Orderly', ~site'.replicas, life' # "deleted"
             PROVE  SavedOK'
  BY DEF SavedInv
<1>1. site' = site /\ scenario' = scenario
  BY MigrateWrites DEF MigrationNext, Serve, Restart, migVars, vars, Elsewhere
<1>2. Orderly /\ ~site.replicas
  BY <1>1 DEF Orderly, Faults
<1>3. life # "deleted"
  <2>1. CASE Migrate
    BY <2>1, MigrateWrites DEF Elsewhere
  <2>2. CASE Serve \/ Restart \/ UNCHANGED migVars
    BY <2>2 DEF Serve, Restart, migVars, vars, Begin, Continue, CreateMindMap,
       GetUploadUrl, UploadBlob, ConfirmUpload, DownloadBlob,
       DeleteVaultVersion, UpdateVaultMeta, DeleteMindMap, CreateUrl,
       CreateUrlFails, CreateUndo, PutObject, PutObjectFails, HeadObject,
       HeadObjectFails, SaveRow, SaveRowFails, RollBackSave, GetObject,
       DeleteVersionObject, DeleteVersionObjectFails, DeleteVersionRow,
       UpdateMindMapMeta, DeleteAttachmentsFails, ListVersionKeys,
       DeleteListedKey, DeleteListedKeyFails, DeleteRow, Cancel, ClientPut,
       CleanupObject, ServerCrash
  <2> QED  BY <2>1, <2>2 DEF MigrationNext
<1>4. SavedOK /\ RunOK /\ VersionsInv /\ scenario \in Scenarios /\ row \in Row
  BY <1>2, <1>3 DEF SavedInv, RunInv, MigrationInv, VersionsInv, TypeOK
<1>5. ASSUME UNCHANGED <<scenario, life, row, ghost>>,
             \A r \in Requests : req'[r] \in {req[r], Idle}
      PROVE  SavedOK'
  <2>1. Idle.pc = "idle"
    BY DEF Idle
  <2> QED  BY <1>4, <1>5, <2>1 DEF SavedOK, OneInFlight
<1>6. CASE Migrate
  <2>1. UNCHANGED <<scenario, life, req, ghost>>
    BY <1>6, MigrateWrites DEF Elsewhere
  <2>2. CASE row' = row
    BY <1>5, <2>1, <2>2
  <2>3. CASE row' # row
    <3>1. /\ Reached("snapshot") /\ AllMoved
          /\ UpdateMindMapUpload(mig.seen.current_version_id, mig.done)
      BY <1>6, <2>3, MigrateWrites
    <3>2. row'.current_version_id = row.current_version_id
      <4>1. row'.current_version_id = mig.seen.current_version_id
        BY <1>4, <3>1, RowIsMigrated
      <4>2. row = mig.seen
        BY <1>4, <3>1 DEF RunOK, Copying, Reached
      <4> QED  BY <4>1, <4>2
    <3> QED  BY <1>4, <2>1, <3>2 DEF SavedOK, OneInFlight
  <2> QED  BY <2>2, <2>3
<1>7. CASE Serve
  <2>1. ASSUME NEW r \in scenario.requests, Begin(r) \/ Continue(r) \/ Cancel(r)
        PROVE  SavedOK'
    BY <1>1, <1>2, <1>4, <2>1, ServeSaves
  <2>2. CASE (\E v \in Versions : ClientPut(v)) \/ (\E k \in Keys : CleanupObject(k))
    BY <1>1, <1>5, <2>2 DEF ClientPut, CleanupObject
  <2> QED  BY <1>7, <2>1, <2>2 DEF Serve
<1>8. CASE Restart
  BY <1>1, <1>5, <1>8 DEF Restart, ServerCrash
<1>9. CASE UNCHANGED migVars
  BY <1>5, <1>9 DEF migVars, vars
<1> QED  BY <1>6, <1>7, <1>8, <1>9 DEF MigrationNext

(* An old vault's current version counts as the last one saved. *)
LEMMA InitSaves == MigrationInit => SavedInv
<1> SUFFICES ASSUME MigrationInit PROVE SavedOK
  BY DEF SavedInv
<1>1. \A r \in Requests : req[r] = Idle
  BY DEF MigrationInit, Init
<1>2. Idle.pc = "idle" /\ EmptyRow.current_version_id = None
  BY DEF Idle, EmptyRow
<1> QED  BY <1>1, <1>2 DEF MigrationInit, Init, SavedOK, OneInFlight

-----------------------------------------------------------------------------
(* The last save, and nothing lost. *)

(* run reads the row, works for as long as it takes and writes the row     *)
(* back: however often that fails and starts again, it never takes the     *)
(* vault back to a version older than the last one saved, because nothing  *)
(* is saved while it is at work.                                           *)
THEOREM MigrationKeepsTheLastSave == MigrationSpec => []LastSaveStaysCurrent
<1>1. SavedInv => LastSaveStaysCurrent
  BY DEF SavedInv, SavedOK, LastSaveStaysCurrent, CurrentIsLastSave
<1> QED  BY <1>1, InitSaves, NextSaves, RunInvariant, MigrationInvariant, PTL
         DEF MigrationSpec

(* No call of migrate_one or rescue_version makes a version unavailable    *)
(* that could be downloaded before it, whatever fails and wherever a run   *)
(* before it was cut short; and a version that a run drops from the        *)
(* history, where the store and the database answered every call, has no   *)
(* bytes at any address.                                                   *)
THEOREM MigrationOnlyDropsLostVersions == MigrationSpec => MigrationLosesNothing
<1>1. ASSUME MigrationInv, MigrationInv', AlikeInv, AlikeInv', RunInv, QuietInv,
             ~site.replicas, Migrate
      PROVE  /\ Loadable \subseteq Loadable'
             /\ {"store", "db"} \cap Faults = {} =>
                  (Ids(row.version_history) \ Ids(row'.version_history))
                    \cap Stored = {}
  <2>1. RunOK
    BY <1>1 DEF RunInv
  <2>2. Loadable \subseteq Loadable'
    BY <1>1, <2>1, MigrateKeepsLoadable
  <2>3. ASSUME Answering, NEW v \in Ids(row.version_history),
               v \notin Ids(row'.version_history), v \in Stored
        PROVE  FALSE
    <3>1. /\ Reached("snapshot") /\ AllMoved
          /\ UpdateMindMapUpload(mig.seen.current_version_id, mig.done)
      BY <1>1, <2>3, MigrateWrites
    <3>2. row'.version_history = mig.done
      BY <1>1, <2>1, <3>1, RowIsMigrated
    <3>3. QuietOK /\ Copying(mig) /\ row = mig.seen
      BY <1>1, <2>1, <2>3, <3>1 DEF QuietInv, Copying, Reached, RunOK
    <3>4. row.current_version_id = LegacyCurrent
      BY <3>3 DEF QuietOK, Untouched
    <3>5. Ids(mig.left) = {} /\ LegacyCurrent \in Ids(mig.done)
      BY <3>1, <3>3, <3>4 DEF AllMoved, Ids
    <3>6. v # LegacyCurrent /\ v \notin Offered /\ VersionKey(v) \notin objects
      BY <2>3, <3>2, <3>3, <3>5 DEF QuietOK
    <3>7. v \notin site.kept
      BY <1>1, <3>6, SitesAssumption DEF Offered, MigrationInv
    <3> QED  BY <2>3, <3>6, <3>7 DEF Stored
  <2> QED  BY <2>2, <2>3 DEF Answering
<1> QED  BY <1>1, MigrationInvariant, RunInvariant, QuietInvariant, PTL
         DEF MigrationLosesNothing
=============================================================================
