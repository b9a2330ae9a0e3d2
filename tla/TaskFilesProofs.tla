--------------------------- MODULE TaskFilesProofs ---------------------------
(***************************************************************************)
(* What TLAPS proves of TaskFiles, for every number of segments, every     *)
(* MaxCount, all pods that fail and all bounds: the source outlives the    *)
(* merge, slices find their segments and nothing is left behind.           *)
(***************************************************************************)
EXTENDS TaskFiles, FiniteSetTheorems, SequenceTheorems, TLAPS

(* The segments and their order.                                           *)

LEMMA SegmentEqual ==
    \A i, j : Segment(i) = Segment(j) => i = j
  BY DEF Segment

\* There are n segments when n are cut.
LEMMA SegmentsCounted ==
    ASSUME NEW n \in Nat
    PROVE  IsFiniteSet(Segments(n)) /\ Cardinality(Segments(n)) = n
  <1> DEFINE f == [i \in 0 .. (n - 1) |-> Segment(i)]
  <1>1. f \in Bijection(0 .. (n - 1), Segments(n))
    BY SegmentEqual DEF Bijection, Injection, Surjection, IsInjective, Segments
  <1>2. ExistsBijection(0 .. (n - 1), Segments(n))
    BY <1>1 DEF ExistsBijection
  <1>3. IsFiniteSet(0 .. (n - 1)) /\ Cardinality(0 .. (n - 1)) = n
    BY FS_Interval
  <1> QED
    BY <1>2, <1>3, FS_Bijection

\* The names are ordered, and different for different indexes.
LEMMA NamesOrdered ==
    /\ \A i \in Nat : Digits(i) \in 1 .. Width /\ Padded(i) \in Nat
    /\ \A i \in Nat : ~ NameBefore(i, i)
    /\ \A i, j \in Nat : i # j => NameBefore(i, j) \/ NameBefore(j, i)
    /\ \A i, j, k \in Nat : NameBefore(i, j) /\ NameBefore(j, k) => NameBefore(i, k)
  <1>1. ASSUME NEW i \in Nat
        PROVE  Digits(i) \in 1 .. Width /\ Padded(i) \in Nat
    <2> DEFINE D == {k \in 1 .. (Width - 1) : 10 ^ k <= i}
               power == 10 ^ (Width - Digits(i))
    <2>1. Width \in Nat \ {0}
      BY FilesAssumption
    <2>2. IsFiniteSet(1 .. (Width - 1)) /\ Cardinality(1 .. (Width - 1)) = Width - 1
      BY <2>1, FS_Interval
    <2>3. Cardinality(D) \in Nat /\ Cardinality(D) <= Width - 1
      BY <2>2, FS_Subset, FS_CardinalityType
    <2>4. Digits(i) = Cardinality(D) + 1
      BY DEF Digits
    <2> HIDE DEF D
    <2>5. Digits(i) \in 1 .. Width /\ Width - Digits(i) \in 0 .. Width
      BY <2>1, <2>3, <2>4
    <2>6. power \in Nat
      BY <2>5, FilesAssumption
    <2>7. Padded(i) = i * power
      BY DEF Padded
    <2> HIDE DEF power
    <2> QED
      BY <2>5, <2>6, <2>7
  <1> QED
    BY <1>1 DEF NameBefore

\* The place of a segment among n by name.
Rank(n, i) == Cardinality({g \in Segments(n) : NameBefore(g[1], i)})

\* It is a place of its own, and all are taken.
LEMMA RanksOneToOne ==
    ASSUME NEW n \in Nat
    PROVE  /\ \A i \in 0 .. (n - 1) : Rank(n, i) \in 0 .. (n - 1)
           /\ \A i, j \in 0 .. (n - 1) : Rank(n, i) = Rank(n, j) => i = j
           /\ \A k \in 0 .. (n - 1) : \E i \in 0 .. (n - 1) : Rank(n, i) = k
  <1> DEFINE Before(i) == {g \in Segments(n) : NameBefore(g[1], i)}
  <1>1. IsFiniteSet(Segments(n)) /\ Cardinality(Segments(n)) = n
    BY SegmentsCounted
  <1>2. \A i \in 0 .. (n - 1) :
          /\ ~ NameBefore(i, i)
          /\ \A j \in 0 .. (n - 1) :
                /\ i # j => NameBefore(i, j) \/ NameBefore(j, i)
                /\ \A k \in 0 .. (n - 1) :
                      NameBefore(i, j) /\ NameBefore(j, k) => NameBefore(i, k)
    BY NamesOrdered
  <1>3. \A i \in 0 .. (n - 1) : Segment(i) \in Segments(n) /\ Segment(i)[1] = i
    BY DEF Segments, Segment
  <1>4. ASSUME NEW i \in 0 .. (n - 1)
        PROVE  IsFiniteSet(Before(i)) /\ Rank(n, i) \in Nat /\ Rank(n, i) = Cardinality(Before(i))
    <2>1. Before(i) \in SUBSET Segments(n)
      OBVIOUS
    <2>2. IsFiniteSet(Before(i))
      BY <1>1, <2>1, FS_Subset
    <2>3. Cardinality(Before(i)) \in Nat
      BY <2>2, FS_CardinalityType
    <2> QED
      BY <2>2, <2>3 DEF Rank
  <1>5. ASSUME NEW i \in 0 .. (n - 1)
        PROVE  Rank(n, i) \in 0 .. (n - 1)
    <2>1. Before(i) \in SUBSET (Segments(n) \ {Segment(i)})
      BY <1>2, <1>3
    <2>2. /\ IsFiniteSet(Segments(n) \ {Segment(i)})
          /\ Cardinality(Segments(n) \ {Segment(i)}) = n - 1
      BY <1>1, <1>3, FS_RemoveElement
    <2>3. Cardinality(Before(i)) <= n - 1
      BY <2>1, <2>2, FS_Subset
    <2>4. Rank(n, i) \in Nat /\ Rank(n, i) = Cardinality(Before(i))
      BY <1>4
    <2> HIDE DEF Before
    <2> QED
      BY <2>3, <2>4
  <1>6. ASSUME NEW i \in 0 .. (n - 1), NEW j \in 0 .. (n - 1), NameBefore(i, j)
        PROVE  Rank(n, i) < Rank(n, j)
    <2>1. \A g \in Segments(n) : g[1] \in 0 .. (n - 1)
      BY <1>3 DEF Segments
    <2>2. Before(i) \in SUBSET Before(j)
      BY <1>2, <1>6, <2>1
    <2>3. Segment(i) \in Before(j) /\ Segment(i) \notin Before(i)
      BY <1>2, <1>3, <1>6
    <2>4. /\ Cardinality(Before(i)) <= Cardinality(Before(j))
          /\ Cardinality(Before(j)) = Cardinality(Before(i)) => Before(j) = Before(i)
      BY <1>4, <2>2, FS_Subset
    <2>5. Cardinality(Before(i)) # Cardinality(Before(j))
      BY <2>3, <2>4
    <2>6. Rank(n, i) \in Nat /\ Rank(n, j) \in Nat
          /\ Rank(n, i) = Cardinality(Before(i)) /\ Rank(n, j) = Cardinality(Before(j))
      BY <1>4
    <2> QED
      BY <2>4, <2>5, <2>6
  <1> HIDE DEF Before
  <1>7. ASSUME NEW i \in 0 .. (n - 1), NEW j \in 0 .. (n - 1), Rank(n, i) = Rank(n, j)
        PROVE  i = j
    <2>1. ~ NameBefore(i, j) /\ ~ NameBefore(j, i)
      BY <1>4, <1>6, <1>7
    <2> QED
      BY <1>2, <2>1
  <1>8. \A k \in 0 .. (n - 1) : \E i \in 0 .. (n - 1) : Rank(n, i) = k
    <2> DEFINE r == [i \in 0 .. (n - 1) |-> Rank(n, i)]
    <2>1. r \in Injection(0 .. (n - 1), 0 .. (n - 1))
      BY <1>5, <1>7 DEF Injection, IsInjective
    <2>2. IsFiniteSet(0 .. (n - 1))
      BY FS_Interval
    <2>3. r \in Surjection(0 .. (n - 1), 0 .. (n - 1))
      BY <2>1, <2>2, FS_Injection
    <2> QED
      BY <2>3 DEF Surjection
  <1> QED
    BY <1>5, <1>7, <1>8

\* What sort.Strings does to the list of n segments: every one is in it once.
LEMMA SortedSegments ==
    ASSUME NEW n \in Nat
    PROVE  LET list == Sorted(Segments(n)) IN
           /\ list \in Seq(Segments(n)) /\ Len(list) = n
           /\ \A k \in 1 .. n : \E i \in 0 .. (n - 1) : list[k] = Segment(i) /\ Rank(n, i) = k - 1
           /\ {list[k][1] : k \in 1 .. n} = 0 .. (n - 1)
  <1> DEFINE S == Segments(n)
             list == Sorted(S)
             Place(f) == Cardinality({g \in S : NameBefore(g[1], f[1])})
             entry(k) == CHOOSE f \in S : Place(f) = k - 1
  <1>1. Cardinality(S) = n
    BY SegmentsCounted
  <1>2. list = [k \in 1 .. n |-> entry(k)]
    BY <1>1 DEF Sorted
  <1>3. \A i \in 0 .. (n - 1) : Segment(i) \in S /\ Place(Segment(i)) = Rank(n, i) /\ Segment(i)[1] = i
    BY DEF Segments, Segment, Rank
  <1>4. \A f \in S : \E i \in 0 .. (n - 1) : f = Segment(i)
    BY DEF Segments
  <1> HIDE DEF S, Place
  <1>5. ASSUME NEW k \in 1 .. n
        PROVE  \E i \in 0 .. (n - 1) : list[k] = Segment(i) /\ Rank(n, i) = k - 1
    <2>0. k - 1 \in 0 .. (n - 1)
      OBVIOUS
    <2>1. PICK j \in 0 .. (n - 1) : Rank(n, j) = k - 1
      BY <2>0, RanksOneToOne
    <2>2. Segment(j) \in S /\ Place(Segment(j)) = k - 1
      BY <1>3, <2>1
    <2>3. entry(k) \in S /\ Place(entry(k)) = k - 1
      BY <2>2
    <2>4. list[k] = entry(k)
      BY <1>2
    <2> HIDE DEF entry, list
    <2> QED
      BY <1>3, <1>4, <2>3, <2>4
  <1> HIDE DEF entry
  <1>6. list \in Seq(S) /\ Len(list) = n
    <2>1. \A k \in 1 .. n : list[k] \in S
      BY <1>3, <1>5
    <2>2. list \in [1 .. n -> S]
      BY <1>2, <2>1
    <2> HIDE DEF list
    <2> QED
      BY <2>2
  <1> HIDE DEF list
  <1>7. {list[k][1] : k \in 1 .. n} = 0 .. (n - 1)
    <2>1. \A k \in 1 .. n : list[k][1] \in 0 .. (n - 1)
      BY <1>3, <1>5
    <2>2. ASSUME NEW i \in 0 .. (n - 1)
          PROVE  \E k \in 1 .. n : list[k][1] = i
      <3>1. Rank(n, i) \in 0 .. (n - 1)
        BY RanksOneToOne
      <3>2. Rank(n, i) + 1 \in 1 .. n
        BY <3>1
      <3>3. PICK j \in 0 .. (n - 1) :
              list[Rank(n, i) + 1] = Segment(j) /\ Rank(n, j) = (Rank(n, i) + 1) - 1
        BY <1>5, <3>2
      <3>4. Rank(n, j) = Rank(n, i)
        BY <3>1, <3>3
      <3>5. j = i
        BY <3>4, RanksOneToOne
      <3> QED
        BY <1>3, <3>2, <3>3, <3>5
    <2> QED
      BY <2>1, <2>2
  <1> QED
    BY <1>5, <1>6, <1>7 DEF S, list
-----------------------------------------------------------------------------
(* The invariant.                                                          *)

LEMMA Limits ==
    ASSUME FilesInv
    PROVE  /\ MaxSlices \in Nat \ {0} /\ parts \in Nat \ {0}
           /\ Segments(parts) \subseteq AllFiles
           /\ planned \in Nat /\ records \in Nat
           /\ {found, listed, target} \subseteq Seq(AllFiles)
           /\ Len(found) \in Nat /\ Len(listed) \in Nat /\ Len(target) \in Nat
  <1>1. MaxSlices \in Nat \ {0} /\ parts \in 1 .. MaxSlices /\ planned \in 0 .. MaxSlices
    BY FilesAssumption DEF FilesInv, FilesTypeOK
  <1>2. parts \in Nat \ {0} /\ planned \in Nat
    BY <1>1
  <1>3. Segments(parts) \subseteq AllFiles
    BY <1>1 DEF Segments, Segment, AllFiles, Indexes
  <1>4. {found, listed, target} \subseteq Seq(AllFiles)
    BY DEF FilesInv, FilesTypeOK
  <1> QED
    BY <1>1, <1>2, <1>3, <1>4 DEF FilesInv, SlicesFollowPlan

\* Once the slices are done and none is counted twice, all have run.
LEMMA AllRan ==
    ASSUME FilesInv, phase \in {"encoded", "merged", "ready"}, RecordedOnce
    PROVE  ran = 0 .. (planned - 1)
  <1>1. /\ done \in SUBSET (0 .. (planned - 1)) /\ ran \subseteq 0 .. (planned - 1)
        /\ done \subseteq ran /\ planned <= records /\ planned \in Nat /\ records \in Nat
    BY Limits DEF FilesInv, SlicesFollowPlan
  <1>2. IsFiniteSet(0 .. (planned - 1)) /\ Cardinality(0 .. (planned - 1)) = planned
    BY <1>1, FS_Interval
  <1>3. /\ Cardinality(done) <= planned
        /\ planned = Cardinality(done) => done = 0 .. (planned - 1)
    <2> DEFINE plan == 0 .. (planned - 1)
    <2>1. IsFiniteSet(plan) /\ Cardinality(plan) = planned /\ done \in SUBSET plan
      BY <1>1, <1>2
    <2> HIDE DEF plan
    <2>2. /\ Cardinality(done) <= Cardinality(plan)
          /\ Cardinality(plan) = Cardinality(done) => plan = done
      BY <2>1, FS_Subset
    <2> QED
      BY <2>1, <2>2 DEF plan
  <1>4. Cardinality(done) = records
    BY DEF RecordedOnce
  <1>5. Cardinality(done) = planned
    BY <1>1, <1>3, <1>4
  <1> QED
    BY <1>1, <1>3, <1>5

LEMMA FilesInvInit ==
    ASSUME FilesInit
    PROVE  FilesInv
  <1>1. MaxSlices \in Nat \ {0}
    BY FilesAssumption
  <1>2. Segments(0) = {}
    BY DEF Segments
  <1>3. Cardinality({}) = 0
    BY FS_EmptySet
  <1>4. <<>> \in Seq(AllFiles) /\ Len(<<>>) = 0
    OBVIOUS
  <1>5. FilesTypeOK
    BY <1>1, <1>4 DEF FilesInit, Begin, FilesTypeOK, Phases
  <1>6. CutInOrder /\ ListedAll
    BY <1>1, <1>2 DEF FilesInit, Begin, CutInOrder, ListedAll
  <1>7. SlicesFollowPlan
    BY <1>3 DEF FilesInit, Begin, SlicesFollowPlan
  <1>8. MergedAsListed /\ CleanupLast /\ FilesAccounted
    BY <1>4 DEF FilesInit, Begin, MergedAsListed, CleanupLast, FilesAccounted
  <1> QED
    BY <1>5, <1>6, <1>7, <1>8 DEF FilesInv
-----------------------------------------------------------------------------
(* Split and count.                                                        *)

LEMMA CutSegmentInv ==
    ASSUME FilesInv, CutSegment
    PROVE  FilesInv'
  <1> USE DEF CutSegment, progressVars, commands
  <1>1. PICK n \in 0 .. parts : files = Segments(n)
    BY DEF FilesInv, CutInOrder
  <1>2. n < parts /\ files' = files \cup {Segment(n)} /\ n \in Nat /\ parts \in Nat
    <2>0. parts \in Nat \ {0}
      BY Limits
    <2>1. parts \in Nat /\ n \in Nat
      BY <2>0
    <2>2. Cardinality(files) = n
      BY <1>1, <2>1, SegmentsCounted
    <2> QED
      BY <2>1, <2>2
  <1>3. files' = Segments(n + 1) /\ n + 1 \in 0 .. parts
    <2>1. 0 .. ((n + 1) - 1) = (0 .. (n - 1)) \cup {n} /\ n + 1 \in 0 .. parts
      BY <1>2
    <2> QED
      BY <1>1, <1>2, <2>1 DEF Segments
  <1>4. Segment(n) \in AllFiles
    <2>1. n \in 0 .. (parts - 1)
      BY <1>2
    <2> QED
      BY <2>1, Limits DEF Segments
  <1>5. FilesTypeOK'
    BY <1>2, <1>4 DEF FilesInv, FilesTypeOK
  <1>6. CutInOrder'
    BY <1>3 DEF CutInOrder
  <1>7. ListedAll' /\ SlicesFollowPlan' /\ MergedAsListed' /\ CleanupLast'
    BY DEF FilesInv, ListedAll, SlicesFollowPlan, MergedAsListed, CleanupLast
  <1>8. FilesAccounted'
    BY DEF FilesInv, CleanupLast, FilesAccounted
  <1> QED
    BY <1>5, <1>6, <1>7, <1>8 DEF FilesInv

LEMMA SplitCompletesInv ==
    ASSUME FilesInv, SplitCompletes
    PROVE  FilesInv'
  <1> USE DEF SplitCompletes, SplitUp, volumes, commands
  <1>1. PICK n \in 0 .. parts : files = Segments(n)
    BY DEF FilesInv, CutInOrder
  <1>2. files = Segments(parts)
    BY <1>1, Limits, SegmentsCounted
  <1>3. FilesTypeOK'
    BY DEF FilesInv, FilesTypeOK, Phases
  <1>4. CutInOrder'
    BY <1>2 DEF CutInOrder
  <1>5. ListedAll'
    BY DEF FilesInv, ListedAll
  <1>6. SlicesFollowPlan'
    BY DEF FilesInv, SlicesFollowPlan
  <1>7. MergedAsListed' /\ CleanupLast' /\ FilesAccounted'
    BY DEF FilesInv, MergedAsListed, CleanupLast, FilesAccounted
  <1> QED
    BY <1>3, <1>4, <1>5, <1>6, <1>7 DEF FilesInv

LEMMA ScanSegmentFilesInv ==
    ASSUME FilesInv, ScanSegmentFiles
    PROVE  FilesInv'
  <1> USE DEF ScanSegmentFiles, progressVars, volumes
  <1>1. files = Segments(parts)
    BY DEF FilesInv, CutInOrder
  <1>2. {f \in files : MatchesTaskSegment(f)} = Segments(parts)
    BY <1>1 DEF Segments, Segment, MatchesTaskSegment
  <1>3. found' = Sorted(Segments(parts))
    BY <1>2
  <1>4. found' \in Seq(AllFiles)
    BY <1>3, Limits, SortedSegments, SeqMonotonic
  <1>5. listed = <<>>
    BY DEF FilesInv, ListedAll
  <1>6. FilesTypeOK'
    BY <1>4 DEF FilesInv, FilesTypeOK
  <1>7. ListedAll'
    BY <1>3, <1>5 DEF ListedAll
  <1>8. CutInOrder' /\ SlicesFollowPlan' /\ MergedAsListed' /\ CleanupLast'
    BY DEF FilesInv, CutInOrder, SlicesFollowPlan, MergedAsListed, CleanupLast
  <1>9. FilesAccounted'
    BY DEF FilesInv, CleanupLast, FilesAccounted
  <1> QED
    BY <1>6, <1>7, <1>8, <1>9 DEF FilesInv

LEMMA EnsureConfigMapInv ==
    ASSUME FilesInv, EnsureConfigMap
    PROVE  FilesInv'
  <1> USE DEF EnsureConfigMap, progressVars, volumes
  <1>1. phase = "split"
    BY DEF FilesInv, ListedAll
  <1>2. Len(target) = 0 /\ Len(found) \in Nat
    BY Limits DEF FilesInv, MergedAsListed
  <1>3. FilesTypeOK'
    BY DEF FilesInv, FilesTypeOK
  <1>4. ListedAll'
    BY <1>1 DEF FilesInv, ListedAll
  <1>5. MergedAsListed'
    BY <1>1, <1>2 DEF MergedAsListed
  <1>6. CutInOrder' /\ SlicesFollowPlan' /\ CleanupLast'
    BY DEF FilesInv, CutInOrder, SlicesFollowPlan, CleanupLast
  <1>7. FilesAccounted'
    BY <1>1 DEF FilesInv, CleanupLast, FilesAccounted
  <1> QED
    BY <1>3, <1>4, <1>5, <1>6, <1>7 DEF FilesInv

LEMMA UpdateTaskInv ==
    ASSUME FilesInv, UpdateTask
    PROVE  FilesInv'
  <1> USE DEF UpdateTask, Plan, volumes, commands
  <1>1. found = Sorted(Segments(parts)) /\ listed = found
    BY DEF FilesInv, ListedAll
  <1>2. planned' = parts
    BY <1>1, Limits, SortedSegments
  <1>3. files = Segments(parts) /\ ran = {} /\ running = {} /\ records = 0 /\ cleaning = "none"
    BY DEF FilesInv, CutInOrder, SlicesFollowPlan, CleanupLast
  <1>4. FilesTypeOK'
    <2>1. planned' \in 0 .. MaxSlices
      BY Limits
    <2> QED
      BY <2>1 DEF FilesInv, FilesTypeOK, Phases
  <1>5. ListedAll'
    BY <1>1, <1>2 DEF FilesInv, ListedAll
  <1>6. SlicesFollowPlan'
    BY <1>3 DEF FilesInv, SlicesFollowPlan
  <1>7. CutInOrder' /\ MergedAsListed' /\ CleanupLast'
    BY <1>3 DEF FilesInv, CutInOrder, MergedAsListed, CleanupLast
  <1>8. FilesAccounted'
    BY <1>3 DEF FilesAccounted
  <1> QED
    BY <1>4, <1>5, <1>6, <1>7, <1>8 DEF FilesInv
-----------------------------------------------------------------------------
(* Slices.                                                                 *)

LEMMA BookSliceInv ==
    ASSUME FilesInv, BookSlice
    PROVE  FilesInv'
  <1> USE DEF BookSlice, Schedule, volumes, commands
  <1>1. FilesTypeOK'
    BY DEF FilesInv, FilesTypeOK
  <1>2. SlicesFollowPlan'
    BY DEF FilesInv, SlicesFollowPlan
  <1>3. CutInOrder' /\ ListedAll' /\ MergedAsListed' /\ CleanupLast'
    BY DEF FilesInv, CutInOrder, ListedAll, MergedAsListed, CleanupLast
  <1>4. FilesAccounted'
    BY DEF FilesInv, FilesAccounted, RecordedOnce
  <1> QED
    BY <1>1, <1>2, <1>3, <1>4 DEF FilesInv

LEMMA EncodeSliceInv ==
    ASSUME FilesInv, NEW i \in Indexes, EncodeSlice(i)
    PROVE  FilesInv'
  <1> USE DEF EncodeSlice, progressVars
  <1>1. phase \notin {"new", "split"} /\ i \in 0 .. (planned - 1)
    BY Limits DEF FilesInv, SlicesFollowPlan, HasJob, Indexes
  <1>2. Encoding(i) \in AllFiles
    BY DEF Encoding, AllFiles
  <1>3. FilesTypeOK'
    BY <1>2 DEF FilesInv, FilesTypeOK
  <1>4. SlicesFollowPlan'
    BY <1>1 DEF FilesInv, SlicesFollowPlan
  <1>5. CutInOrder' /\ ListedAll' /\ MergedAsListed' /\ CleanupLast'
    BY <1>1 DEF FilesInv, CutInOrder, ListedAll, MergedAsListed, CleanupLast
  <1>6. FilesAccounted'
    <2>1. cleaning # "none" => ~ RecordedOnce
      BY <1>1, AllRan DEF FilesInv, CleanupLast
    <2> QED
      BY <2>1 DEF FilesInv, FilesAccounted, RecordedOnce
  <1> QED
    BY <1>3, <1>4, <1>5, <1>6 DEF FilesInv

LEMMA RecordSliceInv ==
    ASSUME FilesInv, NEW i \in Indexes, RecordSlice(i)
    PROVE  FilesInv' /\ (RecordedOnce' => RecordedOnce)
  <1> USE DEF RecordSlice, Finish, volumes, commands
  <1>1. /\ done \in SUBSET (0 .. (planned - 1)) /\ planned \in Nat /\ records \in Nat
        /\ Cardinality(done) <= records
    BY Limits DEF FilesInv, SlicesFollowPlan
  <1>2. IsFiniteSet(done) /\ Cardinality(done) \in Nat
    <2>1. IsFiniteSet(0 .. (planned - 1))
      BY <1>1, FS_Interval
    <2>2. IsFiniteSet(done)
      BY <1>1, <2>1, FS_Subset
    <2> QED
      BY <2>2, FS_CardinalityType
  <1>3. Cardinality(done') \in {Cardinality(done), Cardinality(done) + 1}
    BY <1>2, FS_AddElement
  <1>4. RecordedOnce' => RecordedOnce
    BY <1>1, <1>2, <1>3 DEF RecordedOnce
  <1>5. phase \in Phases /\ phase' \in Phases
    BY DEF FilesInv, FilesTypeOK, Phases
  <1>6. FilesTypeOK'
    BY <1>5 DEF FilesInv, FilesTypeOK
  <1>7. SlicesFollowPlan'
    BY <1>1, <1>2, <1>3, <1>5 DEF FilesInv, SlicesFollowPlan, Phases
  <1>8. CutInOrder' /\ ListedAll' /\ MergedAsListed' /\ CleanupLast'
    BY <1>5 DEF FilesInv, CutInOrder, ListedAll, MergedAsListed, CleanupLast, Phases
  <1>9. FilesAccounted'
    BY <1>4 DEF FilesInv, FilesAccounted
  <1> QED
    BY <1>4, <1>6, <1>7, <1>8, <1>9 DEF FilesInv
-----------------------------------------------------------------------------
(* Merge and cleanup.                                                      *)

LEMMA ConcatNextInv ==
    ASSUME FilesInv, ConcatNext
    PROVE  FilesInv'
  <1> USE DEF ConcatNext, progressVars, commands
  <1> DEFINE n == Len(target) + 1
  <1>1. target \in Seq(AllFiles) /\ listed \in Seq(AllFiles) /\ n \in 1 .. Len(listed)
    BY Limits
  <1>2. listed[n] \in AllFiles
    BY <1>1, ElementOfSeq
  <1>3. /\ target' \in Seq(AllFiles) /\ Len(target') = n
        /\ \A k \in 1 .. n : target'[k] = IF k <= Len(target) THEN target[k] ELSE listed[n]
    BY <1>1, <1>2, AppendProperties
  <1>4. FilesTypeOK'
    BY <1>3 DEF FilesInv, FilesTypeOK
  <1>5. MergedAsListed'
    <2>1. \A k \in 1 .. Len(target) : target[k] = listed[k]
      BY DEF FilesInv, MergedAsListed
    <2>2. \A k \in 1 .. n : target'[k] = listed[k]
      BY <1>1, <1>3, <2>1
    <2> QED
      BY <1>1, <1>3, <2>2 DEF MergedAsListed
  <1>6. CutInOrder' /\ ListedAll' /\ SlicesFollowPlan' /\ CleanupLast' /\ FilesAccounted'
    BY DEF FilesInv, CutInOrder, ListedAll, SlicesFollowPlan, CleanupLast, FilesAccounted,
           RecordedOnce
  <1> QED
    BY <1>4, <1>5, <1>6 DEF FilesInv

\* MergeCompletes and CleanupCompletes go to the next phase.
LEMMA CompletionInv ==
    ASSUME FilesInv, MergeCompletes \/ CleanupCompletes
    PROVE  FilesInv'
  <1> USE DEF MergeCompletes, JoinUp, CleanupCompletes, CleanUp, volumes, commands
  <1>1. FilesTypeOK'
    BY DEF FilesInv, FilesTypeOK, Phases
  <1>2. CutInOrder' /\ ListedAll' /\ SlicesFollowPlan'
    BY DEF FilesInv, CutInOrder, ListedAll, SlicesFollowPlan
  <1>3. MergedAsListed' /\ CleanupLast'
    BY DEF FilesInv, MergedAsListed, CleanupLast
  <1>4. FilesAccounted'
    BY DEF FilesInv, FilesAccounted, RecordedOnce
  <1> QED
    BY <1>1, <1>2, <1>3, <1>4 DEF FilesInv

LEMMA CleanupInv ==
    ASSUME FilesInv,
           ListIntermediaryFiles \/ DeleteSourceFile \/ \E file \in AllFiles : DeleteFile(file)
    PROVE  FilesInv'
  <1> USE DEF ListIntermediaryFiles, DeleteSourceFile, DeleteFile, progressVars, volumes
  <1>1. phase \in {"merged", "ready"}
    BY DEF FilesInv, CleanupLast
  <1>2. FilesTypeOK'
    <2>1. ignored' \in Nat /\ doomed' \subseteq AllFiles /\ files' \subseteq AllFiles
      BY FilesAssumption DEF FilesInv, FilesTypeOK
    <2>2. source' \in BOOLEAN /\ cleaning' \in {"none", "files", "source"}
      BY DEF FilesInv, FilesTypeOK
    <2>3. UNCHANGED <<phase, planned, parts, found, listed, target, ran, failed>>
      OBVIOUS
    <2> QED
      BY <2>1, <2>2, <2>3 DEF FilesInv, FilesTypeOK
  <1>3. CutInOrder' /\ ListedAll' /\ SlicesFollowPlan' /\ MergedAsListed'
    BY <1>1 DEF FilesInv, CutInOrder, ListedAll, SlicesFollowPlan, MergedAsListed
  <1>4. CleanupLast'
    BY <1>1 DEF FilesInv, CleanupLast
  <1>5. FilesAccounted'
    BY <1>1, FilesAssumption DEF FilesInv, FilesTypeOK, FilesAccounted, RecordedOnce
  <1> QED
    BY <1>2, <1>3, <1>4, <1>5 DEF FilesInv

LEMMA PodFailsInv ==
    ASSUME FilesInv, PodFails
    PROVE  FilesInv'
  <1> USE DEF PodFails, progressVars, volumes, commands
  <1>1. FilesTypeOK'
    BY DEF FilesInv, FilesTypeOK
  <1> QED
    BY <1>1 DEF FilesInv, CutInOrder, ListedAll, SlicesFollowPlan, MergedAsListed, CleanupLast,
                FilesAccounted, RecordedOnce

LEMMA FilesInvNext ==
    ASSUME FilesInv, [FilesNext]_filesVars
    PROVE  FilesInv'
  <1>1. CASE UNCHANGED filesVars
    BY <1>1 DEF filesVars, progressVars, volumes, commands, FilesInv, FilesTypeOK, CutInOrder,
                ListedAll, SlicesFollowPlan, MergedAsListed, CleanupLast, FilesAccounted,
                RecordedOnce
  <1>2. CASE CutSegment \/ SplitCompletes
    BY <1>2, CutSegmentInv, SplitCompletesInv
  <1>3. CASE ScanSegmentFiles \/ EnsureConfigMap \/ UpdateTask
    BY <1>3, ScanSegmentFilesInv, EnsureConfigMapInv, UpdateTaskInv
  <1>4. CASE BookSlice \/ \E i \in Indexes : EncodeSlice(i) \/ RecordSlice(i)
    BY <1>4, BookSliceInv, EncodeSliceInv, RecordSliceInv
  <1>5. CASE ConcatNext \/ MergeCompletes \/ CleanupCompletes
    BY <1>5, ConcatNextInv, CompletionInv
  <1>6. CASE ListIntermediaryFiles \/ DeleteSourceFile \/ \E file \in AllFiles : DeleteFile(file)
    BY <1>6, CleanupInv
  <1>7. CASE PodFails
    BY <1>7, PodFailsInv
  <1> QED
    BY <1>1, <1>2, <1>3, <1>4, <1>5, <1>6, <1>7 DEF FilesNext

\* FilesInv holds in every reachable state: of any number of segments, whatever
\* pods and removals fail and whatever completions are recorded twice.
THEOREM FilesInvariance == FilesSpec => []FilesInv
  <1>1. FilesInit => FilesInv
    BY FilesInvInit
  <1>2. FilesInv /\ [FilesNext]_filesVars => FilesInv'
    BY FilesInvNext
  <1> QED
    BY <1>1, <1>2, PTL DEF FilesSpec
-----------------------------------------------------------------------------
(* What it implies.                                                        *)

\* The variables of the files, the pods and the commands keep their types.
THEOREM FilesTypeCorrect == FilesSpec => []FilesTypeOK
  <1>1. FilesInv => FilesTypeOK
    BY DEF FilesInv
  <1> QED
    BY <1>1, FilesInvariance, PTL

\* The source file is only removed when every part of it is in the target file.
THEOREM SourceOutlivesMerge == FilesSpec => []SourceRemovedAfterMerge
  <1>1. ASSUME FilesInv, ~ source
        PROVE  {target[k][1] : k \in 1 .. Len(target)} = 0 .. (parts - 1)
    <2>1. phase \in {"merged", "ready"}
      BY <1>1 DEF FilesInv, CleanupLast
    <2>2. /\ Len(target) = Len(listed) /\ \A k \in 1 .. Len(target) : target[k] = listed[k]
          /\ listed = Sorted(Segments(parts))
      BY <1>1, <2>1 DEF FilesInv, MergedAsListed, ListedAll
    <2>3. parts \in Nat
      BY <1>1, Limits
    <2> DEFINE list == Sorted(Segments(parts))
    <2>4. Len(list) = parts /\ {list[k][1] : k \in 1 .. parts} = 0 .. (parts - 1)
      BY <2>3, SortedSegments
    <2>5. listed = list
      BY <2>2
    <2> HIDE DEF list
    <2>6. Len(listed) = parts /\ {listed[k][1] : k \in 1 .. parts} = 0 .. (parts - 1)
      BY <2>4, <2>5
    <2> QED
      BY <2>2, <2>6
  <1>2. FilesInv => SourceRemovedAfterMerge
    BY <1>1 DEF SourceRemovedAfterMerge
  <1> QED
    BY <1>2, FilesInvariance, PTL

\* Every slice that is planned and has not been encoded finds its segment.
THEOREM SlicesFindInput == FilesSpec => []SlicesHaveInput
  <1>1. ASSUME FilesInv, phase \notin {"new", "split"}, RecordedOnce
        PROVE  planned = parts /\ \A i \in 0 .. (planned - 1) : i \in ran \/ Segment(i) \in files
    <2>1. planned = parts
      BY <1>1 DEF FilesInv, ListedAll
    <2>2. CASE cleaning = "none"
      BY <1>1, <2>1, <2>2 DEF FilesInv, FilesAccounted, Segments
    <2>3. CASE cleaning # "none"
      BY <1>1, <2>1, <2>3, AllRan DEF FilesInv, CleanupLast
    <2> QED
      BY <2>1, <2>2, <2>3
  <1>2. FilesInv => SlicesHaveInput
    BY <1>1 DEF SlicesHaveInput
  <1> QED
    BY <1>2, FilesInvariance, PTL

\* A Task that is Ready leaves no file behind.
THEOREM IntermediatesRemoved == FilesSpec => []NothingLeftBehind
  <1>1. FilesInv => NothingLeftBehind
    BY DEF FilesInv, NothingLeftBehind, CleanupLast, FilesAccounted
  <1> QED
    BY <1>1, FilesInvariance, PTL
=============================================================================
