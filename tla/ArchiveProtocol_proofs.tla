----------------------- MODULE ArchiveProtocol_proofs -----------------------
(***************************************************************************)
(* Proofs about ArchiveProtocol, for every set of rows and tables, every   *)
(* number of acknowledgements, exports and faults, and every overlap of the*)
(* jobs, the laptop and the acknowledgements.  IInv is inductive; the      *)
(* safety properties follow from it, and so does that each step is one of  *)
(* RowTransfer.                                                            *)
(***************************************************************************)
EXTENDS ArchiveProtocol, FiniteSetTheorems, TLAPS

-----------------------------------------------------------------------------
(* Counting rows. *)

\* The rows of a set that are in a table are finitely many, and are counted.
LEMMA CountsTyped ==
  ASSUME NEW S \in SUBSET Rows
  PROVE  /\ CountsOf(S) \in AllCounts
         /\ \A t \in Tables :
              /\ IsFiniteSet({r \in S : TableOf[r] = t})
              /\ CountsOf(S)[t] = Cardinality({r \in S : TableOf[r] = t})
<1> SUFFICES ASSUME NEW t \in Tables
             PROVE  /\ IsFiniteSet({r \in S : TableOf[r] = t})
                    /\ Cardinality({r \in S : TableOf[r] = t}) \in 0 .. Cardinality(Rows)
  BY DEF CountsOf, AllCounts
<1>1. {r \in S : TableOf[r] = t} \in SUBSET Rows
  OBVIOUS
<1> QED BY <1>1, ArchiveAssumption, FS_Subset, FS_CardinalityType

\* Equal counts of a set and of a part of it: the part is the set.  This is why
\* comparing the counts is enough for the acknowledgement.
LEMMA SameCounts ==
  ASSUME NEW S \in SUBSET Rows, NEW A \in SUBSET S, CountsOf(A) = CountsOf(S)
  PROVE  A = S
<1> SUFFICES ASSUME NEW r \in S PROVE r \in A
  OBVIOUS
<1> DEFINE t == TableOf[r]
           P(X) == {x \in X : TableOf[x] = t}
<1>1. t \in Tables
  BY ArchiveAssumption
<1>2. IsFiniteSet(P(S)) /\ Cardinality(P(A)) = Cardinality(P(S))
  <2>1. CountsOf(A)[t] = Cardinality(P(A)) /\ CountsOf(S)[t] = Cardinality(P(S))
    BY <1>1 DEF CountsOf
  <2>2. IsFiniteSet(P(S))
    BY <1>1, CountsTyped
  <2> QED BY <2>1, <2>2
<1>3. P(A) \in SUBSET P(S)
  OBVIOUS
<1>4. P(A) = P(S)
  BY <1>2, <1>3, FS_Subset
<1> QED BY <1>4

\* A table that holds a row has a count.
LEMMA CountPositive ==
  ASSUME NEW S \in SUBSET Rows, NEW r \in S
  PROVE  CountsOf(S)[TableOf[r]] > 0
<1> DEFINE P == {x \in S : TableOf[x] = TableOf[r]}
<1>1. TableOf[r] \in Tables
  BY ArchiveAssumption
<1>2. IsFiniteSet(P) /\ CountsOf(S)[TableOf[r]] = Cardinality(P) /\ P # {}
  BY <1>1, CountsTyped
<1>3. Cardinality(P) \in Nat /\ Cardinality(P) # 0
  BY <1>2, FS_CardinalityType, FS_EmptySet
<1> QED BY <1>2, <1>3

-----------------------------------------------------------------------------
(* What steps leave of the invariant. *)

\* Counted rows stay counted while the archive and the laptop only grow, and
\* neither the .bak of that name nor what was merged under it appears or changes.
LEMMA CountedStays ==
  ASSUME NEW c, NEW n, Counted(c, n), arch \subseteq arch',
         kept \cup skipped \subseteq kept' \cup skipped',
         n \in DOMAIN baks' => n \in DOMAIN baks /\ baks'[n] = baks[n],
         state'.merged = n => state.merged = n
  PROVE  \E S \in SUBSET arch' :
           /\ c = CountsOf(S)
           /\ n \in DOMAIN baks' => S \subseteq baks'[n]
           /\ state'.merged = n => S \subseteq kept' \cup skipped'
<1>1. PICK S \in SUBSET arch :
        /\ c = CountsOf(S)
        /\ n \in DOMAIN baks => S \subseteq baks[n]
        /\ state.merged = n => S \subseteq kept \cup skipped
  BY DEF Counted
<1>2. S \in SUBSET arch'
  BY <1>1
<1> QED BY <1>1, <1>2

\* No chunk has appeared or changed, and nothing was truncated.
LEMMA CountsStay ==
  ASSUME CountsKept, arch \subseteq arch', kept \cup skipped \subseteq kept' \cup skipped',
         UNCHANGED <<pending, export, exports, emptied>>,
         \A n \in DOMAIN baks' : n \in DOMAIN baks /\ baks'[n] = baks[n],
         state'.merged = state.merged
  PROVE  CountsKept'
<1>1. export'.pc = "counted" /\ exports' \notin emptied'
        => \E S \in SUBSET arch' : export'.counts = CountsOf(S)
  BY DEF CountsKept
<1>2. export'.pc = "built" /\ exports' \notin emptied' => Counted(export.counts, exports)'
  <2> SUFFICES ASSUME export.pc = "built", exports \notin emptied
               PROVE  Counted(export.counts, exports)'
    OBVIOUS
  <2>1. Counted(export.counts, exports)
    BY DEF CountsKept
  <2> QED BY <2>1, CountedStays DEF Counted
<1>3. pending' # NoPending /\ pending'.bak \notin emptied'
        => Counted(pending.counts, pending.bak)'
  <2> SUFFICES ASSUME pending # NoPending, pending.bak \notin emptied
               PROVE  Counted(pending.counts, pending.bak)'
    OBVIOUS
  <2>1. Counted(pending.counts, pending.bak)
    BY DEF CountsKept
  <2> QED BY <2>1, CountedStays DEF Counted
<1> QED BY <1>1, <1>2, <1>3 DEF CountsKept

\* What TypeOK says of the values that stand for nothing.
LEMMA NothingTyped ==
  /\ NoPending \in [bak : Names, counts : AllCounts]
  /\ NoExport \in [pc : {"idle", "counted", "built"}, counts : AllCounts]
  /\ NoAck \in AckType /\ Off \in LapType
<1>1. NoCounts \in AllCounts
  BY FS_CardinalityType, ArchiveAssumption DEF NoCounts, AllCounts
<1>2. 0 \in Names /\ 1 \in 1 .. Len(DeleteOrder) + 1
  BY ArchiveAssumption, OrderAssumption DEF Names
<1> QED BY <1>1, <1>2 DEF NoPending, NoExport, NoAck, Off, None, AckType, LapType

-----------------------------------------------------------------------------
(* The weekly jobs. *)

LEMMA AgeKeeps ==
  ASSUME IInv, NEW r \in Rows, Age(r)
  PROVE  IInv'
<1> USE DEF IInv, Age, laptop, history
<1>1. TypeOK'
  BY DEF TypeOK
<1>2. LegHasParent' /\ ChunkKept' /\ FamilyArchived' /\ PassedEmpty'
  BY DEF LegHasParent, ChunkKept, FamilyArchived, PassedEmpty
<1>3. OneAtATime' /\ OneHeard' /\ NameFresh' /\ DeletedIsKept'
  BY DEF OneAtATime, OneHeard, NameFresh, DeletedIsKept, Acking
<1>4. CountsKept'
  BY CountsStay
<1> QED BY <1>1, <1>2, <1>3, <1>4

LEMMA HotBackupKeeps ==
  ASSUME IInv, HotBackup
  PROVE  IInv'
<1> USE DEF IInv, HotBackup, laptop, history
<1>1. TypeOK'
  BY DEF TypeOK
<1>2. LegHasParent' /\ ChunkKept' /\ FamilyArchived' /\ PassedEmpty'
  BY DEF LegHasParent, ChunkKept, FamilyArchived, PassedEmpty
<1>3. OneAtATime' /\ OneHeard' /\ NameFresh' /\ DeletedIsKept'
  BY DEF OneAtATime, OneHeard, NameFresh, DeletedIsKept, Acking
<1>4. CountsKept'
  BY CountsStay
<1> QED BY <1>1, <1>2, <1>3, <1>4

\* A family is archived as a whole; under a running acknowledgement it is stray.
LEMMA WeeklyArchiveKeeps ==
  ASSUME IInv, WeeklyArchive
  PROVE  IInv'
<1> USE DEF IInv
<1>0. /\ arch' = arch \cup Due
      /\ stray' = IF Deleting THEN stray \cup (Due \ arch) ELSE stray
      /\ UNCHANGED <<hot, old, baks, pending, hotbak, export, ack, lap, state, kept,
                     exports, faults, skipped, crossed, emptied>>
  BY DEF WeeklyArchive, laptop
<1>1. stray \subseteq stray' /\ (Deleting => Due \subseteq arch \cup stray')
  BY <1>0
<1>2. TypeOK'
  BY <1>0 DEF TypeOK, Due
<1>3. LegHasParent' /\ ChunkKept'
  BY <1>0, <1>1 DEF LegHasParent, ChunkKept
<1>4. FamilyArchived'
  <2> SUFFICES ASSUME NEW r \in hot, ParentOf[r] \in arch \cup Due PROVE r \in arch \cup Due
    BY <1>0 DEF FamilyArchived
  <2>1. CASE ParentOf[r] \in arch
    BY <2>1 DEF FamilyArchived
  <2>2. CASE ParentOf[r] \in Due
    <3>1. r \in Rows
      BY DEF TypeOK
    <3>2. ParentOf[ParentOf[r]] = ParentOf[r]
      BY <3>1, OrderAssumption
    <3> QED BY <2>2, <3>2 DEF Due
  <2> QED BY <2>1, <2>2
<1>5. PassedEmpty'
  <2> SUFFICES ASSUME NEW a \in Ackers, ack[a].pc = "deleting",
                      NEW r \in (hot \cap (arch \cup Due)) \ stray',
                      NEW i \in DOMAIN DeleteOrder, i < ack[a].table
               PROVE  TableOf[r] # DeleteOrder[i]
    BY <1>0 DEF PassedEmpty
  <2>1. r \in (hot \cap arch) \ stray
    BY <1>1 DEF Deleting
  <2> QED BY <2>1 DEF PassedEmpty
<1>6. DeletedIsKept'
  BY <1>0, <1>1 DEF DeletedIsKept, Deleting
<1>7. OneAtATime' /\ OneHeard' /\ NameFresh'
  BY <1>0 DEF OneAtATime, OneHeard, NameFresh, Acking
<1>8. CountsKept'
  BY <1>0, CountsStay
<1> QED BY <1>2, <1>3, <1>4, <1>5, <1>6, <1>7, <1>8

LEMMA ExportCountsKeeps ==
  ASSUME IInv, ExportCounts
  PROVE  IInv'
<1> USE DEF IInv
<1>0. /\ export = NoExport /\ exports < MaxExports
      /\ export' = [pc |-> "counted", counts |-> CountsOf(arch)]
      /\ exports' = exports + 1
      /\ crossed' = IF lap # Off \/ Acking THEN crossed \cup {exports + 1} ELSE crossed
      /\ UNCHANGED <<hot, old, arch, baks, pending, hotbak, ack, lap, state, kept, faults,
                     stray, skipped, emptied>>
  BY DEF ExportCounts, laptop, Counts
<1>1. /\ exports \in Nat /\ exports + 1 \in Names /\ crossed \subseteq crossed'
      /\ crossed' \subseteq crossed \cup {exports + 1}
  BY <1>0, ArchiveAssumption DEF TypeOK, Names
<1>2. TypeOK'
  <2>1. CountsOf(arch) \in AllCounts
    BY CountsTyped DEF TypeOK
  <2> QED BY <1>0, <1>1, <2>1, ArchiveAssumption DEF TypeOK
<1>3. LegHasParent' /\ ChunkKept' /\ FamilyArchived' /\ PassedEmpty' /\ DeletedIsKept'
  BY <1>0, <1>1 DEF LegHasParent, ChunkKept, FamilyArchived, PassedEmpty, DeletedIsKept
<1>4. OneAtATime' /\ OneHeard'
  BY <1>0, <1>1 DEF OneAtATime, OneHeard, Acking
<1>5. NameFresh'
  <2>1. pending.bak \in 0 .. exports /\ lap.bak \in 0 .. exports /\ state.merged \in 0 .. exports
    BY DEF NameFresh
  <2>2. crossed' \cup emptied' \subseteq 0 .. exports'
    BY <1>0, <1>1 DEF NameFresh
  <2> QED BY <1>0, <1>1, <2>1, <2>2 DEF NameFresh
<1>6. CountsKept'
  <2>1. pending' # NoPending /\ pending'.bak \notin emptied' => Counted(pending.counts, pending.bak)'
    BY <1>0 DEF CountsKept, Counted
  <2>2. \E S \in SUBSET arch' : export'.counts = CountsOf(S)
    BY <1>0
  <2>3. export'.pc # "built"
    BY <1>0
  <2> QED BY <2>1, <2>2, <2>3 DEF CountsKept
<1> QED BY <1>2, <1>3, <1>4, <1>5, <1>6

LEMMA ExportNothingKeeps ==
  ASSUME IInv, ExportNothing
  PROVE  IInv'
<1> USE DEF IInv
<1>0. /\ export = NoExport /\ pending = NoPending /\ baks' = [n \in {} |-> {}]
      /\ UNCHANGED <<hot, old, arch, pending, hotbak, export, ack, lap, state, kept,
                     exports, faults, history>>
  BY DEF ExportNothing, laptop
<1>1. DOMAIN baks' = {}
  BY <1>0
<1>2. TypeOK'
  BY <1>0, <1>1 DEF TypeOK, history
<1>3. LegHasParent' /\ ChunkKept' /\ FamilyArchived' /\ PassedEmpty' /\ DeletedIsKept'
  BY <1>0 DEF LegHasParent, ChunkKept, FamilyArchived, PassedEmpty, DeletedIsKept, history
<1>4. OneAtATime' /\ OneHeard' /\ NameFresh'
  BY <1>0, <1>1 DEF OneAtATime, OneHeard, NameFresh, NoExport, Acking, history
<1>5. CountsKept'
  BY <1>0 DEF CountsKept, NoExport
<1> QED BY <1>2, <1>3, <1>4, <1>5

LEMMA ExportBuildsKeeps ==
  ASSUME IInv, ExportBuilds
  PROVE  IInv'
<1> USE DEF IInv
<1> DEFINE Built == {r \in arch : export.counts[TableOf[r]] > 0}
<1>0. /\ export.pc = "counted" /\ export' = [export EXCEPT !.pc = "built"]
      /\ baks' = [n \in DOMAIN baks \cup {exports} |-> IF n = exports THEN Built ELSE baks[n]]
      /\ UNCHANGED <<hot, old, arch, pending, hotbak, ack, lap, state, kept, exports, faults,
                     stray, skipped, crossed, emptied>>
  BY DEF ExportBuilds, laptop, history
<1>1. /\ export # NoExport
      /\ export'.pc = "built" /\ export'.counts = export.counts /\ export' # NoExport
  BY <1>0 DEF NoExport, TypeOK
<1>2. exports \in 1 .. MaxExports
  BY <1>1, ArchiveAssumption DEF NameFresh, TypeOK
<1>3. /\ DOMAIN baks' = DOMAIN baks \cup {exports} /\ baks'[exports] = Built
      /\ \A n \in DOMAIN baks : n # exports => baks'[n] = baks[n]
  BY <1>0
<1>4. TypeOK'
  <2>1. Built \in SUBSET Rows
    BY DEF TypeOK
  <2> HIDE DEF Built
  <2>2. baks' \in [DOMAIN baks' -> SUBSET Rows]
    BY <1>0, <2>1 DEF TypeOK
  <2>3. DOMAIN baks' \subseteq 1 .. MaxExports
    BY <1>2, <1>3 DEF TypeOK
  <2>4. export' \in [pc : {"idle", "counted", "built"}, counts : AllCounts]
    BY <1>0 DEF TypeOK
  <2> QED BY <1>0, <2>2, <2>3, <2>4 DEF TypeOK
<1>5. LegHasParent' /\ ChunkKept' /\ FamilyArchived' /\ PassedEmpty' /\ DeletedIsKept'
  BY <1>0, <1>3 DEF LegHasParent, ChunkKept, FamilyArchived, PassedEmpty, DeletedIsKept
<1>6. OneAtATime' /\ OneHeard'
  BY <1>0, <1>1 DEF OneAtATime, OneHeard, Acking
<1>7. NameFresh'
  BY <1>0, <1>1, <1>2, <1>3 DEF NameFresh
<1>8. CountsKept'
  <2>1. exports \notin emptied => Counted(export.counts, exports)'
    <3> SUFFICES ASSUME exports \notin emptied PROVE Counted(export.counts, exports)'
      OBVIOUS
    <3>1. PICK S \in SUBSET arch : export.counts = CountsOf(S)
      BY <1>0 DEF CountsKept
    <3>2. S \subseteq Built
      BY <3>1, CountPositive DEF TypeOK
    <3>3. state'.merged # exports
      BY <1>0, <1>1, <1>2 DEF NameFresh
    <3> QED BY <1>0, <1>1, <1>3, <3>1, <3>2, <3>3 DEF Counted
  <2>2. pending' # NoPending /\ pending'.bak \notin emptied' => Counted(pending.counts, pending.bak)'
    <3> SUFFICES ASSUME pending # NoPending, pending.bak \notin emptied
                 PROVE  Counted(pending.counts, pending.bak)'
      BY <1>0
    <3>1. Counted(pending.counts, pending.bak)
      BY DEF CountsKept
    <3>2. pending.bak # exports
      BY <1>1, <1>2 DEF NameFresh
    <3>3. pending.bak \in DOMAIN baks' =>
            pending.bak \in DOMAIN baks /\ baks'[pending.bak] = baks[pending.bak]
      BY <1>3, <3>2
    <3> QED BY <1>0, <3>1, <3>3, CountedStays DEF Counted
  <2> QED BY <1>0, <1>1, <2>1, <2>2 DEF CountsKept
<1> QED BY <1>4, <1>5, <1>6, <1>7, <1>8

LEMMA ExportEndsKeeps ==
  ASSUME IInv, ExportEnds
  PROVE  IInv'
<1> USE DEF IInv
<1>0. /\ export.pc = "built" /\ export' = NoExport
      /\ pending' = [bak |-> exports, counts |-> export.counts]
      /\ hotbak' = IF hotbak = "none" THEN "none" ELSE "older"
      /\ UNCHANGED <<hot, old, arch, baks, ack, lap, state, kept, exports, faults,
                     stray, skipped, crossed, emptied>>
  BY DEF ExportEnds, laptop, history
<1>1. export # NoExport /\ (exports \notin crossed => lap = Off /\ ~Acking)
  BY <1>0 DEF NoExport, OneAtATime
<1>2. /\ exports \in DOMAIN baks \cup crossed
      /\ exports \notin emptied => Counted(export.counts, exports)
  BY <1>0 DEF NameFresh, CountsKept
<1>3. exports \in 1 .. MaxExports
  BY <1>1, ArchiveAssumption DEF NameFresh, TypeOK
<1>4. TypeOK'
  <2>1. pending' \in [bak : Names, counts : AllCounts]
    BY <1>0, <1>3 DEF TypeOK, Names
  <2> QED BY <1>0, <2>1, NothingTyped DEF TypeOK
<1>5. LegHasParent' /\ FamilyArchived' /\ PassedEmpty' /\ DeletedIsKept'
  BY <1>0 DEF LegHasParent, FamilyArchived, PassedEmpty, DeletedIsKept
<1>6. ChunkKept'
  BY <1>0, <1>2 DEF ChunkKept
<1>7. OneAtATime' /\ OneHeard'
  BY <1>0, <1>1 DEF OneAtATime, OneHeard, Acking
<1>8. NameFresh'
  BY <1>0, <1>1, <1>3 DEF NameFresh, NoExport, None
<1>9. CountsKept'
  BY <1>0, <1>2 DEF CountsKept, Counted, NoExport
<1> QED BY <1>4, <1>5, <1>6, <1>7, <1>8, <1>9

-----------------------------------------------------------------------------
(* The laptop. *)

\* No acknowledgement is heard unless the laptop waits for one.
LEMMA NoneHeard ==
  ASSUME IInv, lap.pc # "acking", NEW a \in Ackers
  PROVE  ~ack[a].ssh
BY DEF IInv, OneHeard

\* The script ends, or stops: it names no export, and acknowledgements go on.
LEMMA LaptopOff ==
  ASSUME IInv, lap' = Off, Acking' => Acking, \A a \in Ackers : ~ack'[a].ssh,
         UNCHANGED <<pending, baks, export, exports, crossed, emptied>>,
         state'.merged = state.merged
  PROVE  OneAtATime' /\ OneHeard' /\ NameFresh' /\ lap' \in LapType
<1> USE DEF IInv
<1>1. OneAtATime' /\ OneHeard'
  BY DEF OneAtATime, OneHeard, Off
<1>2. 0 \in 0 .. exports /\ (export # NoExport => 0 \in 0 .. exports - 1)
  BY ArchiveAssumption DEF NameFresh, TypeOK
<1>3. NameFresh'
  BY <1>2 DEF NameFresh, Off, None
<1> QED BY <1>1, <1>3, NothingTyped

\* What the laptop does leaves the VM's half of IInv alone.
LEMMA LaptopFrame ==
  ASSUME IInv, kept \cup skipped \subseteq kept' \cup skipped', state'.merged = state.merged,
         crossed \subseteq crossed',
         UNCHANGED <<hot, arch, baks, pending, export, ack, exports, stray, emptied>>
  PROVE  /\ LegHasParent' /\ ChunkKept' /\ FamilyArchived' /\ PassedEmpty'
         /\ CountsKept' /\ DeletedIsKept'
<1> USE DEF IInv
<1>1. LegHasParent' /\ ChunkKept' /\ FamilyArchived' /\ PassedEmpty'
  BY DEF LegHasParent, ChunkKept, FamilyArchived, PassedEmpty
<1>2. DeletedIsKept'
  BY DEF DeletedIsKept
<1>3. CountsKept'
  BY CountsStay
<1> QED BY <1>1, <1>2, <1>3

LEMMA PullKeeps ==
  ASSUME IInv, Pull
  PROVE  IInv'
<1> USE DEF IInv
<1>0. /\ lap.pc = "off" /\ lap' = [pc |-> "pulling", bak |-> pending.bak]
      /\ crossed' = IF export # NoExport THEN crossed \cup {exports} ELSE crossed
      /\ UNCHANGED <<hot, old, arch, baks, pending, hotbak, export, ack, state, kept, exports,
                     faults, stray, skipped, emptied>>
  BY DEF Pull, Crossing, vm
<1>1. crossed \subseteq crossed' /\ exports \in 0 .. exports /\ exports \in Names
  BY <1>0, ArchiveAssumption DEF TypeOK, Names
<1>2. TypeOK'
  BY <1>0, <1>1 DEF TypeOK, LapType
<1>3. OneAtATime' /\ OneHeard'
  BY <1>0, <1>1, NoneHeard DEF OneAtATime, OneHeard, Acking
<1>4. NameFresh'
  BY <1>0, <1>1 DEF NameFresh, NoPending, None
<1> QED BY <1>0, <1>1, <1>2, <1>3, <1>4, LaptopFrame

\* What a merge of any of the tables takes is rows.
LEMMA ChunkTyped ==
  ASSUME IInv, MayMerge, NEW T
  PROVE  ChunkOf(T) \in SUBSET Rows
<1>1. CASE state.merged = lap.bak
  BY <1>1 DEF ChunkOf
<1>2. CASE state.merged # lap.bak
  <2>1. lap.bak \in DOMAIN baks
    BY <1>2 DEF MayMerge
  <2> QED BY <1>2, <2>1 DEF ChunkOf, IInv, TypeOK
<1> QED BY <1>1, <1>2

\* A merge takes every row of the chunk, or passes over its table.
LEMMA MergeKeeps ==
  ASSUME IInv, Merge
  PROVE  IInv'
<1> USE DEF IInv
<1>0. /\ lap.pc = "pulling" /\ MayMerge
      /\ lap' = [lap EXCEPT !.pc = "merged"]
      /\ state' = [state EXCEPT !.merged = lap.bak]
      /\ faults' \in 0 .. MaxFaults
      /\ UNCHANGED <<hot, old, arch, baks, pending, hotbak, export, ack, exports,
                     stray, crossed, emptied>>
  BY ArchiveAssumption DEF Merge, vm, TypeOK
<1>1. PICK U \in SUBSET Tables :
        /\ kept' = kept \cup ChunkOf(Tables \ U)
        /\ skipped' = skipped \cup (ChunkOf(U) \ kept)
  BY DEF Merge
<1>2. /\ kept \cup skipped \subseteq kept' \cup skipped'
      /\ kept' \subseteq Rows /\ skipped' \subseteq Rows
  BY <1>0, <1>1, ChunkTyped DEF TypeOK
<1>3. state.merged # lap.bak => lap.bak \in DOMAIN baks /\ baks[lap.bak] \subseteq kept' \cup skipped'
  <2> SUFFICES ASSUME state.merged # lap.bak
               PROVE  lap.bak \in DOMAIN baks /\ baks[lap.bak] \subseteq kept' \cup skipped'
    OBVIOUS
  <2>1. lap.bak \in DOMAIN baks
    BY <1>0 DEF MayMerge
  <2>2. ASSUME NEW r \in baks[lap.bak] PROVE r \in kept' \cup skipped'
    <3>1. TableOf[r] \in Tables
      BY <2>1, ArchiveAssumption DEF TypeOK
    <3> QED BY <1>1, <3>1 DEF ChunkOf
  <2> QED BY <2>1, <2>2
<1>4. /\ lap # Off /\ lap' # Off
      /\ lap'.pc = "merged" /\ lap'.bak = lap.bak /\ state'.merged = lap.bak
      /\ state' \in [merged : Names, acked : Names] /\ lap' \in LapType
  BY <1>0 DEF Off, TypeOK, LapType
<1>5. /\ pending # NoPending /\ pending.bak \notin crossed => lap.bak = pending.bak
      /\ export # NoExport => exports \in crossed /\ lap.bak # exports
  BY <1>4, ArchiveAssumption DEF OneAtATime, NameFresh, TypeOK
<1>6. TypeOK'
  BY <1>0, <1>2, <1>4 DEF TypeOK
<1>7. LegHasParent' /\ FamilyArchived' /\ PassedEmpty' /\ DeletedIsKept'
  BY <1>0, <1>2 DEF LegHasParent, FamilyArchived, PassedEmpty, DeletedIsKept
<1>8. ChunkKept'
  BY <1>0, <1>4, <1>5 DEF ChunkKept
<1>9. OneAtATime' /\ OneHeard'
  BY <1>0, <1>4, <1>5, NoneHeard DEF OneAtATime, OneHeard, Acking
<1>10. NameFresh'
  BY <1>0, <1>4 DEF NameFresh
<1>11. CountsKept'
  <2>1. export.pc = "built" /\ exports \notin emptied => Counted(export.counts, exports)'
    <3> SUFFICES ASSUME export.pc = "built", exports \notin emptied
                 PROVE  Counted(export.counts, exports)'
      OBVIOUS
    <3>1. Counted(export.counts, exports) /\ state'.merged # exports
      BY <1>4, <1>5 DEF CountsKept, NoExport
    <3> QED BY <1>0, <1>2, <3>1, CountedStays DEF Counted
  <2>2. pending # NoPending /\ pending.bak \notin emptied => Counted(pending.counts, pending.bak)'
    <3> SUFFICES ASSUME pending # NoPending, pending.bak \notin emptied
                 PROVE  Counted(pending.counts, pending.bak)'
      OBVIOUS
    <3>1. PICK S \in SUBSET arch :
            /\ pending.counts = CountsOf(S)
            /\ pending.bak \in DOMAIN baks => S \subseteq baks[pending.bak]
            /\ state.merged = pending.bak => S \subseteq kept \cup skipped
      BY DEF CountsKept, Counted
    <3>2. state'.merged = pending.bak => S \subseteq kept' \cup skipped'
      BY <1>2, <1>3, <1>4, <3>1
    <3> QED BY <1>0, <3>1, <3>2 DEF Counted
  <2> QED BY <1>0, <2>1, <2>2 DEF CountsKept
<1> QED BY <1>6, <1>7, <1>8, <1>9, <1>10, <1>11

LEMMA MergeFailsKeeps ==
  ASSUME IInv, MergeFails
  PROVE  IInv'
<1> USE DEF IInv
<1>0. lap.pc = "pulling" /\ lap' = Off /\ UNCHANGED <<vm, state, exports, history>>
  BY DEF MergeFails
<1>1. kept \subseteq kept' /\ kept' \subseteq Rows /\ faults' \in 0 .. MaxFaults
  <2>1. CASE ~MayMerge
    BY <2>1 DEF MergeFails, TypeOK
  <2>2. CASE MayMerge
    <3>1. /\ faults < MaxFaults /\ faults' = faults + 1
          /\ \E T \in SUBSET Tables : kept' = kept \cup ChunkOf(T)
      BY <2>2 DEF MergeFails
    <3> QED BY <2>2, <3>1, ChunkTyped, ArchiveAssumption DEF TypeOK
  <2> QED BY <2>1, <2>2
<1>2. OneAtATime' /\ OneHeard' /\ NameFresh' /\ lap' \in LapType
  BY <1>0, NoneHeard, LaptopOff DEF vm, history, Acking
<1>3. TypeOK'
  BY <1>0, <1>1, <1>2 DEF TypeOK, vm, history
<1> QED BY <1>0, <1>1, <1>2, <1>3, LaptopFrame DEF vm, history

LEMMA RecordAckKeeps ==
  ASSUME IInv, RecordAck
  PROVE  IInv'
<1> USE DEF IInv
<1>0. /\ lap.pc = "acked" /\ lap' = Off
      /\ state' = [merged |-> lap.bak, acked |-> lap.bak]
      /\ UNCHANGED <<hot, old, arch, baks, pending, hotbak, export, ack, kept, exports, faults,
                     stray, skipped, crossed, emptied>>
  BY DEF RecordAck, vm, history
<1>1. state'.merged = state.merged
  BY <1>0 DEF OneAtATime
<1>2. OneAtATime' /\ OneHeard' /\ NameFresh' /\ lap' \in LapType
  BY <1>0, <1>1, NoneHeard, LaptopOff DEF Acking
<1>3. state' \in [merged : Names, acked : Names]
  BY <1>0 DEF TypeOK, LapType
<1>4. TypeOK'
  BY <1>0, <1>2, <1>3 DEF TypeOK
<1> QED BY <1>0, <1>1, <1>2, <1>4, LaptopFrame

LEMMA AckRefusesKeeps ==
  ASSUME IInv, AckRefuses
  PROVE  IInv'
<1> USE DEF IInv
<1>0. /\ lap.pc = "merged" /\ lap' = Off
      /\ UNCHANGED <<hot, old, arch, baks, pending, hotbak, export, ack, state, kept, exports,
                     faults, stray, skipped, crossed, emptied>>
  BY DEF AckRefuses, vm, history
<1>1. OneAtATime' /\ OneHeard' /\ NameFresh' /\ lap' \in LapType
  BY <1>0, NoneHeard, LaptopOff DEF Acking
<1>2. TypeOK'
  BY <1>0, <1>1 DEF TypeOK
<1> QED BY <1>0, <1>1, <1>2, LaptopFrame

\* An acknowledgement the laptop no longer hears does what it did.
LEMMA LaptopStopsKeeps ==
  ASSUME IInv, LaptopStops
  PROVE  IInv'
<1> USE DEF IInv
<1>0. /\ lap' = Off /\ ack' = Unheard /\ faults' \in 0 .. MaxFaults
      /\ UNCHANGED <<hot, old, arch, baks, pending, hotbak, export, state, kept, exports,
                     stray, skipped, crossed, emptied>>
  BY ArchiveAssumption DEF LaptopStops, TypeOK, history
<1>1. /\ ack' \in [Ackers -> AckType]
      /\ \A a \in Ackers : ack'[a].pc = ack[a].pc /\ ack'[a].table = ack[a].table
                           /\ ack'[a].bak = ack[a].bak /\ ~ack'[a].ssh
  BY <1>0 DEF Unheard, TypeOK, AckType
<1>2. \A a \in Ackers : ack'[a] # NoAck => ack[a] # NoAck
  <2>1. ASSUME NEW a \in Ackers, ack[a] = NoAck PROVE ack'[a] = NoAck
    <3>1. ack'[a] = [ack[a] EXCEPT !.ssh = FALSE]
      BY <1>0 DEF Unheard
    <3>2. [NoAck EXCEPT !.ssh = FALSE] = NoAck
      <4> DEFINE same == [NoAck EXCEPT !.ssh = FALSE]
      <4>1. /\ DOMAIN same = DOMAIN NoAck
            /\ same.ssh = FALSE /\ same.pc = NoAck.pc
            /\ same.table = NoAck.table /\ same.bak = NoAck.bak
        BY DEF NoAck
      <4>2. NoAck.ssh = FALSE
        BY DEF NoAck
      <4> QED BY <4>1, <4>2 DEF NoAck
    <3> QED BY <2>1, <3>1, <3>2
  <2> QED BY <2>1
<1>3. OneAtATime' /\ OneHeard' /\ NameFresh' /\ lap' \in LapType
  BY <1>0, <1>1, <1>2, LaptopOff DEF Acking
<1>4. TypeOK'
  BY <1>0, <1>1, <1>3 DEF TypeOK
<1>5. LegHasParent' /\ ChunkKept' /\ FamilyArchived'
  BY <1>0 DEF LegHasParent, ChunkKept, FamilyArchived
<1>6. PassedEmpty' /\ DeletedIsKept'
  BY <1>0, <1>1 DEF PassedEmpty, DeletedIsKept
<1>7. CountsKept'
  BY <1>0, CountsStay
<1> QED BY <1>3, <1>4, <1>5, <1>6, <1>7

-----------------------------------------------------------------------------
(* The acknowledgement. *)

\* What the start of an acknowledgement leaves, whether it deletes or only prunes.
LEMMA BeginsKeeps ==
  ASSUME IInv, NEW a \in Ackers, NEW pc \in {"deleting", "pruning"}, AckBegins(a, pc)
  PROVE  /\ TypeOK' /\ LegHasParent' /\ ChunkKept' /\ FamilyArchived' /\ PassedEmpty'
         /\ OneAtATime' /\ OneHeard' /\ NameFresh' /\ CountsKept'
         /\ \A b \in Ackers : b # a => ack'[b] = ack[b]
         /\ ack'[a].pc = pc /\ ack'[a].bak = pending.bak
         /\ UNCHANGED <<arch, kept, stray, skipped, crossed, emptied>>
<1> USE DEF IInv
<1>0. /\ lap.pc = "merged" /\ ack[a] = NoAck
      /\ lap' = [lap EXCEPT !.pc = "acking"]
      /\ ack' = [ack EXCEPT ![a] = [pc |-> pc, table |-> 1, bak |-> pending.bak, ssh |-> TRUE]]
      /\ UNCHANGED <<hot, old, arch, baks, pending, hotbak, export, state, kept, exports, faults,
                     stray, skipped, crossed, emptied>>
  BY DEF AckBegins, history
<1>1. /\ lap # Off /\ state.merged = lap.bak /\ lap'.pc = "acking" /\ lap'.bak = lap.bak
      /\ lap' \in LapType
  BY <1>0 DEF Off, OneAtATime, TypeOK, LapType
<1>2. /\ ack'[a] = [pc |-> pc, table |-> 1, bak |-> pending.bak, ssh |-> TRUE]
      /\ \A b \in Ackers : b # a => ack'[b] = ack[b]
  BY <1>0 DEF TypeOK
<1>3. ack' \in [Ackers -> AckType]
  <2>1. [pc |-> pc, table |-> 1, bak |-> pending.bak, ssh |-> TRUE] \in AckType
    BY OrderAssumption DEF TypeOK, AckType
  <2> QED BY <1>0, <2>1 DEF TypeOK
<1>4. TypeOK'
  BY <1>0, <1>1, <1>3 DEF TypeOK
<1>5. LegHasParent' /\ ChunkKept' /\ FamilyArchived'
  BY <1>0 DEF LegHasParent, ChunkKept, FamilyArchived
<1>6. PassedEmpty'
  <2> SUFFICES ASSUME NEW b \in Ackers, ack'[b].pc = "deleting",
                      NEW r \in (hot \cap arch) \ stray,
                      NEW i \in DOMAIN DeleteOrder, i < ack'[b].table
               PROVE  TableOf[r] # DeleteOrder[i]
    BY <1>0 DEF PassedEmpty
  <2>1. CASE b = a
    BY <1>2, <2>1, OrderAssumption
  <2>2. CASE b # a
    BY <1>2, <2>2 DEF PassedEmpty
  <2> QED BY <2>1, <2>2
<1>7. OneAtATime' /\ OneHeard'
  <2>1. OneAtATime'
    BY <1>0, <1>1 DEF OneAtATime, Off
  <2>2. OneHeard'
    BY <1>0, <1>1, <1>2, NoneHeard DEF OneHeard
  <2> QED BY <2>1, <2>2
<1>8. NameFresh'
  BY <1>0, <1>1 DEF NameFresh
<1>9. CountsKept'
  BY <1>0, CountsStay
<1> QED BY <1>0, <1>2, <1>4, <1>5, <1>6, <1>7, <1>8, <1>9

\* The counts of now are those of the rows the laptop has: it has them all.
LEMMA AckStartsKeeps ==
  ASSUME IInv, NEW a \in Ackers, AckStarts(a)
  PROVE  IInv'
<1> USE DEF IInv
<1>0. /\ AckBegins(a, "deleting") /\ lap.pc = "merged" /\ pending # NoPending
      /\ pending.counts = CountsOf(arch)
  BY DEF AckStarts, AckAllowed, Counts, AckBegins
<1>1. /\ TypeOK' /\ LegHasParent' /\ ChunkKept' /\ FamilyArchived' /\ PassedEmpty'
      /\ OneAtATime' /\ OneHeard' /\ NameFresh' /\ CountsKept'
      /\ \A b \in Ackers : b # a => ack'[b] = ack[b]
      /\ ack'[a].pc = "deleting" /\ ack'[a].bak = pending.bak
      /\ UNCHANGED <<arch, kept, stray, skipped, crossed, emptied>>
  BY <1>0, BeginsKeeps
<1>2. pending.bak \notin crossed \cup emptied => arch \subseteq kept \cup skipped
  <2> SUFFICES ASSUME pending.bak \notin crossed \cup emptied
               PROVE  arch \subseteq kept \cup skipped
    OBVIOUS
  <2>1. state.merged = pending.bak
    BY <1>0 DEF OneAtATime, Off
  <2>2. PICK S \in SUBSET arch : pending.counts = CountsOf(S) /\ S \subseteq kept \cup skipped
    BY <1>0, <2>1 DEF CountsKept, Counted
  <2>3. S = arch
    <3>1. arch \subseteq Rows /\ CountsOf(S) = CountsOf(arch)
      BY <1>0, <2>2 DEF TypeOK
    <3> QED BY <2>2, <3>1, SameCounts
  <2> QED BY <2>2, <2>3
<1>3. DeletedIsKept'
  <2> SUFFICES ASSUME NEW b \in Ackers, ack'[b].pc = "deleting",
                      ack'[b].bak \notin crossed \cup emptied
               PROVE  arch \subseteq kept \cup stray \cup skipped
    BY <1>1 DEF DeletedIsKept
  <2>1. CASE b = a
    BY <1>1, <1>2, <2>1
  <2>2. CASE b # a
    BY <1>1, <2>2 DEF DeletedIsKept
  <2> QED BY <2>1, <2>2
<1> QED BY <1>1, <1>3

LEMMA AckNothingKeeps ==
  ASSUME IInv, NEW a \in Ackers, AckNothing(a)
  PROVE  IInv'
<1> USE DEF IInv
<1>1. /\ TypeOK' /\ LegHasParent' /\ ChunkKept' /\ FamilyArchived' /\ PassedEmpty'
      /\ OneAtATime' /\ OneHeard' /\ NameFresh' /\ CountsKept'
      /\ \A b \in Ackers : b # a => ack'[b] = ack[b]
      /\ ack'[a].pc = "pruning"
      /\ UNCHANGED <<arch, kept, stray, skipped, crossed, emptied>>
  BY BeginsKeeps DEF AckNothing
<1>2. DeletedIsKept'
  <2> SUFFICES ASSUME NEW b \in Ackers, ack'[b].pc = "deleting",
                      ack'[b].bak \notin crossed \cup emptied
               PROVE  arch \subseteq kept \cup stray \cup skipped
    BY <1>1 DEF DeletedIsKept
  <2>1. b # a
    BY <1>1
  <2> QED BY <1>1, <2>1 DEF DeletedIsKept
<1> QED BY <1>1, <1>2

\* A row that an acknowledgement deletes is archived, and is on the laptop or
\* exposed; its legs are gone, or stray.
LEMMA AckDeletesRow ==
  ASSUME IInv, NEW a \in Ackers, AckDeletes(a), hot' # hot
  PROVE  \E r \in hot \cap (kept \cup Exposed) :
           /\ hot' = hot \ {r} /\ \A c \in hot : ParentOf[c] = r => c = r \/ c \in stray
           /\ UNCHANGED <<old, arch, baks, pending, hotbak, export, ack, lap, state, kept,
                          exports, faults, stray, skipped, crossed, emptied>>
<1> USE DEF IInv
<1>1. PICK r \in hot \cap arch :
        /\ TableOf[r] = DeleteOrder[ack[a].table] /\ hot' = hot \ {r}
        /\ ack[a].pc = "deleting" /\ ack[a].table <= Len(DeleteOrder)
        /\ UNCHANGED <<old, arch, baks, pending, hotbak, export, ack, lap, state, kept,
                       exports, faults, stray, skipped, crossed, emptied>>
  BY DEF AckDeletes, laptop, history
<1>2. r \in kept \cup Exposed
  BY <1>1 DEF DeletedIsKept, Exposed
<1>3. ASSUME NEW c \in hot, ParentOf[c] = r, c # r, c \notin stray
      PROVE  FALSE
  <2>1. c \in arch /\ c \in Rows /\ TableOf[c] \in Tables
    BY <1>1, <1>3, ArchiveAssumption DEF FamilyArchived, TypeOK
  <2>2. PICK i \in DOMAIN DeleteOrder : DeleteOrder[i] = TableOf[c]
    BY <2>1 DEF Tables
  <2>3. ack[a].table \in DOMAIN DeleteOrder
    BY <1>1, OrderAssumption DEF TypeOK, AckType
  <2>4. i < ack[a].table
    BY <1>1, <1>3, <2>1, <2>2, <2>3, OrderAssumption
  <2> QED BY <1>1, <1>3, <2>1, <2>2, <2>4 DEF PassedEmpty
<1> QED BY <1>1, <1>2, <1>3

LEMMA AckDeletesKeeps ==
  ASSUME IInv, NEW a \in Ackers, AckDeletes(a)
  PROVE  IInv'
<1> USE DEF IInv
<1>1. CASE hot' # hot
  <2>1. PICK r \in hot :
          /\ hot' = hot \ {r} /\ \A c \in hot : ParentOf[c] = r => c = r \/ c \in stray
          /\ UNCHANGED <<old, arch, baks, pending, hotbak, export, ack, lap, state, kept,
                         exports, faults, stray, skipped, crossed, emptied>>
    BY <1>1, AckDeletesRow
  <2>2. TypeOK'
    BY <2>1 DEF TypeOK
  <2>3. LegHasParent' /\ FamilyArchived'
    BY <2>1 DEF LegHasParent, FamilyArchived
  <2>4. /\ ChunkKept' /\ PassedEmpty' /\ OneAtATime' /\ OneHeard' /\ NameFresh'
        /\ DeletedIsKept'
    BY <2>1 DEF ChunkKept, PassedEmpty, OneAtATime, OneHeard, NameFresh, DeletedIsKept, Acking
  <2>5. CountsKept'
    BY <2>1, CountsStay
  <2> QED BY <2>2, <2>3, <2>4, <2>5
<1>2. CASE hot' = hot
  <2>1. /\ ack[a].pc = "deleting" /\ ack[a].table <= Len(DeleteOrder)
        /\ \A r \in hot \cap arch : TableOf[r] # DeleteOrder[ack[a].table]
        /\ ack' = [ack EXCEPT ![a].table = @ + 1]
        /\ UNCHANGED <<hot, old, arch, baks, pending, hotbak, export, lap, state, kept,
                       exports, faults, stray, skipped, crossed, emptied>>
    BY <1>2 DEF AckDeletes, laptop, history
  <2>2. /\ ack'[a] = [ack[a] EXCEPT !.table = @ + 1]
        /\ \A b \in Ackers : b # a => ack'[b] = ack[b]
        /\ ack[a] \in AckType /\ ack[a] # NoAck
    BY <2>1 DEF TypeOK, NoAck
  <2>3. /\ ack'[a].pc = "deleting" /\ ack'[a].bak = ack[a].bak
        /\ ack'[a].table = ack[a].table + 1 /\ ack'[a].ssh = ack[a].ssh
        /\ ack'[a] \in AckType
    BY <2>1, <2>2, OrderAssumption DEF AckType
  <2>4. ack' \in [Ackers -> AckType]
    BY <2>1, <2>2, <2>3 DEF TypeOK
  <2>5. TypeOK'
    BY <2>1, <2>4 DEF TypeOK
  <2>6. PassedEmpty'
    <3> SUFFICES ASSUME NEW b \in Ackers, ack'[b].pc = "deleting",
                        NEW r \in (hot \cap arch) \ stray,
                        NEW i \in DOMAIN DeleteOrder, i < ack'[b].table
                 PROVE  TableOf[r] # DeleteOrder[i]
      BY <2>1 DEF PassedEmpty
    <3>1. CASE b = a
      <4>1. i < ack[a].table \/ i = ack[a].table
        BY <2>2, <2>3, <3>1, OrderAssumption DEF AckType
      <4> QED BY <2>1, <4>1 DEF PassedEmpty
    <3>2. CASE b # a
      BY <2>2, <3>2 DEF PassedEmpty
    <3> QED BY <3>1, <3>2
  <2>7. DeletedIsKept'
    BY <2>1, <2>2, <2>3 DEF DeletedIsKept
  <2>8. LegHasParent' /\ ChunkKept' /\ FamilyArchived'
    BY <2>1 DEF LegHasParent, ChunkKept, FamilyArchived
  <2>9. OneAtATime' /\ OneHeard' /\ NameFresh'
    <3>1. Acking
      BY <2>2 DEF Acking
    <3>2. \A b \in Ackers : ack'[b].ssh = ack[b].ssh
      BY <2>2, <2>3
    <3> QED BY <2>1, <3>1, <3>2 DEF OneAtATime, OneHeard, NameFresh
  <2>10. CountsKept'
    BY <2>1, CountsStay
  <2> QED BY <2>5, <2>6, <2>7, <2>8, <2>9, <2>10
<1> QED BY <1>1, <1>2

\* An acknowledgement goes on to another phase: what it was deleting is done.
LEMMA PhaseKeeps ==
  ASSUME IInv, NEW a \in Ackers, ack[a].pc \in {"deleting", "pruning"},
         NEW pc \in {"pruning", "clearing"}, ack' = [ack EXCEPT ![a].pc = pc]
  PROVE  /\ ack' \in [Ackers -> AckType] /\ Acking
         /\ \A b \in Ackers : ack'[b].pc = "deleting" => b # a /\ ack'[b] = ack[b]
         /\ \A b \in Ackers : ack'[b].ssh = ack[b].ssh
<1>1. ack \in [Ackers -> AckType]
  BY DEF IInv, TypeOK
<1>2. ack'[a] = [ack[a] EXCEPT !.pc = pc] /\ \A b \in Ackers : b # a => ack'[b] = ack[b]
  BY <1>1
<1>3. ack'[a] \in AckType /\ ack'[a].pc = pc /\ ack'[a].ssh = ack[a].ssh /\ ack[a] # NoAck
  BY <1>1, <1>2 DEF AckType, NoAck
<1> QED BY <1>1, <1>2, <1>3 DEF Acking

\* What was counted, and is now truncated, is counted no more.
LEMMA AckTruncatesKeeps ==
  ASSUME IInv, NEW a \in Ackers, AckTruncates(a)
  PROVE  IInv'
<1> USE DEF IInv
<1>0. /\ ack[a].pc = "deleting" /\ arch' = {} /\ ack' = [ack EXCEPT ![a].pc = "pruning"]
      /\ emptied' = emptied \cup ({pending.bak} \ {None})
                            \cup (IF export # NoExport THEN {exports} ELSE {})
      /\ UNCHANGED <<hot, old, baks, pending, hotbak, export, lap, state, kept, exports, faults,
                     stray, skipped, crossed>>
  BY DEF AckTruncates, laptop
<1>1. /\ ack' \in [Ackers -> AckType] /\ Acking
      /\ \A b \in Ackers : ack'[b].pc = "deleting" => b # a /\ ack'[b] = ack[b]
      /\ \A b \in Ackers : ack'[b].ssh = ack[b].ssh
  BY <1>0, PhaseKeeps
<1>2. /\ emptied \subseteq emptied' /\ emptied' \subseteq emptied \cup {pending.bak, exports}
      /\ {pending.bak, exports} \subseteq Names /\ {pending.bak, exports} \subseteq 0 .. exports
  BY <1>0, ArchiveAssumption DEF NameFresh, TypeOK, Names
<1>3. TypeOK'
  BY <1>0, <1>1, <1>2 DEF TypeOK
<1>4. LegHasParent' /\ ChunkKept' /\ FamilyArchived' /\ PassedEmpty' /\ DeletedIsKept'
  BY <1>0 DEF LegHasParent, ChunkKept, FamilyArchived, PassedEmpty, DeletedIsKept
<1>5. OneAtATime' /\ OneHeard'
  BY <1>0, <1>1 DEF OneAtATime, OneHeard
<1>6. NameFresh'
  BY <1>0, <1>2 DEF NameFresh
<1>7. CountsKept'
  <2>1. pending # NoPending => pending.bak \in emptied'
    BY <1>0 DEF NameFresh
  <2>2. export.pc # "idle" => exports \in emptied'
    BY <1>0 DEF NoExport
  <2> QED BY <1>0, <2>1, <2>2 DEF CountsKept
<1> QED BY <1>3, <1>4, <1>5, <1>6, <1>7

\* The files go while an acknowledgement runs: what it acknowledges was merged, or
\* the export crossed it.
LEMMA AckPrunesKeeps ==
  ASSUME IInv, NEW a \in Ackers, AckPrunes(a)
  PROVE  IInv'
<1> USE DEF IInv
<1>0. /\ ack[a].pc = "pruning" /\ baks' = [n \in {} |-> {}]
      /\ ack' = [ack EXCEPT ![a].pc = "clearing"]
      /\ UNCHANGED <<hot, old, arch, pending, hotbak, export, lap, state, kept, exports, faults,
                     stray, skipped, crossed, emptied>>
  BY DEF AckPrunes, laptop, history
<1>1. /\ ack' \in [Ackers -> AckType] /\ Acking
      /\ \A b \in Ackers : ack'[b].pc = "deleting" => b # a /\ ack'[b] = ack[b]
      /\ \A b \in Ackers : ack'[b].ssh = ack[b].ssh
  BY <1>0, PhaseKeeps
<1>2. DOMAIN baks' = {} /\ baks' \in [DOMAIN baks' -> SUBSET Rows]
  BY <1>0
<1>3. TypeOK'
  BY <1>0, <1>1, <1>2 DEF TypeOK
<1>4. LegHasParent' /\ FamilyArchived'
  BY <1>0 DEF LegHasParent, FamilyArchived
<1>5. PassedEmpty' /\ DeletedIsKept'
  BY <1>0, <1>1 DEF PassedEmpty, DeletedIsKept
<1>6. ChunkKept'
  BY <1>0, <1>1 DEF ChunkKept, OneAtATime
<1>7. OneAtATime' /\ OneHeard'
  BY <1>0, <1>1 DEF OneAtATime, OneHeard
<1>8. NameFresh'
  <2>1. export.pc = "built" => exports \in crossed
    BY <1>1 DEF OneAtATime, NoExport
  <2> QED BY <1>0, <1>2, <2>1 DEF NameFresh
<1>9. CountsKept'
  BY <1>0, <1>2, CountsStay
<1> QED BY <1>3, <1>4, <1>5, <1>6, <1>7, <1>8, <1>9

\* PENDING.json goes, whatever it names.
LEMMA AckEndsKeeps ==
  ASSUME IInv, NEW a \in Ackers, AckEnds(a)
  PROVE  IInv'
<1> USE DEF IInv
<1>0. /\ ack[a].pc = "clearing" /\ pending' = NoPending
      /\ ack' = [ack EXCEPT ![a] = NoAck]
      /\ lap' = IF ack[a].ssh THEN [lap EXCEPT !.pc = "acked"] ELSE lap
      /\ UNCHANGED <<hot, old, arch, baks, hotbak, export, state, kept, exports, faults,
                     stray, skipped, crossed, emptied>>
  BY DEF AckEnds, history
<1>1. /\ ack' \in [Ackers -> AckType] /\ Acking
      /\ ack'[a] = NoAck /\ \A b \in Ackers : b # a => ack'[b] = ack[b]
  BY <1>0, NothingTyped DEF TypeOK, Acking, NoAck
<1>2. /\ lap' \in LapType /\ lap'.bak = lap.bak
      /\ lap'.pc \in {"merged", "acking", "acked"} => lap.pc \in {"merged", "acking", "acked"}
      /\ lap.pc = "acking" /\ ~ack[a].ssh => lap' = lap
  BY <1>0 DEF TypeOK, LapType, OneHeard
<1>3. TypeOK'
  BY <1>0, <1>1, <1>2, NothingTyped DEF TypeOK
<1>4. LegHasParent' /\ ChunkKept' /\ FamilyArchived'
  BY <1>0 DEF LegHasParent, ChunkKept, FamilyArchived
<1>5. PassedEmpty' /\ DeletedIsKept'
  BY <1>0, <1>1 DEF PassedEmpty, DeletedIsKept, NoAck
<1>6. OneAtATime'
  BY <1>0, <1>1, <1>2 DEF OneAtATime
<1>7. OneHeard'
  BY <1>0, <1>1, <1>2 DEF OneHeard, NoAck
<1>8. NameFresh'
  BY <1>0, <1>2, ArchiveAssumption DEF NameFresh, NoPending, None, TypeOK
<1>9. CountsKept'
  BY <1>0 DEF CountsKept, Counted
<1> QED BY <1>3, <1>4, <1>5, <1>6, <1>7, <1>8, <1>9

-----------------------------------------------------------------------------
(* A death of the VM, at any point of an export or of an acknowledgement. *)

LEMMA VmDiesKeeps ==
  ASSUME IInv, VmDies
  PROVE  IInv'
<1> USE DEF IInv
<1>0. /\ export' = NoExport /\ ack' = [a \in Ackers |-> NoAck]
      /\ faults' \in 0 .. MaxFaults
      /\ lap' = IF lap.pc = "acking" THEN Off ELSE lap
      /\ UNCHANGED <<hot, old, arch, baks, pending, hotbak, state, kept, exports,
                     stray, skipped, crossed, emptied>>
  BY ArchiveAssumption DEF VmDies, TypeOK, history
<1>1. /\ \A a \in Ackers : ack'[a] = NoAck
      /\ lap' \in {lap, Off} /\ lap' \in LapType /\ ack' \in [Ackers -> AckType]
  BY <1>0, NothingTyped DEF TypeOK
<1>2. TypeOK'
  BY <1>0, <1>1, NothingTyped DEF TypeOK
<1>3. LegHasParent' /\ ChunkKept' /\ FamilyArchived'
  BY <1>0 DEF LegHasParent, ChunkKept, FamilyArchived
<1>4. PassedEmpty' /\ DeletedIsKept'
  BY <1>1 DEF PassedEmpty, DeletedIsKept, NoAck
<1>5. OneAtATime'
  BY <1>0, <1>1 DEF OneAtATime, Acking, Off
<1>6. OneHeard'
  BY <1>1 DEF OneHeard, NoAck
<1>7. NameFresh'
  BY <1>0, <1>1, ArchiveAssumption DEF NameFresh, NoExport, Off, None, TypeOK
<1>8. CountsKept'
  BY <1>0 DEF CountsKept, Counted, NoExport
<1> QED BY <1>2, <1>3, <1>4, <1>5, <1>6, <1>7, <1>8

-----------------------------------------------------------------------------
(* The theorems. *)

LEMMA InitIInv == Init => IInv
<1> SUFFICES ASSUME Init PROVE IInv
  OBVIOUS
<1> USE DEF Init
<1>0. \A a \in Ackers : ack[a] = NoAck
  OBVIOUS
<1>1. TypeOK
  BY NothingTyped, ArchiveAssumption DEF TypeOK, Names, None
<1>2. LegHasParent
  BY ArchiveAssumption DEF LegHasParent
<1>3. ChunkKept /\ FamilyArchived /\ PassedEmpty /\ DeletedIsKept
  BY <1>0, ArchiveAssumption DEF ChunkKept, FamilyArchived, PassedEmpty, DeletedIsKept, NoAck
<1>4. OneAtATime /\ OneHeard
  BY <1>0 DEF OneAtATime, OneHeard, Acking, Off, NoAck
<1>5. NameFresh
  BY DEF NameFresh, NoPending, Off, None, NoExport
<1>6. CountsKept
  BY DEF CountsKept, NoExport
<1> QED BY <1>1, <1>2, <1>3, <1>4, <1>5, <1>6 DEF IInv

\* Every step keeps IInv.
LEMMA NextKeeps ==
  ASSUME IInv, [Next]_vars
  PROVE  IInv'
<1>1. ASSUME NEW r \in Rows, Age(r) PROVE IInv'
  BY <1>1, AgeKeeps
<1>2. CASE WeeklyArchive \/ ExportNothing \/ HotBackup \/ Job
  BY <1>2, WeeklyArchiveKeeps, ExportNothingKeeps, HotBackupKeeps, ExportCountsKeeps,
     ExportBuildsKeeps, ExportEndsKeeps DEF Job
<1>3. CASE Laptop \/ LaptopStops
  BY <1>3, PullKeeps, MergeKeeps, MergeFailsKeeps, RecordAckKeeps, AckStartsKeeps,
     AckNothingKeeps, AckRefusesKeeps, LaptopStopsKeeps DEF Laptop, Begin
<1>4. ASSUME NEW a \in Ackers, Ack(a) PROVE IInv'
  BY <1>4, AckDeletesKeeps, AckTruncatesKeeps, AckPrunesKeeps, AckEndsKeeps DEF Ack
<1>5. CASE VmDies
  BY <1>5, VmDiesKeeps
<1>6. CASE UNCHANGED vars
  <2> USE <1>6 DEF vars, history, IInv
  <2>1. TypeOK'
    BY DEF TypeOK
  <2>2. /\ LegHasParent' /\ ChunkKept' /\ FamilyArchived' /\ PassedEmpty' /\ OneHeard'
        /\ NameFresh' /\ DeletedIsKept'
    BY DEF LegHasParent, ChunkKept, FamilyArchived, PassedEmpty, OneHeard, NameFresh,
           DeletedIsKept
  <2>3. OneAtATime'
    BY DEF OneAtATime, Acking
  <2>4. CountsKept'
    BY CountsStay
  <2> QED BY <2>1, <2>2, <2>3, <2>4
<1> QED BY <1>1, <1>2, <1>3, <1>4, <1>5, <1>6 DEF Next

\* The inductive invariant: what is pending was counted, is in its .bak, and is on
\* the laptop once merged; what is being deleted is on the laptop; and what each of
\* the overlaps takes out of that is in the history variable that names it.
THEOREM Inductive == Spec => []IInv
<1>1. Init => IInv
  BY InitIInv
<1>2. IInv /\ [Next]_vars => IInv'
  BY NextKeeps
<1> QED BY <1>1, <1>2, PTL DEF Spec

\* Every variable keeps its type.
THEOREM TypeCorrect == Spec => []TypeOK
<1>1. IInv => TypeOK
  BY DEF IInv
<1> QED BY <1>1, Inductive, PTL

\* At whatever row delete_hot_rows_present_in_archive is interrupted, no leg is
\* left without its parent, unless weekly_archive took it under a running one.
THEOREM LegsKeepParents == Spec => []LegHasParent
<1>1. IInv => LegHasParent
  BY DEF IInv
<1> QED BY <1>1, Inductive, PTL

\* The chunk PENDING.json names can be pulled until the laptop has merged it, unless
\* it was made across the laptop's work.
THEOREM ChunksKept == Spec => []ChunkKept
<1>1. IInv => ChunkKept
  BY DEF IInv
<1> QED BY <1>1, Inductive, PTL

\* Each step of the protocol keeps rows on the laptop, drops one that the laptop
\* has, or that is exposed, from the live database, or does neither.
LEMMA StepTransfers ==
  ASSUME IInv, [Next]_vars
  PROVE  [Transfer!Next]_<<hot, kept>>
<1>1. CASE hot' = hot /\ kept' = kept
  BY <1>1
<1>2. CASE Merge
  <2>1. PICK T : kept' = kept \cup ChunkOf(T)
    BY <1>2 DEF Merge
  <2>2. ChunkOf(T) \in SUBSET Rows
    BY <1>2, ChunkTyped DEF Merge
  <2>3. hot' = hot
    BY <1>2 DEF Merge, vm
  <2> QED BY <2>1, <2>2, <2>3 DEF Transfer!Next, Transfer!Keep
<1>3. CASE MergeFails
  <2>1. CASE ~MayMerge
    BY <1>1, <1>3, <2>1 DEF MergeFails, vm
  <2>2. CASE MayMerge
    <3>1. PICK T \in SUBSET Tables : kept' = kept \cup ChunkOf(T)
      BY <1>3, <2>2 DEF MergeFails
    <3>2. ChunkOf(T) \in SUBSET Rows
      BY <2>2, ChunkTyped
    <3>3. hot' = hot
      BY <1>3 DEF MergeFails, vm
    <3> QED BY <3>1, <3>2, <3>3 DEF Transfer!Next, Transfer!Keep
  <2> QED BY <2>1, <2>2
<1>4. ASSUME NEW a \in Ackers, AckDeletes(a)
      PROVE  [Transfer!Next]_<<hot, kept>>
  <2>1. kept' = kept
    BY <1>4 DEF AckDeletes, laptop
  <2>2. CASE hot' = hot
    BY <2>1, <2>2
  <2>3. CASE hot' # hot
    BY <1>4, <2>1, <2>3, AckDeletesRow DEF Transfer!Next, Transfer!Drop
  <2> QED BY <2>2, <2>3
<1>5. ASSUME Next, ~Merge, ~MergeFails, ~(\E a \in Ackers : AckDeletes(a))
      PROVE  hot' = hot /\ kept' = kept
  BY <1>5 DEF Next, Age, WeeklyArchive, ExportNothing, HotBackup, Job, ExportCounts,
       ExportBuilds, ExportEnds, Laptop, Begin, AckBegins, Pull, RecordAck, AckStarts,
       AckNothing, AckRefuses, Ack, AckTruncates, AckPrunes, AckEnds, LaptopStops, VmDies,
       vm, laptop
<1>6. CASE UNCHANGED vars
  BY <1>1, <1>6 DEF vars
<1> QED BY <1>1, <1>2, <1>3, <1>4, <1>5, <1>6

\* The protocol implements RowTransfer: no row leaves the live database before the
\* laptop has it, but those Exposed names, through any overlap, interruption and retry.
THEOREM Implements == Spec => ImplementsTransfer
<1>1. Init => Transfer!Init
  BY DEF Init, Transfer!Init
<1>2. IInv /\ [Next]_vars => [Transfer!Next]_<<hot, kept>>
  BY StepTransfers
<1> QED BY <1>1, <1>2, Inductive, PTL DEF Spec, ImplementsTransfer, Transfer!Spec
=============================================================================
