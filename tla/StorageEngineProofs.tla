------------------------- MODULE StorageEngineProofs -------------------------
(***************************************************************************)
(* Proofs about StorageEngine, for any set of lines and any bounds: its    *)
(* invariant, that it implements LogStore, and the totals of its           *)
(* statistics and the copies of a line.                                    *)
(***************************************************************************)
EXTENDS StorageEngine, FiniteSetTheorems, WellFoundedInduction, TLAPS

\* Every set of numbers that is not empty has a least element.
LEMMA LeastNumber ==
    ASSUME NEW T, T \subseteq Nat, T # {}
    PROVE  \E x \in T : \A y \in T : x <= y
<1> DEFINE R == OpToRel(<, Nat)
<1>1. IsWellFoundedOn(R, Nat)
    BY NatLessThanWellFounded
<1>2. \A x, y \in Nat : <<y, x>> \in R <=> y < x
    BY DEF OpToRel
<1> HIDE DEF R
<1>3. PICK x \in T : \A y \in T : <<y, x>> \notin R
    BY <1>1, WFMin
<1>4. \A y \in T : ~(y < x)
    BY <1>2, <1>3
<1> QED BY <1>4

\* The first id that Index::open hands out is above every id it found.
LEMMA NextIdAbove ==
    ASSUME NEW ids, ids \subseteq SegId
    PROVE  /\ NextIdAfter(ids) \in 1..(MaxSegId + 1)
           /\ \A i \in ids : i < NextIdAfter(ids)
<1> DEFINE Above == {n \in 1..(MaxSegId + 1) : \A i \in ids : i < n}
<1>0. MaxSegId \in Nat
    BY BoundsAssumption
<1>1. MaxSegId + 1 \in Above
    BY <1>0 DEF SegId
<1>2. Above \subseteq Nat
    BY <1>0
<1>3. PICK n \in Above : \A m \in Above : n <= m
    BY <1>1, <1>2, LeastNumber
<1>4. n = 1 \/ n - 1 \in ids
    <2>1. SUFFICES ASSUME n # 1 PROVE n - 1 \in ids
        OBVIOUS
    <2>2. n - 1 \in 1..(MaxSegId + 1) /\ n - 1 \notin Above
        BY <1>0, <1>3, <2>1
    <2>3. PICK i \in ids : ~(i < n - 1)
        BY <2>2
    <2>4. i < n /\ i \in Nat
        BY <1>0, <1>3 DEF SegId
    <2>5. i = n - 1
        BY <1>0, <1>3, <2>3, <2>4
    <2> QED BY <2>5
<1>5. \E k \in 1..(MaxSegId + 1) : (\A i \in ids : i < k) /\ (k = 1 \/ k - 1 \in ids)
    BY <1>3, <1>4
<1> QED BY <1>5 DEF NextIdAfter

\* The values of curId and nextId while no id is in use.
LEMMA NoId == MaxSegId \in Nat /\ 0 \in 0..MaxSegId /\ 0 \in 0..(MaxSegId + 1)
BY BoundsAssumption

\* Sizes are numbers.
LEMMA CountType ==
    ASSUME NEW S, S \subseteq Lines
    PROVE  Cardinality(S) \in Nat
BY LinesAssumption, FS_Subset, FS_CardinalityType

\* The ids of a directory are ids.
LEMMA BootIndexType ==
    ASSUME manifest \subseteq SegId
    PROVE  BootIndex \subseteq SegId
BY DEF BootIndex, Files

-----------------------------------------------------------------------------
(* The invariant holds initially.                                          *)

\* An unused directory without a process satisfies the invariant.
LEMMA InitInv == Init => IInv
<1> SUFFICES ASSUME Init PROVE IInv
    OBVIOUS
<1> USE DEF Init
<1>1. TypeOK
    <2>1. segs \in [SegId -> SUBSET Lines] /\ tmp \in [SegId -> SUBSET Lines]
        OBVIOUS
    <2>2. counted \in [SegId -> Nat]
        BY DEF NoIndex
    <2> QED BY <2>1, <2>2, NoId DEF TypeOK, PC
<1>2. MemoryInv /\ IdInv
    BY DEF MemoryInv, IdInv, Sealing
<1>3. ListInv /\ WalInv /\ CoverInv
    BY DEF ListInv, WalInv, CoverInv
<1>4. AppendedInv /\ WriteAheadInv /\ OrphanInv /\ OrphansAreCovered
    BY DEF AppendedInv, WriteAheadInv, OrphanInv, OrphansAreCovered
<1> QED BY <1>1, <1>2, <1>3, <1>4 DEF IInv

-----------------------------------------------------------------------------
(* Every step preserves it, part by part.                                  *)

\* Every step keeps the types.
LEMMA TypeStep ==
    ASSUME IInv, [Next]_vars
    PROVE  TypeOK'
<1> USE DEF files, list, run, calls, losses, limits
<1>0. TypeOK /\ AppendedInv /\ IdInv /\ WriteAheadInv
    BY DEF IInv
<1>1. ASSUME NEW l \in Lines, Append(l) PROVE TypeOK'
    BY <1>0, <1>1 DEF TypeOK, Append, WalAfterAppend, PC
<1>2. ASSUME NEW l \in Lines, AppendWalError(l) PROVE TypeOK'
    BY <1>0, <1>2 DEF TypeOK, AppendWalError, Fault
<1>3. CASE Flush
    BY <1>0, <1>3 DEF TypeOK, Flush, PC
<1>4. CASE Drain
    BY <1>0, <1>4 DEF TypeOK, Drain, PC, Sealing
<1>5. CASE WriteTmp
    BY <1>0, <1>5, NoId DEF TypeOK, WriteTmp, PC, Sealing, SegId
<1>6. CASE Rename
    BY <1>0, <1>6 DEF TypeOK, Rename, PC, Sealing
<1>7. CASE IndexAdd
    BY <1>0, <1>7 DEF TypeOK, IndexAdd, PC, Sealing, IdInv
<1>8. CASE Save
    <2>1. Cardinality(batch) \in Nat
        BY <1>0, CountType DEF TypeOK
    <2>2. counted' \in [SegId -> Nat]
        BY <1>0, <1>8, <2>1 DEF TypeOK, Save, IdInv
    <2> QED BY <1>0, <1>8, <2>2 DEF TypeOK, Save, Saved, PC, Sealing
<1>9. CASE Truncate
    <2>1. acked' \subseteq appended' /\ pending' \subseteq Lines
        BY <1>0, <1>9 DEF TypeOK, Truncate, AppendedInv
    <2>2. pc' \in PC /\ curId' \in 0..MaxSegId /\ walFile' \subseteq Lines
        BY <1>9, NoId DEF Truncate, Truncated, PC
    <2> QED BY <1>0, <1>9, <2>1, <2>2 DEF TypeOK, Truncate
<1>10. CASE DrainError
    BY <1>0, <1>10 DEF TypeOK, DrainError, Fault, PC
<1>11. ASSUME LoseMemory PROVE /\ pc' \in PC /\ booting' \in BOOLEAN
                                /\ buffer' = {} /\ walBuf' = {} /\ batch' = {}
                                /\ curId' = 0 /\ nextId' = 0 /\ index' = {}
                                /\ counted' \in [SegId -> Nat] /\ pending' = {}
    BY <1>11 DEF LoseMemory, NoIndex, PC
<1>12. CASE WriteTmpError
    <2>1. tmp' \in [SegId -> SUBSET Lines] /\ faults' \in Nat
        BY <1>0, <1>12 DEF TypeOK, WriteTmpError, Fault
    <2>3. batch \subseteq Lines /\ abandoned' \subseteq Lines
        BY <1>0, <1>12 DEF TypeOK, WriteTmpError, GiveUp
    <2>2. nextId' \in 0..(MaxSegId + 1)
        BY <1>0, <1>12, NoId DEF WriteTmpError, GiveUp, LoseMemory, SegId
    <2>4. CASE booting
        BY <1>0, <1>11, <1>12, <2>1, <2>3, <2>4, NoId DEF TypeOK, WriteTmpError,
             GiveUp
    <2>5. CASE ~booting
        BY <1>0, <1>12, <2>1, <2>2, <2>3, <2>5, NoId DEF TypeOK, WriteTmpError,
             GiveUp, PC
    <2> QED BY <2>4, <2>5
<1>13. CASE RenameError
    BY <1>0, <1>11, <1>13, NoId DEF TypeOK, RenameError, GiveUp, Fault, PC
<1>14. CASE SaveError
    BY <1>0, <1>11, <1>14, NoId DEF TypeOK, SaveError, GiveUp, Fault, PC
<1>15. CASE TruncateError
    BY <1>0, <1>11, <1>15, NoId DEF TypeOK, TruncateError, GiveUp, Fault, PC
<1>16. CASE Panic
    BY <1>0, <1>11, <1>16, NoId DEF TypeOK, Panic, WalAfterDrop
<1>17. CASE Crash
    BY <1>0, <1>11, <1>17, NoId DEF TypeOK, Crash
<1>18. CASE Shutdown
    BY <1>0, <1>11, <1>18, NoId DEF TypeOK, Shutdown, WalAfterDrop
<1>19. CASE LoseManifest
    BY <1>0, <1>19 DEF TypeOK, LoseManifest, Fault
<1>20. CASE OpenIndex
    <2>1. BootIndex \subseteq SegId /\ NextIdAfter(BootIndex) \in 0..(MaxSegId + 1)
        BY <1>0, BootIndexType, NextIdAbove, NoId DEF TypeOK
    <2>2. \A i \in SegId : Cardinality(segs[i]) \in Nat /\ Cardinality(tmp[i]) \in Nat
        BY <1>0, CountType DEF TypeOK
    <2>3. SizesOnDisk \in [SegId -> Nat]
        BY <2>2 DEF SizesOnDisk
    <2> QED BY <1>0, <1>20, <2>1, <2>3 DEF TypeOK, OpenIndex, PC
<1>21. CASE Replay
    BY <1>0, <1>21 DEF TypeOK, Replay, Recovered, PC
<1>22. CASE UNCHANGED vars
    BY <1>0, <1>22 DEF TypeOK, vars
<1> QED BY <1>1, <1>2, <1>3, <1>4, <1>5, <1>6, <1>7, <1>8, <1>9, <1>10, <1>12,
     <1>13,
           <1>14, <1>15, <1>16, <1>17, <1>18, <1>19, <1>20, <1>21, <1>22
        DEF Next, EngineStep, FaultStep

\* What is in memory at each point of the code, after a step.
LEMMA MemoryStep ==
    ASSUME IInv, [Next]_vars
    PROVE  MemoryInv'
<1> USE DEF files, list, run, calls, losses, limits
<1>0. TypeOK /\ MemoryInv
    BY DEF IInv
<1>1. ASSUME NEW l \in Lines, Append(l) PROVE MemoryInv'
    BY <1>0, <1>1 DEF MemoryInv, Sealing, Append, WalAfterAppend
<1>2. ASSUME NEW l \in Lines, AppendWalError(l) PROVE MemoryInv'
    BY <1>0, <1>2 DEF MemoryInv, Sealing, AppendWalError
<1>3. CASE Flush
    BY <1>0, <1>3 DEF MemoryInv, Sealing, Flush
<1>4. CASE Drain
    BY <1>0, <1>4 DEF MemoryInv, Sealing, Drain
<1>5. CASE WriteTmp
    BY <1>0, <1>5 DEF MemoryInv, Sealing, WriteTmp
<1>6. CASE Rename
    BY <1>0, <1>6 DEF MemoryInv, Sealing, Rename
<1>7. CASE IndexAdd
    BY <1>0, <1>7 DEF MemoryInv, Sealing, IndexAdd
<1>8. CASE Save
    BY <1>0, <1>8 DEF MemoryInv, Sealing, Save
<1>9. CASE Truncate
    BY <1>0, <1>9 DEF TypeOK, MemoryInv, PC, Truncate
<1>10. CASE DrainError
    BY <1>0, <1>10 DEF MemoryInv, Sealing, DrainError
<1>11. CASE WriteTmpError
    BY <1>0, <1>11 DEF TypeOK, MemoryInv, PC, WriteTmpError, GiveUp, LoseMemory
<1>12. CASE RenameError
    BY <1>0, <1>12 DEF TypeOK, MemoryInv, PC, RenameError, GiveUp, LoseMemory
<1>13. CASE SaveError
    BY <1>0, <1>13 DEF TypeOK, MemoryInv, PC, SaveError, GiveUp, LoseMemory
<1>14. CASE TruncateError
    BY <1>0, <1>14 DEF TypeOK, MemoryInv, PC, TruncateError, GiveUp, LoseMemory
<1>15. CASE Panic
    BY <1>0, <1>15 DEF MemoryInv, Panic, LoseMemory
<1>16. CASE Crash
    BY <1>0, <1>16 DEF MemoryInv, Crash, LoseMemory
<1>17. CASE Shutdown
    BY <1>0, <1>17 DEF MemoryInv, Shutdown, LoseMemory
<1>18. CASE LoseManifest
    BY <1>0, <1>18 DEF MemoryInv, LoseManifest
<1>19. CASE OpenIndex
    BY <1>0, <1>19 DEF MemoryInv, Sealing, OpenIndex
<1>20. CASE Replay
    BY <1>0, <1>20 DEF MemoryInv, Sealing, Replay
<1>21. CASE UNCHANGED vars
    BY <1>0, <1>21 DEF MemoryInv, vars
<1> QED BY <1>1, <1>2, <1>3, <1>4, <1>5, <1>6, <1>7, <1>8, <1>9, <1>10, <1>11,
     <1>12, <1>13, <1>14, <1>15, <1>16, <1>17, <1>18, <1>19, <1>20, <1>21
        DEF Next, EngineStep, FaultStep

\* Ids stay below nextId, and the id of a running flush is not listed before
\* IndexAdd.
LEMMA IdStep ==
    ASSUME IInv, [Next]_vars
    PROVE  IdInv'
<1> USE DEF files, list, run, calls, losses, limits
<1>0. TypeOK /\ MemoryInv /\ IdInv
    BY DEF IInv
<1>1. ASSUME NEW l \in Lines, Append(l) PROVE IdInv'
    BY <1>0, <1>1 DEF IdInv, Sealing, Append
<1>2. ASSUME NEW l \in Lines, AppendWalError(l) PROVE IdInv'
    BY <1>0, <1>2 DEF IdInv, AppendWalError
<1>3. CASE Flush
    BY <1>0, <1>3 DEF IdInv, Sealing, Flush
<1>4. CASE Drain
    BY <1>0, <1>4 DEF IdInv, Drain
<1>5. CASE WriteTmp
    BY <1>0, <1>5 DEF TypeOK, IdInv, WriteTmp
<1>6. CASE Rename
    BY <1>0, <1>6 DEF TypeOK, IdInv, PC, Rename
<1>7. CASE IndexAdd
    BY <1>0, <1>7 DEF TypeOK, IdInv, PC, IndexAdd
<1>8. CASE Save
    BY <1>0, <1>8 DEF TypeOK, IdInv, Save
<1>9. CASE Truncate
    BY <1>0, <1>9 DEF IdInv, Sealing, Truncate
<1>10. CASE DrainError
    BY <1>0, <1>10 DEF IdInv, Sealing, DrainError
<1>11. CASE WriteTmpError
    <2>1. CASE booting
        BY <1>11, <2>1 DEF IdInv, WriteTmpError, GiveUp, LoseMemory, Sealing
    <2>2. CASE ~booting
        <3>1. pc' = "idle" /\ index' = index /\ nextId' = nextId + 1
            BY <1>11, <2>2 DEF WriteTmpError, GiveUp, LoseMemory
        <3>2. nextId \in Nat /\ index \subseteq Nat /\ nextId >= 1 /\ \A i \in index : i < nextId
            BY <1>0, <1>11, NoId DEF TypeOK, IdInv, WriteTmpError, SegId
        <3> QED BY <3>1, <3>2 DEF IdInv, Sealing
    <2> QED BY <2>1, <2>2
<1>12. CASE RenameError
    BY <1>0, <1>12 DEF TypeOK, MemoryInv, IdInv, SegId, PC, Sealing, RenameError,
         GiveUp, LoseMemory
<1>13. CASE SaveError
    BY <1>0, <1>13 DEF TypeOK, MemoryInv, IdInv, SegId, PC, Sealing, SaveError,
         GiveUp, LoseMemory
<1>14. CASE TruncateError
    BY <1>0, <1>14 DEF TypeOK, MemoryInv, IdInv, SegId, PC, Sealing,
         TruncateError, GiveUp, LoseMemory
<1>15. CASE Panic
    BY <1>0, <1>15 DEF IdInv, Sealing, Panic, LoseMemory
<1>16. CASE Crash
    BY <1>0, <1>16 DEF IdInv, Sealing, Crash, LoseMemory
<1>17. CASE Shutdown
    BY <1>0, <1>17 DEF IdInv, Sealing, Shutdown, LoseMemory
<1>18. CASE LoseManifest
    BY <1>0, <1>18 DEF IdInv, LoseManifest
<1>19. CASE OpenIndex
    <2>1. nextId' \in 1..(MaxSegId + 1) /\ \A i \in index' : i < nextId'
        BY <1>0, <1>19, BootIndexType, NextIdAbove DEF TypeOK, OpenIndex
    <2> QED BY <1>19, <2>1, NoId DEF IdInv, OpenIndex, Sealing
<1>20. CASE Replay
    BY <1>0, <1>20 DEF IdInv, Sealing, Replay
<1>21. CASE UNCHANGED vars
    BY <1>0, <1>21 DEF IdInv, vars
<1> QED BY <1>1, <1>2, <1>3, <1>4, <1>5, <1>6, <1>7, <1>8, <1>9, <1>10, <1>11,
     <1>12, <1>13, <1>14, <1>15, <1>16, <1>17, <1>18, <1>19, <1>20, <1>21
        DEF Next, EngineStep, FaultStep

\* The list in memory stays ahead of the manifest, and equals it at "trunc".
LEMMA ListStep ==
    ASSUME IInv, [Next]_vars
    PROVE  ListInv'
<1> USE DEF files, list, run, calls, losses, limits
<1>0. TypeOK /\ MemoryInv /\ IdInv /\ ListInv
    BY DEF IInv
<1>1. ASSUME NEW l \in Lines, Append(l) PROVE ListInv'
    BY <1>0, <1>1 DEF ListInv, Files, Append
<1>2. ASSUME NEW l \in Lines, AppendWalError(l) PROVE ListInv'
    BY <1>0, <1>2 DEF ListInv, Files, AppendWalError
<1>3. CASE Flush
    BY <1>0, <1>3 DEF ListInv, Files, Flush
<1>4. CASE Drain
    BY <1>0, <1>4 DEF ListInv, Files, Drain
<1>5. CASE WriteTmp
    BY <1>0, <1>5 DEF ListInv, Files, WriteTmp
<1>6. CASE Rename
    BY <1>0, <1>6 DEF ListInv, Files, Rename
<1>7. CASE IndexAdd
    BY <1>0, <1>7 DEF ListInv, Files, IndexAdd
<1>8. CASE Save
    BY <1>0, <1>8 DEF IdInv, ListInv, Save, Saved
<1>9. CASE Truncate
    BY <1>0, <1>9 DEF IdInv, ListInv, Truncate
<1>10. CASE DrainError
    BY <1>0, <1>10 DEF ListInv, Files, DrainError
<1>11. CASE WriteTmpError
    BY <1>0, <1>11 DEF ListInv, Files, WriteTmpError, GiveUp, LoseMemory
<1>12. CASE RenameError
    BY <1>0, <1>12 DEF ListInv, Files, RenameError, GiveUp, LoseMemory
<1>13. CASE SaveError
    BY <1>0, <1>13 DEF ListInv, Files, SaveError, GiveUp, LoseMemory
<1>14. CASE TruncateError
    BY <1>0, <1>14 DEF IdInv, ListInv, TruncateError, GiveUp, LoseMemory
<1>15. CASE Panic
    BY <1>0, <1>15 DEF ListInv, Panic, LoseMemory
<1>16. CASE Crash
    BY <1>0, <1>16 DEF ListInv, Crash, LoseMemory
<1>17. CASE Shutdown
    BY <1>0, <1>17 DEF ListInv, Shutdown, LoseMemory
<1>18. CASE LoseManifest
    BY <1>0, <1>18 DEF ListInv, LoseManifest
<1>19. CASE OpenIndex
    BY <1>0, <1>19 DEF ListInv, OpenIndex, BootIndex, Files
<1>20. CASE Replay
    BY <1>0, <1>20 DEF TypeOK, IdInv, ListInv, Files, Sealing, Replay, Recovered
<1>21. CASE UNCHANGED vars
    BY <1>0, <1>21 DEF ListInv, Files, vars
<1> QED BY <1>1, <1>2, <1>3, <1>4, <1>5, <1>6, <1>7, <1>8, <1>9, <1>10, <1>11,
     <1>12, <1>13, <1>14, <1>15, <1>16, <1>17, <1>18, <1>19, <1>20, <1>21
        DEF Next, EngineStep, FaultStep

\* A step only writes to a segment file that is not listed yet.
LEMMA ListedStay ==
    ASSUME IInv, [Next]_vars
    PROVE  /\ \A i \in index \cup manifest : segs'[i] = segs[i]
           /\ \A i \in SegId : segs'[i] = segs[i] \/ (Rename /\ i = curId)
           /\ pc # "rename" => segs' = segs
<1> USE DEF files, list, run, calls, losses, limits
<1>0. TypeOK /\ MemoryInv /\ IdInv /\ ListInv
    BY DEF IInv
<1>1. segs' = segs \/ Rename
    BY DEF Next, EngineStep, FaultStep, vars, Append, AppendWalError, Flush,
         Drain, WriteTmp,
           IndexAdd, Save, Truncate, DrainError, WriteTmpError, RenameError, SaveError,
           TruncateError, Panic, Crash, Shutdown, LoseManifest, OpenIndex, Replay
<1>2. index \cup manifest \subseteq SegId
    BY <1>0 DEF TypeOK
<1>3. CASE Rename
    <2>1. /\ \A i \in SegId \ {curId} : segs'[i] = segs[i]
          /\ curId \notin index \cup manifest
          /\ pc = "rename"
        BY <1>0, <1>3 DEF Rename, IdInv, ListInv
    <2>2. \A i \in index \cup manifest : segs'[i] = segs[i]
        BY <1>2, <2>1
    <2>3. \A i \in SegId : segs'[i] = segs[i] \/ (Rename /\ i = curId)
        BY <1>3, <2>1
    <2> QED BY <2>1, <2>2, <2>3
<1>4. CASE segs' = segs
    BY <1>4
<1> QED BY <1>1, <1>3, <1>4

\* What the list and the manifest name before a step is still there after it.
LEMMA SealedStays ==
    ASSUME IInv, Rename \/ Save \/ Truncate
    PROVE  /\ In(BootIndex) \subseteq In(BootIndex)'
           /\ In(index)' = In(index)
<1> USE DEF files, list, run, calls, losses, limits
<1>0. TypeOK /\ IdInv /\ ListInv
    BY DEF IInv
<1>1. CASE Rename
    <2>1. /\ \A i \in SegId \ {curId} : segs'[i] = segs[i]
          /\ curId \notin index
        BY <1>0, <1>1 DEF Rename, IdInv
    <2>2. index' = index /\ manifest' = manifest /\ manifest \subseteq index
        BY <1>0, <1>1 DEF Rename, ListInv
    <2>3. manifest = {} => Files \subseteq index
        BY <1>0, <1>1 DEF Rename, ListInv
    <2>4. index \subseteq SegId
        BY <1>0 DEF TypeOK
    <2>5. BootIndex \subseteq index
        BY <2>2, <2>3 DEF BootIndex
    <2>6. In(index)' = In(index)
        BY <2>1, <2>2, <2>4 DEF In
    <2>7. ASSUME NEW i \in BootIndex PROVE segs[i] \subseteq In(BootIndex)'
        <3>1. i \in SegId /\ segs'[i] = segs[i]
            BY <2>1, <2>4, <2>5
        <3>2. manifest # {} => i \in BootIndex'
            BY <2>2, <2>7 DEF BootIndex
        <3>3. manifest = {} /\ segs[i] # {} => i \in BootIndex'
            BY <2>2, <3>1 DEF BootIndex, Files
        <3> QED BY <3>1, <3>2, <3>3 DEF In
    <2> QED BY <2>6, <2>7 DEF In
<1>2. CASE Save
    <2>1. index' = index /\ manifest' = index /\ segs' = segs /\ index # {}
        BY <1>0, <1>2 DEF Save, Saved, IdInv
    <2>2. BootIndex \subseteq index
        BY <1>0, <1>2 DEF Save, ListInv, BootIndex
    <2> QED BY <2>1, <2>2 DEF In, BootIndex
<1>3. CASE Truncate
    BY <1>3 DEF Truncate, In, BootIndex, Files
<1> QED BY <1>1, <1>2, <1>3

\* Truncation stays harmless.
LEMMA WalStep ==
    ASSUME IInv, [Next]_vars
    PROVE  WalInv'
<1> USE DEF files, list, run, calls, losses, limits
<1>0. TypeOK /\ MemoryInv /\ IdInv /\ ListInv /\ WalInv
    BY DEF IInv
<1>1. ASSUME NEW l \in Lines, Append(l) PROVE WalInv'
    BY <1>0, <1>1 DEF TypeOK, MemoryInv, IdInv, ListInv, WalInv, In, Sealing,
         Append, WalAfterAppend
<1>2. ASSUME NEW l \in Lines, AppendWalError(l) PROVE WalInv'
    BY <1>0, <1>2 DEF MemoryInv, WalInv, In, AppendWalError
<1>3. CASE Flush
    BY <1>0, <1>3 DEF WalInv, In, Flush
<1>4. CASE Drain
    BY <1>0, <1>4 DEF MemoryInv, WalInv, In, Sealing, Drain
<1>5. CASE WriteTmp
    BY <1>0, <1>5 DEF WalInv, In, WriteTmp
<1>6. CASE Rename
    BY <1>0, <1>6 DEF IdInv, WalInv, In, Rename
<1>7. CASE IndexAdd
    BY <1>0, <1>7 DEF WalInv, In, IndexAdd
<1>8. CASE Save
    BY <1>0, <1>8 DEF WalInv, In, Save
<1>9. CASE Truncate
    BY <1>0, <1>9 DEF TypeOK, MemoryInv, IdInv, ListInv, WalInv, In, Sealing,
         Truncate, Truncated
<1>10. CASE DrainError
    BY <1>0, <1>10 DEF MemoryInv, WalInv, In, DrainError
<1>11. CASE WriteTmpError
    BY <1>0, <1>11 DEF TypeOK, MemoryInv, IdInv, ListInv, WalInv, In, Sealing,
         WriteTmpError, GiveUp, LoseMemory
<1>12. CASE RenameError
    BY <1>0, <1>12 DEF TypeOK, MemoryInv, IdInv, ListInv, WalInv, In, Sealing,
         RenameError, GiveUp, LoseMemory
<1>13. CASE SaveError
    BY <1>0, <1>13 DEF TypeOK, MemoryInv, IdInv, ListInv, WalInv, In, Sealing,
         SaveError, GiveUp, LoseMemory
<1>14. CASE TruncateError
    BY <1>0, <1>14 DEF TypeOK, MemoryInv, IdInv, ListInv, WalInv, In, Sealing,
         TruncateError, GiveUp, LoseMemory
<1>15. CASE Panic
    BY <1>0, <1>15 DEF TypeOK, MemoryInv, IdInv, ListInv, WalInv, In, Sealing,
         Panic, LoseMemory, WalAfterDrop
<1>16. CASE Crash
    BY <1>0, <1>16 DEF TypeOK, MemoryInv, IdInv, ListInv, WalInv, In, Sealing,
         Crash, LoseMemory
<1>17. CASE Shutdown
    BY <1>0, <1>17 DEF TypeOK, MemoryInv, IdInv, ListInv, WalInv, In, Sealing,
         Shutdown, LoseMemory, WalAfterDrop
<1>18. CASE LoseManifest
    BY <1>0, <1>18 DEF WalInv, LoseManifest
<1>19. CASE OpenIndex
    BY <1>0, <1>19 DEF WalInv, OpenIndex
<1>20. CASE Replay
    BY <1>0, <1>20 DEF TypeOK, MemoryInv, IdInv, ListInv, WalInv, In, Sealing,
         Replay, Recovered
<1>21. CASE UNCHANGED vars
    BY <1>0, <1>21 DEF WalInv, In, vars
<1> QED BY <1>1, <1>2, <1>3, <1>4, <1>5, <1>6, <1>7, <1>8, <1>9, <1>10, <1>11,
     <1>12, <1>13, <1>14, <1>15, <1>16, <1>17, <1>18, <1>19, <1>20, <1>21
        DEF Next, EngineStep, FaultStep

\* A step brings no line that was not appended.
LEMMA AppendedStep ==
    ASSUME IInv, [Next]_vars
    PROVE  AppendedInv'
<1> USE DEF files, list, run, calls, losses, limits
<1>0. TypeOK /\ MemoryInv /\ AppendedInv
    BY DEF IInv
<1>1. ASSUME NEW l \in Lines, Append(l) PROVE AppendedInv'
    BY <1>0, <1>1 DEF MemoryInv, AppendedInv, Append, WalAfterAppend
<1>2. ASSUME NEW l \in Lines, AppendWalError(l) PROVE AppendedInv'
    BY <1>0, <1>2 DEF MemoryInv, AppendedInv, AppendWalError
<1>3. CASE Flush
    BY <1>0, <1>3 DEF AppendedInv, Flush
<1>4. CASE Drain
    BY <1>0, <1>4 DEF MemoryInv, AppendedInv, Drain
<1>5. CASE WriteTmp
    BY <1>0, <1>5 DEF AppendedInv, WriteTmp
<1>6. CASE Rename
    BY <1>0, <1>6 DEF AppendedInv, Rename
<1>7. CASE IndexAdd
    BY <1>0, <1>7 DEF AppendedInv, IndexAdd
<1>8. CASE Save
    BY <1>0, <1>8 DEF AppendedInv, Save
<1>9. CASE Truncate
    BY <1>0, <1>9 DEF AppendedInv, Truncate, Truncated
<1>10. CASE DrainError
    BY <1>0, <1>10 DEF MemoryInv, AppendedInv, DrainError
<1>11. CASE WriteTmpError
    BY <1>0, <1>11 DEF AppendedInv, WriteTmpError, GiveUp, LoseMemory
<1>12. CASE RenameError
    BY <1>0, <1>12 DEF AppendedInv, RenameError, GiveUp, LoseMemory
<1>13. CASE SaveError
    BY <1>0, <1>13 DEF AppendedInv, SaveError, GiveUp, LoseMemory
<1>14. CASE TruncateError
    BY <1>0, <1>14 DEF AppendedInv, TruncateError, GiveUp, LoseMemory
<1>15. CASE Panic
    BY <1>0, <1>15 DEF MemoryInv, AppendedInv, Panic, LoseMemory, WalAfterDrop
<1>16. CASE Crash
    BY <1>0, <1>16 DEF AppendedInv, Crash, LoseMemory
<1>17. CASE Shutdown
    BY <1>0, <1>17 DEF MemoryInv, AppendedInv, Shutdown, LoseMemory, WalAfterDrop
<1>18. CASE LoseManifest
    BY <1>0, <1>18 DEF AppendedInv, LoseManifest
<1>19. CASE OpenIndex
    BY <1>0, <1>19 DEF AppendedInv, OpenIndex
<1>20. CASE Replay
    BY <1>0, <1>20 DEF AppendedInv, Replay, Recovered
<1>21. CASE UNCHANGED vars
    BY <1>0, <1>21 DEF AppendedInv, vars
<1> QED BY <1>1, <1>2, <1>3, <1>4, <1>5, <1>6, <1>7, <1>8, <1>9, <1>10, <1>11,
     <1>12, <1>13, <1>14, <1>15, <1>16, <1>17, <1>18, <1>19, <1>20, <1>21
        DEF Next, EngineStep, FaultStep

\* What is acknowledged is written to the WAL before, and stays there as long as
\* it is in memory only.
LEMMA WriteAheadStep ==
    ASSUME IInv, [Next]_vars
    PROVE  WriteAheadInv'
<1> USE DEF files, list, run, calls, losses, limits
<1>0. TypeOK /\ MemoryInv /\ AppendedInv /\ WriteAheadInv
    BY DEF IInv
<1>1. ASSUME NEW l \in Lines, Append(l) PROVE WriteAheadInv'
    BY <1>0, <1>1 DEF AppendedInv, WriteAheadInv, Append, WalAfterAppend
<1>2. ASSUME NEW l \in Lines, AppendWalError(l) PROVE WriteAheadInv'
    BY <1>0, <1>2 DEF TypeOK, WriteAheadInv, AppendWalError
<1>3. CASE Flush
    BY <1>0, <1>3 DEF WriteAheadInv, Flush
<1>4. CASE Drain
    BY <1>0, <1>4 DEF MemoryInv, WriteAheadInv, Sealing, Drain
<1>5. CASE WriteTmp
    BY <1>0, <1>5 DEF WriteAheadInv, WriteTmp
<1>6. CASE Rename
    BY <1>0, <1>6 DEF WriteAheadInv, Rename
<1>7. CASE IndexAdd
    BY <1>0, <1>7 DEF WriteAheadInv, IndexAdd
<1>8. CASE Save
    BY <1>0, <1>8 DEF WriteAheadInv, Save
<1>9. CASE Truncate
    BY <1>0, <1>9 DEF MemoryInv, WriteAheadInv, Sealing, Truncate
<1>10. CASE DrainError
    BY <1>0, <1>10 DEF WriteAheadInv, DrainError
<1>11. CASE WriteTmpError
    BY <1>0, <1>11 DEF WriteAheadInv, WriteTmpError, GiveUp, LoseMemory
<1>12. CASE RenameError
    BY <1>0, <1>12 DEF WriteAheadInv, RenameError, GiveUp, LoseMemory
<1>13. CASE SaveError
    BY <1>0, <1>13 DEF WriteAheadInv, SaveError, GiveUp, LoseMemory
<1>14. CASE TruncateError
    BY <1>0, <1>14 DEF WriteAheadInv, TruncateError, GiveUp, LoseMemory
<1>15. CASE Panic
    BY <1>0, <1>15 DEF WriteAheadInv, Panic, LoseMemory
<1>16. CASE Crash
    BY <1>0, <1>16 DEF WriteAheadInv, Crash, LoseMemory
<1>17. CASE Shutdown
    BY <1>0, <1>17 DEF WriteAheadInv, Shutdown, LoseMemory
<1>18. CASE LoseManifest
    BY <1>0, <1>18 DEF WriteAheadInv, LoseManifest
<1>19. CASE OpenIndex
    BY <1>0, <1>19 DEF WriteAheadInv, OpenIndex
<1>20. CASE Replay
    BY <1>0, <1>20 DEF MemoryInv, WriteAheadInv, Replay, Recovered
<1>21. CASE UNCHANGED vars
    BY <1>0, <1>21 DEF WriteAheadInv, vars
<1> QED BY <1>1, <1>2, <1>3, <1>4, <1>5, <1>6, <1>7, <1>8, <1>9, <1>10, <1>11,
     <1>12, <1>13, <1>14, <1>15, <1>16, <1>17, <1>18, <1>19, <1>20, <1>21
        DEF Next, EngineStep, FaultStep

\* Acknowledged lines of unlisted files stay in listed ones.
LEMMA OrphanStep ==
    ASSUME IInv, [Next]_vars
    PROVE  OrphanInv'
<1> USE DEF files, list, run, calls, losses, limits
<1>0. /\ TypeOK /\ MemoryInv /\ IdInv /\ WalInv /\ AppendedInv
      /\ WriteAheadInv /\ OrphanInv /\ OrphansAreCovered
    BY DEF IInv
<1>1. ASSUME NEW l \in Lines, Append(l) PROVE OrphanInv'
    <2>1. ~booting /\ booting' = FALSE /\ segs' = segs /\ index' = index
        BY <1>0, <1>1 DEF MemoryInv, Append
    <2>2. pc = "idle" /\ pc' # "index" /\ acked' \subseteq acked \cup {l} /\ l \notin appended
        BY <1>1 DEF Append
    <2>3. \A i \in SegId \ index : segs[i] \cap acked \subseteq In(index)
        BY <1>0, <2>1, <2>2 DEF OrphanInv
    <2>4. \A i \in SegId : l \notin segs[i]
        BY <1>0, <2>2 DEF AppendedInv
    <2> QED BY <2>1, <2>2, <2>3, <2>4 DEF OrphanInv, In
<1>2. ASSUME NEW l \in Lines, AppendWalError(l) PROVE OrphanInv'
    BY <1>0, <1>2 DEF MemoryInv, OrphanInv, In, AppendWalError
<1>3. CASE Flush
    BY <1>0, <1>3 DEF OrphanInv, In, Flush
<1>4. CASE Drain
    BY <1>0, <1>4 DEF MemoryInv, OrphanInv, In, Sealing, Drain
<1>5. CASE WriteTmp
    BY <1>0, <1>5 DEF OrphanInv, In, WriteTmp
<1>6. CASE Rename
    BY <1>0, <1>6 DEF IdInv, OrphanInv, In, Rename
<1>7. CASE IndexAdd
    BY <1>0, <1>7 DEF IdInv, OrphanInv, In, IndexAdd
<1>8. CASE Save
    BY <1>0, <1>8 DEF OrphanInv, In, Save
<1>9. CASE Truncate
    <2>1. /\ segs' = segs /\ index' = index /\ booting' = FALSE /\ pc' = "idle"
          /\ acked' = acked \cup pending /\ pc = "trunc"
        BY <1>9 DEF Truncate
    <2>2. buffer = {} /\ batch \subseteq In(index)
        BY <1>0, <2>1 DEF MemoryInv, IdInv, In, Sealing
    <2>3. booting => walFile \subseteq In(index)
        BY <1>0, <2>1, <2>2 DEF OrphanInv
    <2>4. pending \subseteq In(index)
        BY <1>0, <2>2 DEF WriteAheadInv
    <2>5. \A i \in SegId \ index : segs[i] \cap acked \subseteq In(index)
        BY <1>0, <2>1, <2>3 DEF OrphanInv
    <2> QED BY <2>1, <2>4, <2>5 DEF OrphanInv, In
<1>10. CASE DrainError
    BY <1>0, <1>10 DEF MemoryInv, OrphanInv, In, DrainError
<1>11. CASE WriteTmpError
    BY <1>0, <1>11 DEF TypeOK, MemoryInv, IdInv, OrphanInv, In, Sealing,
         WriteTmpError, GiveUp, LoseMemory
<1>12. CASE RenameError
    BY <1>0, <1>12 DEF TypeOK, MemoryInv, IdInv, OrphanInv, In, Sealing,
         RenameError, GiveUp, LoseMemory
<1>13. CASE SaveError
    BY <1>0, <1>13 DEF TypeOK, MemoryInv, IdInv, OrphanInv, In, Sealing,
         SaveError, GiveUp, LoseMemory
<1>14. CASE TruncateError
    BY <1>0, <1>14 DEF TypeOK, MemoryInv, IdInv, OrphanInv, In, Sealing,
         TruncateError, GiveUp, LoseMemory
<1>15. CASE Panic
    BY <1>0, <1>15 DEF OrphanInv, Panic, LoseMemory
<1>16. CASE Crash
    BY <1>0, <1>16 DEF OrphanInv, Crash, LoseMemory
<1>17. CASE Shutdown
    BY <1>0, <1>17 DEF OrphanInv, Shutdown, LoseMemory
<1>18. CASE LoseManifest
    BY <1>0, <1>18 DEF OrphanInv, LoseManifest
<1>19. CASE OpenIndex
    <2>1. /\ segs' = segs /\ index' = BootIndex /\ booting' = TRUE /\ pc' = "replay"
          /\ acked' = acked /\ walFile' = walFile
        BY <1>19 DEF OpenIndex
    <2>2. In(index)' = In(BootIndex)
        BY <2>1 DEF In
    <2>3. \A i \in SegId : segs[i] \cap acked \subseteq walFile \cup In(BootIndex)
        BY <1>0 DEF OrphansAreCovered, Recoverable
    <2> QED BY <2>1, <2>2, <2>3 DEF OrphanInv
<1>20. CASE Replay
    <2>1. /\ segs' = segs /\ index' = index /\ acked' = acked /\ walFile' = walFile
          /\ buffer' = walFile /\ pc' # "index" /\ pc = "replay"
          /\ (booting' = booting \/ walFile = {})
        BY <1>20 DEF Replay, Recovered
    <2>2. \A i \in SegId \ index : segs[i] \cap acked \subseteq In(index) \cup walFile
        BY <1>0, <2>1 DEF OrphanInv
    <2>3. booting
        BY <1>0, <2>1 DEF MemoryInv
    <2>4. In(index)' = In(index)
        BY <2>1 DEF In
    <2> QED BY <2>1, <2>2, <2>3, <2>4 DEF OrphanInv
<1>21. CASE UNCHANGED vars
    BY <1>0, <1>21 DEF OrphanInv, In, vars
<1> QED BY <1>1, <1>2, <1>3, <1>4, <1>5, <1>6, <1>7, <1>8, <1>9, <1>10, <1>11,
     <1>12, <1>13, <1>14, <1>15, <1>16, <1>17, <1>18, <1>19, <1>20, <1>21
        DEF Next, EngineStep, FaultStep

\* No acknowledged line disappears but in the two known ways.
LEMMA CoverStep ==
    ASSUME IInv, [Next]_vars
    PROVE  CoverInv'
<1> USE DEF files, list, run, calls, losses, limits
<1>0. /\ TypeOK /\ MemoryInv /\ IdInv /\ ListInv /\ WalInv /\ AppendedInv
      /\ WriteAheadInv /\ CoverInv
    BY DEF IInv
<1>1. ASSUME NEW l \in Lines, Append(l) PROVE CoverInv'
    BY <1>0, <1>1 DEF CoverInv, Recoverable, BootIndex, Files, In, Append,
         WalAfterAppend
<1>2. ASSUME NEW l \in Lines, AppendWalError(l) PROVE CoverInv'
    BY <1>0, <1>2 DEF CoverInv, Recoverable, BootIndex, Files, In, AppendWalError,
         Fault
<1>3. CASE Flush
    BY <1>0, <1>3 DEF CoverInv, Recoverable, BootIndex, Files, In, Flush
<1>4. CASE Drain
    BY <1>0, <1>4 DEF CoverInv, Recoverable, BootIndex, Files, In, Drain
<1>5. CASE WriteTmp
    BY <1>0, <1>5 DEF CoverInv, Recoverable, BootIndex, Files, In, WriteTmp
<1>6. CASE Rename
    <2>1. /\ walFile' = walFile /\ walBuf' = walBuf
          /\ acked' = acked /\ pending' = pending
          /\ dropped' = dropped /\ abandoned' = abandoned
        BY <1>6 DEF Rename
    <2>2. Recoverable \subseteq Recoverable'
        BY <1>6, <2>1, SealedStays DEF Recoverable
    <2> QED BY <1>0, <2>1, <2>2 DEF CoverInv
<1>7. CASE IndexAdd
    BY <1>0, <1>7 DEF CoverInv, Recoverable, BootIndex, Files, In, IndexAdd
<1>8. CASE Save
    <2>1. /\ walFile' = walFile /\ walBuf' = walBuf
          /\ acked' = acked /\ pending' = pending
          /\ dropped' = dropped /\ abandoned' = abandoned
        BY <1>8 DEF Save
    <2>2. Recoverable \subseteq Recoverable'
        BY <1>8, <2>1, SealedStays DEF Recoverable
    <2> QED BY <1>0, <2>1, <2>2 DEF CoverInv
<1>9. CASE Truncate
    <2>1. /\ segs' = segs /\ manifest' = manifest /\ walFile' = {} /\ walBuf' = walBuf
          /\ acked' = acked \cup pending /\ pending' = {} /\ pc = "trunc"
          /\ dropped' = dropped /\ abandoned' = abandoned
        BY <1>9 DEF Truncate, Truncated
    <2>2. buffer = {} /\ batch \subseteq In(index) /\ manifest = index /\ index # {}
        BY <1>0, <2>1 DEF MemoryInv, IdInv, ListInv, In, Sealing
    <2>3. BootIndex = index /\ Recoverable' = In(index)
        BY <2>1, <2>2 DEF BootIndex, Recoverable, In
    <2>4. walFile \subseteq In(index) \cup abandoned
        BY <1>0, <2>1, <2>2 DEF WalInv
    <2>5. Recoverable \subseteq In(index) \cup abandoned
        BY <2>3, <2>4 DEF Recoverable
    <2> QED BY <1>0, <2>1, <2>3, <2>5 DEF CoverInv
<1>10. CASE DrainError
    BY <1>0, <1>10 DEF CoverInv, Recoverable, BootIndex, Files, In, DrainError
<1>11. CASE WriteTmpError
    BY <1>0, <1>11 DEF TypeOK, MemoryInv, IdInv, CoverInv, Recoverable, BootIndex,
         Files, In, Sealing, WriteTmpError, GiveUp, LoseMemory
<1>12. CASE RenameError
    BY <1>0, <1>12 DEF TypeOK, MemoryInv, IdInv, CoverInv, Recoverable, BootIndex,
         Files, In, Sealing, RenameError, GiveUp, LoseMemory
<1>13. CASE SaveError
    BY <1>0, <1>13 DEF TypeOK, MemoryInv, IdInv, CoverInv, Recoverable, BootIndex,
         Files, In, Sealing, SaveError, GiveUp, LoseMemory
<1>14. CASE TruncateError
    BY <1>0, <1>14 DEF TypeOK, MemoryInv, IdInv, CoverInv, Recoverable, BootIndex,
         Files, In, Sealing, TruncateError, GiveUp, LoseMemory
<1>15. CASE Panic
    BY <1>0, <1>15 DEF CoverInv, Recoverable, BootIndex, Files, In, Panic,
         LoseMemory, WalAfterDrop
<1>16. CASE Crash
    BY <1>0, <1>16 DEF CoverInv, Recoverable, BootIndex, Files, In, Crash,
         LoseMemory
<1>17. CASE Shutdown
    BY <1>0, <1>17 DEF CoverInv, Recoverable, BootIndex, Files, In, Shutdown,
         LoseMemory, WalAfterDrop
<1>18. CASE LoseManifest
    BY <1>0, <1>18 DEF TypeOK, CoverInv, Recoverable, BootIndex, Files, In,
         LoseManifest
<1>19. CASE OpenIndex
    BY <1>0, <1>19 DEF CoverInv, Recoverable, BootIndex, In, OpenIndex
<1>20. CASE Replay
    BY <1>0, <1>20 DEF CoverInv, Recoverable, BootIndex, Files, In, Replay,
         Recovered
<1>21. CASE UNCHANGED vars
    BY <1>0, <1>21 DEF CoverInv, Recoverable, BootIndex, Files, In, vars
<1> QED BY <1>1, <1>2, <1>3, <1>4, <1>5, <1>6, <1>7, <1>8, <1>9, <1>10, <1>11,
     <1>12, <1>13, <1>14, <1>15, <1>16, <1>17, <1>18, <1>19, <1>20, <1>21
        DEF Next, EngineStep, FaultStep

\* Unlisted files hold no acknowledged line of their own.
LEMMA OrphansStep ==
    ASSUME IInv, [Next]_vars
    PROVE  OrphansAreCovered'
<1> USE DEF files, list, run, calls, losses, limits
<1>0. /\ TypeOK /\ MemoryInv /\ IdInv /\ ListInv /\ WalInv /\ AppendedInv
      /\ WriteAheadInv /\ OrphanInv /\ OrphansAreCovered
    BY DEF IInv
<1>1. ASSUME NEW l \in Lines, Append(l) PROVE OrphansAreCovered'
    <2>1. /\ segs' = segs /\ manifest' = manifest /\ acked' \subseteq acked \cup {l}
          /\ l \notin appended /\ walFile \subseteq walFile'
        BY <1>1 DEF Append, WalAfterAppend
    <2>2. \A i \in SegId : l \notin segs[i]
        BY <1>0, <2>1 DEF AppendedInv
    <2>3. Recoverable \subseteq Recoverable'
        BY <2>1 DEF Recoverable, BootIndex, Files, In
    <2> QED BY <1>0, <2>1, <2>2, <2>3 DEF OrphansAreCovered
<1>2. ASSUME NEW l \in Lines, AppendWalError(l) PROVE OrphansAreCovered'
    BY <1>0, <1>2 DEF OrphansAreCovered, Recoverable, BootIndex, Files, In,
         AppendWalError, Fault
<1>3. CASE Flush
    BY <1>0, <1>3 DEF OrphansAreCovered, Recoverable, BootIndex, Files, In, Flush
<1>4. CASE Drain
    BY <1>0, <1>4 DEF OrphansAreCovered, Recoverable, BootIndex, Files, In, Drain
<1>5. CASE WriteTmp
    BY <1>0, <1>5 DEF OrphansAreCovered, Recoverable, BootIndex, Files, In, WriteTmp
<1>6. CASE Rename
    <2>1. /\ walFile' = walFile /\ acked' = acked
          /\ \A i \in SegId : segs'[i] = (IF i = curId THEN batch ELSE segs[i])
        BY <1>0, <1>6 DEF Rename, TypeOK
    <2>2. Recoverable \subseteq Recoverable'
        BY <1>6, <2>1, SealedStays DEF Recoverable
    <2>3. batch \cap acked \subseteq Recoverable'
        BY <1>0, <2>1 DEF WriteAheadInv, Recoverable
    <2> QED BY <1>0, <2>1, <2>2, <2>3 DEF OrphansAreCovered
<1>7. CASE IndexAdd
    BY <1>0, <1>7 DEF OrphansAreCovered, Recoverable, BootIndex, Files, In, IndexAdd
<1>8. CASE Save
    <2>1. walFile' = walFile /\ acked' = acked /\ segs' = segs
        BY <1>8 DEF Save
    <2>2. Recoverable \subseteq Recoverable'
        BY <1>8, <2>1, SealedStays DEF Recoverable
    <2> QED BY <1>0, <2>1, <2>2 DEF OrphansAreCovered
<1>9. CASE Truncate
    <2>1. /\ segs' = segs /\ manifest' = manifest /\ walFile' = {} /\ walBuf' = walBuf
          /\ acked' = acked \cup pending /\ pending' = {} /\ pc = "trunc"
          /\ dropped' = dropped /\ abandoned' = abandoned
        BY <1>9 DEF Truncate, Truncated
    <2>2. buffer = {} /\ batch \subseteq In(index) /\ manifest = index /\ index # {}
        BY <1>0, <2>1 DEF MemoryInv, IdInv, ListInv, In, Sealing
    <2>3. BootIndex = index /\ Recoverable' = In(index)
        BY <2>1, <2>2 DEF BootIndex, Recoverable, In
    <2>4. \A i \in SegId \ index : segs[i] \cap acked \subseteq In(index)
        BY <1>0, <2>1, <2>2 DEF OrphanInv
    <2>5. pending \subseteq In(index)
        BY <1>0, <2>2 DEF WriteAheadInv
    <2>6. \A i \in index : segs[i] \subseteq In(index)
        BY DEF In
    <2> QED BY <2>1, <2>3, <2>4, <2>5, <2>6 DEF OrphansAreCovered
<1>10. CASE DrainError
    BY <1>0, <1>10 DEF OrphansAreCovered, Recoverable, BootIndex, Files, In,
         DrainError
<1>11. CASE WriteTmpError
    BY <1>0, <1>11 DEF OrphansAreCovered, Recoverable, BootIndex, Files, In,
         WriteTmpError, GiveUp, LoseMemory
<1>12. CASE RenameError
    BY <1>0, <1>12 DEF OrphansAreCovered, Recoverable, BootIndex, Files, In,
         RenameError, GiveUp, LoseMemory
<1>13. CASE SaveError
    BY <1>0, <1>13 DEF OrphansAreCovered, Recoverable, BootIndex, Files, In,
         SaveError, GiveUp, LoseMemory
<1>14. CASE TruncateError
    BY <1>0, <1>14 DEF OrphansAreCovered, Recoverable, BootIndex, Files, In,
         TruncateError, GiveUp, LoseMemory
<1>15. CASE Panic
    BY <1>0, <1>15 DEF OrphansAreCovered, Recoverable, BootIndex, Files, In,
         Panic, LoseMemory, WalAfterDrop
<1>16. CASE Crash
    BY <1>0, <1>16 DEF OrphansAreCovered, Recoverable, BootIndex, Files, In,
         Crash, LoseMemory
<1>17. CASE Shutdown
    BY <1>0, <1>17 DEF OrphansAreCovered, Recoverable, BootIndex, Files, In,
         Shutdown, LoseMemory, WalAfterDrop
<1>18. CASE LoseManifest
    BY <1>0, <1>18 DEF OrphansAreCovered, Recoverable, BootIndex, Files, In,
         LoseManifest
<1>19. CASE OpenIndex
    BY <1>0, <1>19 DEF OrphansAreCovered, Recoverable, BootIndex, In, OpenIndex
<1>20. CASE Replay
    BY <1>0, <1>20 DEF OrphansAreCovered, Recoverable, BootIndex, Files, In,
         Replay, Recovered
<1>21. CASE UNCHANGED vars
    BY <1>0, <1>21 DEF OrphansAreCovered, Recoverable, BootIndex, Files, In, vars
<1> QED BY <1>1, <1>2, <1>3, <1>4, <1>5, <1>6, <1>7, <1>8, <1>9, <1>10, <1>11,
     <1>12, <1>13, <1>14, <1>15, <1>16, <1>17, <1>18, <1>19, <1>20, <1>21
        DEF Next, EngineStep, FaultStep

-----------------------------------------------------------------------------
(* The theorems.                                                           *)

\* The invariant is inductive.
LEMMA InvStep == IInv /\ [Next]_vars => IInv'
<1> SUFFICES ASSUME IInv, [Next]_vars PROVE IInv'
    OBVIOUS
<1>1. TypeOK' /\ MemoryInv' /\ IdInv'
    BY TypeStep, MemoryStep, IdStep
<1>2. ListInv' /\ WalInv' /\ CoverInv'
    BY ListStep, WalStep, CoverStep
<1>3. AppendedInv' /\ WriteAheadInv' /\ OrphanInv' /\ OrphansAreCovered'
    BY AppendedStep, WriteAheadStep, OrphanStep, OrphansStep
<1> QED BY <1>1, <1>2, <1>3 DEF IInv

\* The inductive invariant holds in every reachable state.
THEOREM Invariance == Spec => []IInv
<1>1. Init => IInv
    BY InitInv
<1>2. IInv /\ [Next]_vars => IInv'
    BY InvStep
<1> QED BY <1>1, <1>2, PTL DEF Spec

\* Type correctness of the storage engine.
THEOREM TypeCorrect == Spec => []TypeOK
<1>1. IInv => TypeOK
    BY DEF IInv
<1> QED BY <1>1, Invariance, PTL

\* An acknowledged line is recoverable, in the BufWriter, or lost by a crash
\* while it was there or by an I/O error of its segment: flush, replay, id
\* assignment and truncation lose nothing.
THEOREM LossesAreKnown == Spec => []OnlyKnownLosses
<1>1. IInv => OnlyKnownLosses
    BY DEF IInv, CoverInv, OnlyKnownLosses
<1> QED BY <1>1, Invariance, PTL

\* A segment file that the manifest does not list holds no acknowledged line
\* that is nowhere else: reusing its id is harmless.
THEOREM OrphansCovered == Spec => []OrphansAreCovered
<1>1. IInv => OrphansAreCovered
    BY DEF IInv
<1> QED BY <1>1, Invariance, PTL

\* A step that shrinks the WAL leaves its lines in listed segments, or they
\* belong to an abandoned batch.
LEMMA TruncationStep ==
    ASSUME IInv, [Next]_vars
    PROVE  walFile \ walFile' \subseteq In(manifest)' \cup abandoned
<1> USE DEF files, list, run, calls, losses, limits
<1>0. TypeOK /\ MemoryInv /\ IdInv /\ ListInv /\ WalInv
    BY DEF IInv
<1>1. CASE Truncate
    <2>1. segs' = segs /\ manifest' = manifest /\ pc = "trunc"
        BY <1>1 DEF Truncate
    <2>2. buffer = {} /\ batch \subseteq In(index) /\ manifest = index
        BY <1>0, <2>1 DEF MemoryInv, IdInv, ListInv, In, Sealing
    <2>3. walFile \subseteq In(manifest) \cup abandoned
        BY <1>0, <2>1, <2>2 DEF WalInv
    <2>4. In(manifest)' = In(manifest)
        BY <2>1 DEF In
    <2> QED BY <2>3, <2>4
<1>2. CASE ~Truncate
    <2>1. walFile \subseteq walFile'
        BY <1>2 DEF Next, EngineStep, FaultStep, vars, Append, WalAfterAppend,
             AppendWalError,
           Flush, Drain, WriteTmp, Rename, IndexAdd, Save, DrainError, WriteTmpError,
           RenameError, SaveError, TruncateError, Panic, WalAfterDrop, Crash, Shutdown,
           LoseManifest, OpenIndex, Replay
    <2> QED BY <2>1
<1> QED BY <1>1, <1>2

\* The WAL lets go of a line only when a listed segment has it or its batch was
\* abandoned.
THEOREM TruncationIsSafe == Spec => TruncatedIsSealedOrAbandoned
<1>1. IInv /\ [Next]_vars =>
        [walFile \ walFile' \subseteq In(manifest)' \cup abandoned]_vars
    BY TruncationStep
<1> QED BY <1>1, Invariance, PTL DEF Spec, TruncatedIsSealedOrAbandoned

\* The manifest only grows, unless somebody removes it while no process runs.
LEMMA ManifestStep ==
    ASSUME IInv, [Next]_vars
    PROVE  manifest \subseteq manifest' \/ (pc = "down" /\ manifest' = {})
<1> USE DEF files, list, run, calls, losses, limits
<1>1. CASE Save
    BY <1>1 DEF IInv, ListInv, Save, Saved
<1>2. CASE OpenIndex
    BY <1>2 DEF OpenIndex, BootIndex
<1>3. CASE LoseManifest
    BY <1>3 DEF LoseManifest
<1>4. CASE ~Save /\ ~OpenIndex /\ ~LoseManifest
    <2>1. manifest' = manifest
        BY <1>4 DEF Next, EngineStep, FaultStep, vars, Append, AppendWalError,
             Flush, Drain,
           WriteTmp, Rename, IndexAdd, Truncate, DrainError, WriteTmpError, RenameError,
           SaveError, TruncateError, Panic, Crash, Shutdown, Replay
    <2> QED BY <2>1
<1> QED BY <1>1, <1>2, <1>3, <1>4

\* A listed segment never changes and is never forgotten: ids are not reused.
THEOREM ListedSegmentsAreImmutable == Spec => ListedIsImmutable
<1>1. IInv /\ [Next]_vars =>
        [/\ \A i \in manifest : segs'[i] = segs[i]
         /\ manifest \subseteq manifest' \/ (pc = "down" /\ manifest' = {})]_vars
    <2> SUFFICES ASSUME IInv, [Next]_vars
                 PROVE  /\ \A i \in manifest : segs'[i] = segs[i]
                        /\ manifest \subseteq manifest' \/ (pc = "down" /\ manifest' = {})
        OBVIOUS
    <2>1. \A i \in manifest : segs'[i] = segs[i]
        BY ListedStay
    <2> QED BY <2>1, ManifestStep
<1> QED BY <1>1, Invariance, PTL DEF Spec, ListedIsImmutable

-----------------------------------------------------------------------------
(* StorageEngine implements LogStore.                                       *)

\* The mapped status of a line, and the lines that have it.
LEMMA StatusOf ==
    ASSUME NEW l \in Lines
    PROVE  /\ [k \in Lines |-> Status(k)][l] = Status(l)
           /\ Status(l) \in {"new", "volatile", "stable", "lost"}
           /\ Status(l) = "new" <=> l \notin appended
           /\ Status(l) = "stable" <=> l \in appended \cap Recoverable
           /\ Status(l) = "volatile" <=>
                l \in (appended \cap (buffer \cup batch)) \ Recoverable
BY DEF Status

\* The sets of lines that the abstract store talks about.
LEMMA WithStatus ==
    ASSUME TypeOK
    PROVE  /\ Store!With("volatile") = (appended \cap (buffer \cup batch)) \ Recoverable
           /\ Store!With("stable") = appended \cap Recoverable
           /\ Store!With("lost") = appended \ (Recoverable \cup buffer \cup batch)
BY DEF Store!With, TypeOK, Status

\* What can be recovered was appended.
LEMMA RecoverableAppended == TypeOK /\ AppendedInv => Recoverable \subseteq appended
BY DEF TypeOK, AppendedInv, Recoverable, In, BootIndex, Files

\* So it is after a step.
LEMMA RecoverableAppendedNext ==
    TypeOK' /\ AppendedInv' => Recoverable' \subseteq appended'
BY DEF TypeOK, AppendedInv, Recoverable, In, BootIndex, Files

-----------------------------------------------------------------------------
(* Five ways in which a step of the engine is a step of the store.         *)

\* A step that neither moves a line between the files and the memory nor
\* returns from a call is invisible.
LEMMA Stutters ==
    ASSUME /\ appended' = appended /\ acked' = acked /\ abandoned' = abandoned
           /\ Recoverable' = Recoverable
           /\ buffer' \cup batch' = buffer \cup batch
                \/ (buffer' \cup batch') \cup (buffer \cup batch) \subseteq Recoverable
    PROVE  UNCHANGED Store!vars
<1>1. \A l \in Lines : Status(l)' = Status(l)
    BY DEF Status
<1> QED BY <1>1 DEF Store!vars

\* Lines become recoverable; an acknowledged one only if it was in memory.
LEMMA Hardens ==
    ASSUME /\ TypeOK /\ TypeOK' /\ AppendedInv /\ AppendedInv'
           /\ appended' = appended /\ acked' = acked /\ abandoned' = abandoned
           /\ Recoverable \subseteq Recoverable'
           /\ buffer' \cup batch' = buffer \cup batch
           /\ acked \cap Recoverable' \subseteq Recoverable \cup buffer \cup batch
    PROVE  Store!Next
<1> DEFINE S == Recoverable' \ Recoverable
<1>1. Recoverable \subseteq appended /\ Recoverable' \subseteq appended
    BY RecoverableAppended, RecoverableAppendedNext
<1>2. S \in SUBSET Lines
    BY <1>1 DEF TypeOK
<1>3. S \subseteq Store!With("volatile") \cup (Store!With("lost") \ acked)
    BY <1>1, WithStatus
<1>4. \A l \in Lines : Status(l)' = IF l \in S THEN "stable" ELSE Status(l)
    BY <1>1 DEF Status
<1>5. Store!Turn(S, "stable")
    BY <1>4, StatusOf DEF Store!Turn
<1>6. Store!Harden(S)
    BY <1>3, <1>5 DEF Store!Harden
<1> QED BY <1>2, <1>6 DEF Store!Next

\* The process ends without losing an acknowledged line that was in memory.
LEMMA Closes ==
    ASSUME /\ TypeOK /\ TypeOK' /\ AppendedInv /\ AppendedInv'
           /\ appended' = appended /\ acked' = acked /\ abandoned' = abandoned
           /\ Recoverable \subseteq Recoverable'
           /\ Recoverable' \subseteq Recoverable \cup buffer \cup batch
           /\ acked \cap (buffer \cup batch) \subseteq Recoverable'
           /\ buffer' = {} /\ batch' = {}
    PROVE  Store!Close
<1> DEFINE H == Recoverable' \ Recoverable
<1>1. Recoverable \subseteq appended /\ Recoverable' \subseteq appended
    BY RecoverableAppended, RecoverableAppendedNext
<1>2. H \subseteq Store!With("volatile") /\ Store!With("volatile") \cap acked \subseteq H
    BY <1>1, WithStatus
<1>3. \A l \in Lines : Status(l)' = IF l \in H THEN "stable"
                                    ELSE IF l \in Store!With("volatile") THEN "lost"
                                    ELSE Status(l)
    BY <1>1, WithStatus DEF Status
<1>4. [l \in Lines |-> Status(l)]' =
        [l \in Lines |-> IF l \in H THEN "stable"
                         ELSE IF l \in Store!With("volatile") THEN "lost"
                         ELSE [k \in Lines |-> Status(k)][l]]
    BY <1>3
<1> QED BY <1>2, <1>4 DEF Store!Close

\* The memory is gone and the files are as they were.
LEMMA Crashes ==
    ASSUME /\ TypeOK
           /\ appended' = appended /\ acked' = acked /\ abandoned' = abandoned
           /\ Recoverable' = Recoverable
           /\ buffer' = {} /\ batch' = {}
    PROVE  Store!Crash
<1>1. \A l \in Lines : Status(l)' = IF l \in Store!With("volatile") THEN "lost" ELSE Status(l)
    BY WithStatus DEF Status
<1>2. Store!Turn(Store!With("volatile"), "lost")
    BY <1>1, StatusOf DEF Store!Turn
<1> QED BY <1>2 DEF Store!Crash

\* A flush fails: its batch, whose acknowledged lines are all in a file, is dropped.
LEMMA Fails ==
    ASSUME NEW S \in SUBSET Lines,
           /\ TypeOK /\ AppendedInv
           /\ appended' = appended /\ acked' = acked
           /\ abandoned' = abandoned \cup S
           /\ Recoverable' = Recoverable
           /\ buffer = {} /\ buffer' = {} /\ batch' = {}
           /\ acked \cap batch \subseteq Recoverable
    PROVE  Store!Next
<1> DEFINE V == Store!With("volatile")
<1>1. V \in SUBSET Lines /\ V \subseteq V \ acked
    BY WithStatus DEF TypeOK
<1>2. \A l \in Lines : Status(l)' = IF l \in V THEN "lost" ELSE Status(l)
    BY WithStatus DEF Status
<1>3. Store!Turn(V, "lost")
    BY <1>2, StatusOf DEF Store!Turn
<1>4. Store!Fail(S, V)
    BY <1>1, <1>3 DEF Store!Fail
<1> QED BY <1>1, <1>4 DEF Store!Next

-----------------------------------------------------------------------------
(* The steps of the engine, one by one.                                    *)

\* append is Accept: the BufWriter pushes out the new line only together with
\* every older one.
LEMMA AppendAccepts ==
    ASSUME IInv, IInv', NEW l \in Lines, Append(l) \/ AppendWalError(l)
    PROVE  Store!Accept(l)
<1> USE DEF files, list, run, calls, losses, limits
<1> DEFINE H == Store!With("volatile") \cap Recoverable'
           s == IF l \in Recoverable' THEN "stable" ELSE "volatile"
<1>0. /\ TypeOK /\ MemoryInv /\ AppendedInv /\ WriteAheadInv
      /\ TypeOK' /\ AppendedInv'
    BY DEF IInv
<1>1. /\ l \notin appended /\ appended' = appended \cup {l} /\ buffer' = buffer \cup {l}
      /\ batch = {} /\ batch' = {} /\ segs' = segs /\ manifest' = manifest
      /\ abandoned' = abandoned /\ acked' \in {acked, acked \cup {l}}
      /\ walFile \subseteq walFile'
      /\ walFile' \subseteq walFile \cup walBuf \cup {l}
      /\ l \in walFile' => walFile' = walFile \cup walBuf \cup {l}
    <2>1. CASE Append(l)
        BY <1>0, <2>1 DEF Append, WalAfterAppend, MemoryInv, Sealing, AppendedInv
    <2>2. CASE AppendWalError(l)
        BY <1>0, <2>2 DEF AppendWalError, MemoryInv, Sealing, AppendedInv, WriteAheadInv
    <2> QED BY <2>1, <2>2
<1>2. BootIndex' = BootIndex /\ In(BootIndex)' = In(BootIndex)
    BY <1>1 DEF BootIndex, Files, In
<1>3. Recoverable \subseteq appended /\ walBuf \subseteq buffer
    BY <1>0, RecoverableAppended DEF MemoryInv
<1>4. /\ Recoverable \subseteq Recoverable'
      /\ Recoverable' \subseteq Recoverable \cup buffer \cup {l}
      /\ l \in Recoverable' => walBuf \subseteq Recoverable'
    BY <1>1, <1>2, <1>3 DEF Recoverable
<1>5. Status(l) = "new"
    BY <1>1 DEF Status
<1>6. H \in SUBSET Store!With("volatile") /\ s \in {"volatile", "stable"}
    OBVIOUS
<1>7. s = "stable" => Store!With("volatile") \cap acked \subseteq H
    <2>1. Store!With("volatile") \cap acked \subseteq walBuf
        BY <1>0, <1>1, WithStatus DEF WriteAheadInv, Recoverable
    <2> QED BY <1>4, <2>1
<1>8. \A k \in Lines : Status(k)' = IF k = l THEN s
                                    ELSE IF k \in H THEN "stable" ELSE Status(k)
    BY <1>0, <1>1, <1>3, <1>4, WithStatus DEF Status
<1>9. [k \in Lines |-> Status(k)]' =
        [k \in Lines |-> IF k = l THEN s
                         ELSE IF k \in H THEN "stable"
                         ELSE [j \in Lines |-> Status(j)][k]]
    BY <1>8
<1>10. [j \in Lines |-> Status(j)][l] = "new"
    BY <1>5
<1> HIDE DEF H, s
<1> QED BY <1>1, <1>6, <1>7, <1>9, <1>10 DEF Store!Accept

\* What a rename or a save makes recoverable is in memory, or was never
\* acknowledged: no acknowledged line comes back from the dead.
LEMMA SealHardens ==
    ASSUME IInv, IInv', Rename \/ Save
    PROVE  Store!Next
<1> USE DEF files, list, run, calls, losses, limits
<1>0. /\ TypeOK /\ AppendedInv /\ TypeOK' /\ AppendedInv' /\ OrphansAreCovered
      /\ OrphansAreCovered' /\ CoverInv
    BY DEF IInv
<1>1. /\ appended' = appended /\ acked' = acked /\ abandoned' = abandoned
      /\ buffer' = buffer /\ batch' = batch /\ walFile' = walFile
    BY DEF Rename, Save
<1>2. Recoverable \subseteq Recoverable'
    BY <1>1, SealedStays DEF Recoverable
<1>3. acked \cap Recoverable' \subseteq Recoverable \cup buffer \cup batch
    <2>1. \A i \in SegId : segs'[i] \subseteq segs[i] \cup batch
        BY <1>0 DEF Rename, Save, TypeOK
    <2>2. Recoverable' \subseteq walFile \cup batch \cup UNION {segs[i] : i \in SegId}
        BY <1>0, <1>1, <2>1 DEF Recoverable, BootIndex, Files, In, TypeOK
    <2>3. walFile \subseteq Recoverable
        BY DEF Recoverable
    <2>4. acked \cap UNION {segs[i] : i \in SegId} \subseteq Recoverable
        BY <1>0 DEF OrphansAreCovered
    <2> QED BY <2>2, <2>3, <2>4
<1> QED BY <1>0, <1>1, <1>2, <1>3, Hardens

\* What leaves the BufWriter becomes recoverable.
LEMMA PushHardens ==
    ASSUME IInv, IInv', Drain \/ DrainError
    PROVE  Store!Next
<1> USE DEF files, list, run, calls, losses, limits
<1>0. /\ TypeOK /\ MemoryInv /\ AppendedInv /\ TypeOK' /\ AppendedInv'
    BY DEF IInv
<1>1. /\ appended' = appended /\ acked' = acked /\ abandoned' = abandoned
      /\ segs' = segs /\ manifest' = manifest
      /\ walFile \subseteq walFile' /\ walFile' \subseteq walFile \cup walBuf
      /\ buffer' \cup batch' = buffer \cup batch
    BY <1>0 DEF Drain, DrainError, MemoryInv, Sealing
<1>2. In(BootIndex)' = In(BootIndex) /\ walBuf \subseteq buffer
    BY <1>0, <1>1 DEF BootIndex, Files, In, MemoryInv
<1>3. Recoverable \subseteq Recoverable' /\ Recoverable' \subseteq Recoverable \cup buffer
    BY <1>1, <1>2 DEF Recoverable
<1> QED BY <1>0, <1>1, <1>3, Hardens

\* A manifest is removed: the scan of the directory finds at least its files,
\* and unlisted files hold no acknowledged line of their own.
LEMMA LoseManifestHardens ==
    ASSUME IInv, IInv', LoseManifest
    PROVE  Store!Next
<1> USE DEF files, list, run, calls, losses, limits
<1>0. /\ TypeOK /\ AppendedInv /\ TypeOK' /\ AppendedInv' /\ OrphansAreCovered
    BY DEF IInv
<1>1. /\ appended' = appended /\ acked' = acked /\ abandoned' = abandoned
      /\ buffer' = buffer /\ batch' = batch /\ walFile' = walFile
      /\ segs' = segs /\ manifest # {} /\ manifest' = {}
    BY DEF LoseManifest
<1>2. Recoverable \subseteq Recoverable'
    BY <1>0, <1>1 DEF Recoverable, BootIndex, Files, In, TypeOK
<1>3. acked \cap Recoverable' \subseteq Recoverable
    BY <1>0, <1>1 DEF Recoverable, BootIndex, Files, In, OrphansAreCovered
<1> QED BY <1>0, <1>1, <1>2, <1>3, Hardens

\* Truncation settles: it forgets lines of abandoned batches only, and the
\* append that waited for the flush returns for a line in a listed segment.
LEMMA TruncateSettles ==
    ASSUME IInv, IInv', Truncate
    PROVE  Store!Next
<1> USE DEF files, list, run, calls, losses, limits
<1> DEFINE F == Recoverable \ Recoverable'
<1>0. /\ TypeOK /\ MemoryInv /\ IdInv /\ ListInv /\ WalInv /\ AppendedInv
      /\ WriteAheadInv
    BY DEF IInv
<1>1. /\ segs' = segs /\ manifest' = manifest /\ walFile' = {} /\ pc = "trunc"
      /\ acked' = acked \cup pending /\ batch' = {} /\ buffer' = buffer
      /\ appended' = appended /\ abandoned' = abandoned
    BY DEF Truncate, Truncated
<1>2. buffer = {} /\ batch \subseteq In(index) /\ manifest = index /\ index # {}
    BY <1>0, <1>1 DEF MemoryInv, IdInv, ListInv, In, Sealing
<1>3. /\ BootIndex = index /\ Recoverable = walFile \cup In(index)
      /\ Recoverable' = In(index)
    BY <1>1, <1>2 DEF BootIndex, Recoverable, In
<1>4. F \subseteq abandoned
    BY <1>0, <1>1, <1>2, <1>3 DEF WalInv
<1>5. pending \subseteq Recoverable'
    BY <1>0, <1>2, <1>3 DEF WriteAheadInv
<1>6. Recoverable \subseteq appended
    BY <1>0, RecoverableAppended
<1>7. pending \subseteq Store!With("stable") \ F
    BY <1>0, <1>3, <1>5, <1>6, WithStatus
<1>8. \A l \in Lines : Status(l)' = IF l \in F \cap Store!With("stable") THEN "lost" ELSE Status(l)
    BY <1>0, <1>1, <1>2, <1>3, <1>6, WithStatus DEF Status
<1>9. Store!Turn(F \cap Store!With("stable"), "lost")
    BY <1>8, StatusOf DEF Store!Turn
<1>10. Store!Settle(F, pending)
    BY <1>1, <1>4, <1>7, <1>9 DEF Store!Settle
<1>11. F \in SUBSET Lines /\ pending \in SUBSET Lines
    BY <1>0, <1>4 DEF TypeOK
<1> QED BY <1>10, <1>11 DEF Store!Next

\* A stop in good order, and a panic, which drops the engine, write the
\* BufWriter out.
LEMMA StopCloses ==
    ASSUME IInv, IInv', Shutdown \/ Panic
    PROVE  Store!Next
<1> USE DEF files, list, run, calls, losses, limits
<1>0. /\ TypeOK /\ MemoryInv /\ AppendedInv /\ WriteAheadInv /\ TypeOK' /\ AppendedInv'
    BY DEF IInv
<1>1. /\ appended' = appended /\ acked' = acked /\ abandoned' = abandoned
      /\ segs' = segs /\ manifest' = manifest /\ walFile' = walFile \cup walBuf
      /\ buffer' = {} /\ batch' = {}
    BY DEF Shutdown, Panic, WalAfterDrop, LoseMemory
<1>2. In(BootIndex)' = In(BootIndex) /\ walBuf \subseteq buffer
    BY <1>0, <1>1 DEF BootIndex, Files, In, MemoryInv
<1>3. /\ Recoverable \subseteq Recoverable'
      /\ Recoverable' \subseteq Recoverable \cup buffer \cup batch
    BY <1>1, <1>2 DEF Recoverable
<1>4. acked \cap (buffer \cup batch) \subseteq Recoverable'
    BY <1>0, <1>1 DEF WriteAheadInv, Recoverable
<1> QED BY <1>0, <1>1, <1>3, <1>4, Closes DEF Store!Next

\* A kill loses what was only in memory.
LEMMA KillCrashes ==
    ASSUME IInv, Crash
    PROVE  Store!Next
<1> USE DEF files, list, run, calls, losses, limits
<1>1. /\ appended' = appended /\ acked' = acked /\ abandoned' = abandoned
      /\ segs' = segs /\ manifest' = manifest /\ walFile' = walFile
      /\ buffer' = {} /\ batch' = {}
    BY DEF Crash, LoseMemory
<1>2. Recoverable' = Recoverable
    BY <1>1 DEF Recoverable, BootIndex, Files, In
<1> QED BY <1>1, <1>2, Crashes DEF Store!Next, IInv

\* An error after the drain ends the process when it is inside open, and
\* otherwise drops a batch whose acknowledged lines are all in the WAL.
LEMMA ErrorFails ==
    ASSUME IInv, WriteTmpError \/ RenameError \/ SaveError \/ TruncateError
    PROVE  Store!Next
<1> USE DEF files, list, run, calls, losses, limits
<1>0. /\ TypeOK /\ MemoryInv /\ AppendedInv /\ WriteAheadInv
    BY DEF IInv
<1>1. /\ appended' = appended /\ acked' = acked
      /\ segs' = segs /\ manifest' = manifest /\ walFile' = walFile
      /\ pc \in Sealing /\ (GiveUp(batch) \/ GiveUp({}))
    BY DEF WriteTmpError, RenameError, SaveError, TruncateError, Sealing
<1>2. Recoverable' = Recoverable
    BY <1>1 DEF Recoverable, BootIndex, Files, In
<1>3. buffer = {} /\ acked \cap batch \subseteq Recoverable
    BY <1>0, <1>1 DEF MemoryInv, WriteAheadInv, Recoverable
<1>4. PICK S \in {batch, {}} : GiveUp(S)
    BY <1>1
<1>5. S \in SUBSET Lines
    BY <1>0 DEF TypeOK
<1>6. CASE booting
    <2>1. abandoned' = abandoned /\ buffer' = {} /\ batch' = {}
        BY <1>4, <1>6 DEF GiveUp, LoseMemory
    <2> QED BY <1>0, <1>1, <1>2, <2>1, Crashes DEF Store!Next
<1>7. CASE ~booting
    <2>1. abandoned' = abandoned \cup S /\ buffer' = {} /\ batch' = {}
        BY <1>3, <1>4, <1>7 DEF GiveUp
    <2> QED BY <1>0, <1>1, <1>2, <1>3, <1>5, <2>1, Fails
<1> QED BY <1>6, <1>7

\* The other steps are invisible.
LEMMA HiddenSteps ==
    ASSUME IInv, \/ Flush \/ WriteTmp \/ IndexAdd \/ OpenIndex \/ Replay
                 \/ UNCHANGED vars
    PROVE  UNCHANGED Store!vars
<1> USE DEF files, list, run, calls, losses, limits
<1>0. /\ TypeOK /\ MemoryInv
    BY DEF IInv
<1>1. CASE OpenIndex
    <2>1. /\ appended' = appended /\ acked' = acked /\ abandoned' = abandoned
          /\ buffer' = buffer /\ batch' = batch /\ walFile' = walFile /\ segs' = segs
          /\ manifest' = BootIndex
        BY <1>1 DEF OpenIndex
    <2>2. BootIndex' = BootIndex
        BY <2>1 DEF BootIndex, Files
    <2>3. Recoverable' = Recoverable
        BY <2>1, <2>2 DEF Recoverable, In
    <2> QED BY <2>1, <2>3, Stutters
<1>2. CASE Replay
    <2>1. /\ appended' = appended /\ acked' = acked /\ abandoned' = abandoned
          /\ buffer' = walFile /\ batch' = batch /\ walFile' = walFile /\ segs' = segs
          /\ manifest' = manifest /\ pc = "replay"
        BY <1>2 DEF Replay, Recovered
    <2>2. Recoverable' = Recoverable
        BY <2>1 DEF Recoverable, BootIndex, Files, In
    <2>3. buffer = {} /\ batch = {} /\ walFile \subseteq Recoverable
        BY <1>0, <2>1 DEF MemoryInv, Recoverable, Sealing
    <2> QED BY <2>1, <2>2, <2>3, Stutters
<1>3. CASE Flush \/ WriteTmp \/ IndexAdd \/ UNCHANGED vars
    <2>1. /\ appended' = appended /\ acked' = acked /\ abandoned' = abandoned
          /\ buffer' = buffer /\ batch' = batch /\ walFile' = walFile /\ segs' = segs
          /\ manifest' = manifest
        BY <1>3 DEF Flush, WriteTmp, IndexAdd, vars
    <2>2. Recoverable' = Recoverable
        BY <2>1 DEF Recoverable, BootIndex, Files, In
    <2> QED BY <2>1, <2>2, Stutters
<1> QED BY <1>1, <1>2, <1>3

-----------------------------------------------------------------------------
\* Every step of the engine is a step of the store or leaves it alone.
LEMMA StoreStep == IInv /\ IInv' /\ [Next]_vars => [Store!Next]_(Store!vars)
<1> SUFFICES ASSUME IInv, IInv', [Next]_vars PROVE [Store!Next]_(Store!vars)
    OBVIOUS
<1>1. ASSUME NEW l \in Lines, Append(l) \/ AppendWalError(l) PROVE Store!Next
    BY <1>1, AppendAccepts DEF Store!Next
<1>2. CASE Rename \/ Save
    BY <1>2, SealHardens
<1>3. CASE Drain \/ DrainError
    BY <1>3, PushHardens
<1>4. CASE LoseManifest
    BY <1>4, LoseManifestHardens
<1>5. CASE Truncate
    BY <1>5, TruncateSettles
<1>6. CASE Shutdown \/ Panic
    BY <1>6, StopCloses
<1>7. CASE Crash
    BY <1>7, KillCrashes
<1>8. CASE WriteTmpError \/ RenameError \/ SaveError \/ TruncateError
    BY <1>8, ErrorFails
<1>9. CASE Flush \/ WriteTmp \/ IndexAdd \/ OpenIndex \/ Replay \/ UNCHANGED vars
    BY <1>9, HiddenSteps
<1> QED BY <1>1, <1>2, <1>3, <1>4, <1>5, <1>6, <1>7, <1>8, <1>9
        DEF Next, EngineStep, FaultStep

\* An unused directory is an empty store.
LEMMA StoreInit == Init => Store!Init
BY DEF Init, Store!Init, Status

\* The engine implements the abstract store: crashes, I/O errors, recoveries
\* and reused ids lose lines in no other way than LogStore allows.
THEOREM Refinement == Spec => ImplementsLogStore
<1>1. Init => Store!Init
    BY StoreInit
<1>2. IInv /\ IInv' /\ [Next]_vars => [Store!Next]_(Store!vars)
    BY StoreStep
<1> QED BY <1>1, <1>2, Invariance, PTL DEF Spec, ImplementsLogStore, Store!Spec

-----------------------------------------------------------------------------
(* What counts: visible lines, totals and copies.                           *)

\* Read your writes: between two calls an acknowledged line that was not lost in
\* one of the two known ways is in a listed segment or in the buffer.
THEOREM VisibleAfterAck == Spec => []AckedIsVisible
<1>1. IInv => AckedIsVisible
    <2> SUFFICES ASSUME IInv, pc = "idle"
                 PROVE  acked \subseteq In(index) \cup buffer \cup dropped \cup abandoned
        BY DEF AckedIsVisible
    <2>0. MemoryInv /\ ListInv /\ WalInv /\ CoverInv
        BY DEF IInv
    <2>1. batch = {} /\ walBuf \subseteq buffer
        BY <2>0 DEF MemoryInv, Sealing
    <2>2. walFile \subseteq buffer \cup In(index) \cup abandoned
        BY <2>0, <2>1 DEF WalInv
    <2>3. BootIndex \subseteq index
        BY <2>0 DEF ListInv, BootIndex
    <2>4. In(BootIndex) \subseteq In(index)
        BY <2>3 DEF In
    <2> QED BY <2>0, <2>1, <2>2, <2>4 DEF CoverInv, Recoverable
<1> QED BY <1>1, Invariance, PTL

-----------------------------------------------------------------------------
(* The totals.                                                             *)

\* The totals of an unused directory are right.
LEMMA StatsInit == Init => StatsInv
BY DEF Init, StatsInv

\* Every step keeps them right while nothing goes wrong.
LEMMA StatsStep ==
    ASSUME IInv, StatsInv, [Next]_vars
    PROVE  StatsInv'
<1> USE DEF files, list, run, calls, losses, limits
<1>0. TypeOK /\ MemoryInv /\ IdInv /\ ListInv
    BY DEF IInv
<1> SUFFICES ASSUME crashes' = 0, faults' = 0 PROVE StatsInv'
    BY DEF StatsInv
<1>1. ASSUME NEW l \in Lines, Append(l) PROVE StatsInv'
    BY <1>0, <1>1 DEF StatsInv, Append
<1>3. CASE Flush
    BY <1>0, <1>3 DEF StatsInv, Flush
<1>4. CASE Drain
    BY <1>0, <1>4 DEF StatsInv, Drain
<1>5. CASE WriteTmp
    BY <1>0, <1>5 DEF StatsInv, WriteTmp, TypeOK
<1>6. CASE Rename
    <2>1. /\ pc = "rename" /\ pc' = "index" /\ curId' = curId /\ index' = index
          /\ counted' = counted /\ manifest' = manifest /\ crashes = 0 /\ faults = 0
          /\ \A i \in SegId : i # curId => segs'[i] = segs[i] /\ tmp'[i] = tmp[i]
          /\ curId \in SegId => tmp'[curId] = {}
        BY <1>0, <1>6 DEF Rename, TypeOK
    <2>2. curId \in SegId /\ curId \notin index
        BY <1>0, <2>1 DEF IdInv, Sealing
    <2>3. segs[curId] = {} /\ counted[curId] = 0
        BY <2>1, <2>2, FS_EmptySet DEF StatsInv
    <2>4. \A i \in SegId : tmp'[i] = {}
        BY <2>1, <2>2 DEF StatsInv
    <2>5. \A i \in SegId : segs'[i] # {} => i \in index \/ i = curId
        BY <2>1 DEF StatsInv
    <2>6. \A i \in SegId : counted[i] = IF i = curId THEN 0 ELSE Cardinality(segs'[i])
        BY <2>1, <2>3 DEF StatsInv
    <2>7. manifest = index
        BY <2>1 DEF StatsInv
    <2> QED BY <2>1, <2>4, <2>5, <2>6, <2>7 DEF StatsInv
<1>7. CASE IndexAdd
    BY <1>0, <1>7 DEF StatsInv, IndexAdd
<1>8. CASE Save
    <2>1. /\ pc = "save" /\ pc' = "trunc" /\ curId' = curId /\ index' = index
          /\ segs' = segs /\ tmp' = tmp /\ manifest' = index /\ crashes = 0 /\ faults = 0
          /\ counted' = [counted EXCEPT ![curId] = @ + Cardinality(batch)]
        BY <1>8 DEF Save, Saved
    <2>2. curId \in SegId /\ segs[curId] = batch /\ Cardinality(batch) \in Nat
        BY <1>0, <2>1, CountType DEF IdInv, Sealing, TypeOK
    <2>3. \A i \in SegId : counted'[i] =
             IF i = curId THEN counted[i] + Cardinality(batch) ELSE counted[i]
        BY <1>0, <2>1, <2>2 DEF TypeOK
    <2>4. \A i \in SegId : counted'[i] = Cardinality(segs[i])
        BY <2>1, <2>2, <2>3 DEF StatsInv
    <2>5. /\ \A i \in SegId : tmp[i] = {}
          /\ \A i \in SegId : segs[i] # {} => i \in index
        BY <2>1 DEF StatsInv
    <2> QED BY <2>1, <2>4, <2>5 DEF StatsInv
<1>9. CASE Truncate
    BY <1>0, <1>9 DEF StatsInv, Truncate
<1>15. CASE Panic
    BY <1>0, <1>15 DEF StatsInv, Panic, LoseMemory, BootIndex, Files
<1>17. CASE Shutdown
    BY <1>0, <1>17 DEF StatsInv, Shutdown, LoseMemory, BootIndex, Files
<1>19. CASE OpenIndex
    <2>1. /\ pc = "down" /\ pc' = "replay" /\ segs' = segs /\ tmp' = tmp
          /\ index' = BootIndex /\ manifest' = BootIndex /\ counted' = SizesOnDisk
          /\ crashes = 0 /\ faults = 0
        BY <1>19 DEF OpenIndex
    <2>2. \A i \in SegId : tmp[i] = {} /\ (segs[i] # {} => i \in BootIndex)
        BY <2>1 DEF StatsInv
    <2>3. \A i \in SegId : Cardinality(segs[i]) \in Nat /\ Cardinality(tmp[i]) = 0
        BY <1>0, <2>2, CountType, FS_EmptySet DEF TypeOK
    <2>4. \A i \in SegId : counted'[i] = Cardinality(segs[i])
        BY <2>1, <2>3 DEF SizesOnDisk
    <2> QED BY <2>1, <2>2, <2>4 DEF StatsInv
<1>20. CASE Replay
    BY <1>0, <1>20 DEF StatsInv, Replay
<1>21. CASE UNCHANGED vars
    BY <1>0, <1>21 DEF StatsInv, vars, BootIndex, Files
<1>22. ASSUME FaultStep \/ Crash \/ \E l \in Lines : AppendWalError(l) PROVE FALSE
    <2>1. crashes' = crashes + 1 \/ faults' = faults + 1
        BY <1>22 DEF FaultStep, Crash, AppendWalError, DrainError, WriteTmpError,
             RenameError, SaveError, TruncateError, LoseManifest, Fault
    <2> QED BY <1>0, <2>1 DEF TypeOK
<1> QED BY <1>1, <1>3, <1>4, <1>5, <1>6, <1>7, <1>8, <1>9, <1>15, <1>17, <1>19, <1>20,
           <1>21, <1>22 DEF Next, EngineStep

\* Without a stop or an error every listed segment is counted once.
LEMMA StatsFollow == IInv /\ StatsInv => StatsAreExact
<1> SUFFICES ASSUME IInv, StatsInv, pc = "idle", crashes = 0, faults = 0, NEW i \in SegId
             PROVE  counted[i] = IF i \in index THEN Cardinality(segs[i]) ELSE 0
    BY DEF StatsAreExact
<1>1. counted[i] = Cardinality(segs[i]) /\ (segs[i] # {} => i \in index)
    BY DEF StatsInv
<1> QED BY <1>1, FS_EmptySet

-----------------------------------------------------------------------------
(* The copies of a line.                                                   *)

\* Holders are a finite set.
LEMMA HoldersType ==
    ASSUME NEW l, NEW S, S \subseteq Holders(l)
    PROVE  IsFiniteSet(S) /\ Cardinality(S) \in Nat
<1>1. IsFiniteSet(0..MaxSegId)
    BY NoId, FS_Interval
<1>2. S \subseteq 0..MaxSegId
    BY NoId DEF Holders, SegId
<1> QED BY <1>1, <1>2, FS_Subset, FS_CardinalityType

\* A set grows by at most one when one element is added.
LEMMA OneMore ==
    ASSUME NEW S, NEW x, IsFiniteSet(S)
    PROVE  /\ IsFiniteSet(S \cup {x}) /\ Cardinality(S \cup {x}) \in Nat
           /\ Cardinality(S \cup {x}) <= Cardinality(S) + 1
<1>1. CASE x \in S
    <2>1. S \cup {x} = S
        BY <1>1
    <2>2. Cardinality(S) \in Nat
        BY FS_CardinalityType
    <2>3. Cardinality(S) <= Cardinality(S) + 1
        BY <2>2
    <2> QED BY <2>1, <2>2, <2>3
<1>2. CASE x \notin S
    <2>1. IsFiniteSet(S \cup {x}) /\ Cardinality(S \cup {x}) = Cardinality(S) + 1
        BY <1>2, FS_AddElement
    <2> QED BY <2>1, FS_CardinalityType
<1> QED BY <1>1, <1>2

\* A step that gives a line no new holder keeps its bound.
LEMMA FewerHolders ==
    ASSUME NEW l \in Lines, CopiesInv,
           NEW S, S \subseteq Holders(l)
    PROVE  /\ Cardinality(S) <= Cardinality(Holders(l))
           /\ Cardinality(S \ {0}) <= Cardinality(Holders(l) \ {0})
<1>1. S \ {0} \subseteq Holders(l) \ {0}
    OBVIOUS
<1> QED BY <1>1, HoldersType, FS_Subset

\* Outside the sealing of a batch there is one copy, and one more for each stop
\* or error.
LEMMA UnsealedBound ==
    ASSUME TypeOK, CopiesInv, ~Sealed, NEW l \in Lines
    PROVE  Cardinality(Holders(l)) <= 1 + crashes + faults
<1>1. {crashes, faults} \subseteq Nat
    BY DEF TypeOK
<1>2. Cardinality(Holders(l)) <= 1 + crashes + faults + 0
    BY DEF CopiesInv
<1> QED BY <1>1, <1>2

\* A step without new holders keeps the bounds, if it leaves a sealed batch
\* behind only at a stop or an error.
LEMMA CopiesKept ==
    ASSUME TypeOK, TypeOK', CopiesInv,
           \A l \in Lines : Holders(l)' \subseteq Holders(l),
           crashes' + faults' >= crashes + faults,
           Sealed' => Sealed /\ batch' = batch,
           Sealed /\ ~Sealed' => crashes' + faults' >= crashes + faults + 1
    PROVE  CopiesInv'
<1>1. {crashes, faults, crashes', faults'} \subseteq Nat
    BY DEF TypeOK
<1> SUFFICES ASSUME NEW l \in Lines
             PROVE  /\ Cardinality(Holders(l)') <=
                         1 + crashes' + faults' + (IF Sealed' /\ l \in batch' THEN 1 ELSE 0)
                    /\ Sealed' => Cardinality(Holders(l)' \ {0}) <= 1 + crashes' + faults'
    BY DEF CopiesInv
<1>2. /\ Cardinality(Holders(l)') <= Cardinality(Holders(l))
      /\ Cardinality(Holders(l)' \ {0}) <= Cardinality(Holders(l) \ {0})
    BY FewerHolders
<1>3. /\ Cardinality(Holders(l)') \in Nat /\ Cardinality(Holders(l)' \ {0}) \in Nat
      /\ Cardinality(Holders(l)) \in Nat /\ Cardinality(Holders(l) \ {0}) \in Nat
    BY HoldersType
<1>4. /\ Cardinality(Holders(l)) <=
           1 + crashes + faults + (IF Sealed /\ l \in batch THEN 1 ELSE 0)
      /\ Sealed => Cardinality(Holders(l) \ {0}) <= 1 + crashes + faults
    BY DEF CopiesInv
<1>5. CASE Sealed'
    BY <1>1, <1>2, <1>3, <1>4, <1>5
<1>6. CASE ~Sealed'
    BY <1>1, <1>2, <1>3, <1>4, <1>6
<1> QED BY <1>5, <1>6

\* A new line has one holder, the other lines have no new one.
LEMMA CopiesAppend ==
    ASSUME IInv, TypeOK', CopiesInv, NEW l \in Lines, Append(l) \/ AppendWalError(l)
    PROVE  CopiesInv'
<1> USE DEF files, list, run, calls, losses, limits
<1>0. TypeOK /\ MemoryInv /\ AppendedInv
    BY DEF IInv
<1>1. /\ l \notin appended /\ buffer' = buffer \cup {l} /\ segs' = segs /\ batch' = batch
      /\ walFile' \subseteq walFile \cup buffer \cup {l} /\ ~Sealed /\ ~Sealed'
      /\ crashes' + faults' >= crashes + faults
    <2>1. CASE Append(l)
        BY <1>0, <2>1 DEF Append, WalAfterAppend, Sealed, MemoryInv, TypeOK
    <2>2. CASE AppendWalError(l)
        BY <1>0, <2>2 DEF AppendWalError, Sealed, Fault, MemoryInv, TypeOK
    <2> QED BY <2>1, <2>2
<1>2. {crashes, faults, crashes', faults'} \subseteq Nat
    BY <1>0 DEF TypeOK
<1> SUFFICES ASSUME NEW k \in Lines
             PROVE  Cardinality(Holders(k)') <= 1 + crashes' + faults'
    BY <1>1, <1>2 DEF CopiesInv
<1>3. CASE k = l
    <2>1. Holders(k)' \subseteq {0}
        BY <1>0, <1>1, <1>3 DEF Holders, AppendedInv
    <2>2. IsFiniteSet({0}) /\ Cardinality({0}) = 1
        BY FS_Singleton
    <2>3. Cardinality(Holders(k)') <= 1 /\ Cardinality(Holders(k)') \in Nat
        BY <2>1, <2>2, FS_Subset, FS_CardinalityType
    <2> QED BY <1>2, <2>3
<1>4. CASE k # l
    <2>1. Holders(k)' \subseteq Holders(k)
        BY <1>1, <1>4 DEF Holders
    <2>2. Cardinality(Holders(k)') <= Cardinality(Holders(k))
        BY <2>1, FewerHolders
    <2>3. Cardinality(Holders(k)') \in Nat /\ Cardinality(Holders(k)) \in Nat
        BY <2>1, HoldersType
    <2>4. Cardinality(Holders(k)) <= 1 + crashes + faults
        BY <1>0, <1>1, UnsealedBound
    <2> QED BY <1>1, <1>2, <2>2, <2>3, <2>4
<1> QED BY <1>3, <1>4

\* The new file is one more holder of the lines of the batch, which the WAL or
\* the memory still has.
LEMMA CopiesRename ==
    ASSUME IInv, CopiesInv, Rename
    PROVE  CopiesInv'
<1> USE DEF files, list, run, calls, losses, limits
<1>0. TypeOK /\ IdInv
    BY DEF IInv
<1>1. /\ \A i \in SegId : segs'[i] = IF i = curId THEN batch ELSE segs[i]
      /\ buffer' = buffer /\ batch' = batch /\ walFile' = walFile
      /\ ~Sealed /\ Sealed' /\ crashes' = crashes /\ faults' = faults
      /\ curId \in SegId
    BY <1>0 DEF Rename, Sealed, TypeOK, IdInv, Sealing
<1>2. {crashes, faults} \subseteq Nat
    BY <1>0 DEF TypeOK
<1> SUFFICES ASSUME NEW l \in Lines
             PROVE  /\ Cardinality(Holders(l)') <=
                         1 + crashes + faults + (IF l \in batch THEN 1 ELSE 0)
                    /\ Cardinality(Holders(l)' \ {0}) <= 1 + crashes + faults
    BY <1>1 DEF CopiesInv
<1>3. /\ Cardinality(Holders(l)) <= 1 + crashes + faults
      /\ IsFiniteSet(Holders(l)) /\ Cardinality(Holders(l)) \in Nat
    <2>1. Holders(l) \subseteq Holders(l)
        OBVIOUS
    <2> QED BY <1>0, <1>1, <2>1, HoldersType, UnsealedBound
<1>4. CASE l \in batch
    <2> DEFINE S == Holders(l) \ {0}
    <2>1. 0 \in Holders(l)
        BY <1>4 DEF Holders
    <2>2. IsFiniteSet(S) /\ Cardinality(S) = Cardinality(Holders(l)) - 1
        BY <1>3, <2>1, FS_RemoveElement
    <2>3. /\ IsFiniteSet(S \cup {curId})
          /\ Cardinality(S \cup {curId}) <= Cardinality(Holders(l))
        <3>1. Cardinality(S \cup {curId}) <= Cardinality(S) + 1
            BY <2>2, OneMore
        <3>2. IsFiniteSet(S \cup {curId}) /\ Cardinality(S \cup {curId}) \in Nat
            BY <2>2, OneMore
        <3> QED BY <1>3, <2>2, <3>1, <3>2
    <2>4. /\ IsFiniteSet(Holders(l) \cup {curId})
          /\ Cardinality(Holders(l) \cup {curId}) <= Cardinality(Holders(l)) + 1
        BY <1>3, OneMore
    <2>5. Holders(l)' \subseteq Holders(l) \cup {curId} /\ Holders(l)' \ {0} \subseteq S \cup {curId}
        BY <1>1 DEF Holders
    <2>6. /\ Cardinality(Holders(l)') <= Cardinality(Holders(l) \cup {curId})
          /\ Cardinality(Holders(l)' \ {0}) <= Cardinality(S \cup {curId})
        BY <2>3, <2>4, <2>5, FS_Subset
    <2>7. /\ Cardinality(Holders(l)') \in Nat /\ Cardinality(Holders(l)' \ {0}) \in Nat
          /\ Cardinality(Holders(l) \cup {curId}) \in Nat /\ Cardinality(S \cup {curId}) \in Nat
        BY <2>3, <2>4, <2>5, FS_Subset, FS_CardinalityType
    <2> HIDE DEF S
    <2> QED BY <1>2, <1>3, <1>4, <2>3, <2>4, <2>6, <2>7
<1>5. CASE l \notin batch
    <2>1. Holders(l)' \subseteq Holders(l) /\ Holders(l)' \ {0} \subseteq Holders(l)
        BY <1>1, <1>5 DEF Holders
    <2>2. /\ Cardinality(Holders(l)') <= Cardinality(Holders(l))
          /\ Cardinality(Holders(l)' \ {0}) <= Cardinality(Holders(l))
        BY <1>3, <2>1, FS_Subset
    <2>3. Cardinality(Holders(l)') \in Nat /\ Cardinality(Holders(l)' \ {0}) \in Nat
        BY <1>3, <2>1, HoldersType
    <2> QED BY <1>2, <1>3, <1>5, <2>2, <2>3
<1> QED BY <1>4, <1>5

\* Truncation takes the lines of the batch out of the WAL.
LEMMA CopiesTruncate ==
    ASSUME IInv, CopiesInv, Truncate
    PROVE  CopiesInv'
<1> USE DEF files, list, run, calls, losses, limits
<1>0. TypeOK /\ MemoryInv
    BY DEF IInv
<1>1. /\ segs' = segs /\ buffer' = {} /\ batch' = {} /\ walFile' = {}
      /\ Sealed /\ ~Sealed' /\ crashes' = crashes /\ faults' = faults
    BY <1>0 DEF Truncate, Truncated, Sealed, MemoryInv, Sealing
<1>2. {crashes, faults} \subseteq Nat
    BY <1>0 DEF TypeOK
<1> SUFFICES ASSUME NEW l \in Lines
             PROVE  Cardinality(Holders(l)') <= 1 + crashes + faults
    BY <1>1, <1>2 DEF CopiesInv
<1>3. Holders(l)' \subseteq Holders(l) \ {0}
    BY <1>1 DEF Holders, SegId
<1>4. IsFiniteSet(Holders(l) \ {0})
    BY HoldersType
<1>5. Cardinality(Holders(l)') <= Cardinality(Holders(l) \ {0})
    BY <1>3, <1>4, FS_Subset
<1>6. Cardinality(Holders(l)') \in Nat /\ Cardinality(Holders(l) \ {0}) \in Nat
    BY <1>3, <1>4, FS_Subset, FS_CardinalityType
<1>7. Cardinality(Holders(l) \ {0}) <= 1 + crashes + faults
    BY <1>1 DEF CopiesInv
<1> QED BY <1>2, <1>5, <1>6, <1>7

\* Every step keeps the bounds.
LEMMA CopiesStep ==
    ASSUME IInv, CopiesInv, [Next]_vars
    PROVE  CopiesInv'
<1> USE DEF files, list, run, calls, losses, limits
<1>0. TypeOK /\ MemoryInv /\ TypeOK'
    BY TypeStep DEF IInv
<1>a. {crashes, faults} \subseteq Nat
    BY <1>0 DEF TypeOK
<1>1. ASSUME NEW l \in Lines, Append(l) \/ AppendWalError(l) PROVE CopiesInv'
    BY <1>0, <1>1, CopiesAppend
<1>2. CASE Rename
    BY <1>2, CopiesRename
<1>3. CASE Truncate
    BY <1>3, CopiesTruncate
<1>4. CASE Flush \/ Drain \/ WriteTmp \/ IndexAdd \/ Save \/ UNCHANGED vars
    <2>1. /\ segs' = segs /\ crashes' = crashes /\ faults' = faults
          /\ walFile' \cup buffer' \cup batch' \subseteq walFile \cup buffer \cup batch
        BY <1>0, <1>4 DEF Flush, Drain, WriteTmp, IndexAdd, Save, vars, MemoryInv
    <2>2. \A l \in Lines : Holders(l)' \subseteq Holders(l)
        BY <2>1 DEF Holders
    <2>3. (Sealed' => Sealed /\ batch' = batch) /\ (Sealed => Sealed')
        BY <1>4 DEF Flush, Drain, WriteTmp, IndexAdd, Save, vars, Sealed
    <2> QED BY <1>0, <1>a, <2>1, <2>2, <2>3, CopiesKept
<1>5. CASE Crash \/ FaultStep
    <2>1. crashes' + faults' = crashes + faults + 1
        BY <1>a, <1>5 DEF Crash, FaultStep, DrainError, WriteTmpError, RenameError,
             SaveError, TruncateError, LoseManifest, Fault
    <2>2. /\ segs' = segs
          /\ walFile' \cup buffer' \cup batch' \subseteq walFile \cup buffer \cup batch
        BY <1>0, <1>5 DEF Crash, FaultStep, DrainError, WriteTmpError, RenameError,
             SaveError, TruncateError, LoseManifest, GiveUp, LoseMemory, MemoryInv
    <2>3. \A l \in Lines : Holders(l)' \subseteq Holders(l)
        BY <2>2 DEF Holders
    <2>4. ~Sealed'
        BY <1>5 DEF Crash, FaultStep, DrainError, WriteTmpError, RenameError,
             SaveError, TruncateError, LoseManifest, GiveUp, LoseMemory, Sealed
    <2> QED BY <1>0, <1>a, <2>1, <2>3, <2>4, CopiesKept
<1>6. CASE Panic \/ Shutdown \/ OpenIndex \/ Replay
    <2>1. /\ segs' = segs /\ crashes' = crashes /\ faults' = faults
          /\ walFile' \cup buffer' \cup batch' \subseteq walFile \cup buffer \cup batch
        BY <1>0, <1>6 DEF Panic, Shutdown, OpenIndex, Replay, Recovered, WalAfterDrop,
             LoseMemory, MemoryInv
    <2>2. \A l \in Lines : Holders(l)' \subseteq Holders(l)
        BY <2>1 DEF Holders
    <2>3. ~Sealed' /\ ~Sealed
        BY <1>6 DEF Panic, Shutdown, OpenIndex, Replay, LoseMemory, Sealed
    <2> QED BY <1>0, <1>a, <2>1, <2>2, <2>3, CopiesKept
<1> QED BY <1>1, <1>2, <1>3, <1>4, <1>5, <1>6 DEF Next, EngineStep

\* Nothing holds a line at first.
LEMMA CopiesInit == Init => CopiesInv
<1> SUFFICES ASSUME Init PROVE CopiesInv
    OBVIOUS
<1>1. ~Sealed /\ crashes = 0 /\ faults = 0
    BY DEF Init, Sealed
<1>2. ASSUME NEW l \in Lines PROVE Cardinality(Holders(l)) = 0
    <2>1. Holders(l) = {}
        BY DEF Init, Holders
    <2> QED BY <2>1, FS_EmptySet
<1> QED BY <1>1, <1>2 DEF CopiesInv

\* Between two calls the listed segments and the buffer hold a line at most once,
\* and once more for each stop and each error.
LEMMA CopiesFollow == IInv /\ CopiesInv => CopiesBounded
<1> SUFFICES ASSUME IInv, CopiesInv, pc = "idle", NEW l \in Lines
             PROVE  Copies(l) <= 1 + crashes + faults
    BY DEF CopiesBounded
<1> DEFINE T == {i \in index : l \in segs[i]}
<1>0. TypeOK /\ {crashes, faults} \subseteq Nat
    BY DEF IInv, TypeOK
<1>1. Cardinality(Holders(l)) <= 1 + crashes + faults
    BY <1>0, UnsealedBound DEF Sealed
<1>2. T \subseteq Holders(l) /\ 0 \notin T
    <2>1. index \subseteq SegId
        BY <1>0 DEF TypeOK
    <2>2. 0 \notin SegId
        BY NoId DEF SegId
    <2>3. T \subseteq {i \in SegId : l \in segs[i]}
        BY <2>1
    <2> QED BY <2>1, <2>2, <2>3 DEF Holders
<1>3. /\ IsFiniteSet(T) /\ Cardinality(T) \in Nat /\ Cardinality(T) <= Cardinality(Holders(l))
      /\ Cardinality(Holders(l)) \in Nat
    <2>1. Holders(l) \subseteq Holders(l)
        OBVIOUS
    <2> QED BY <1>2, <2>1, HoldersType, FewerHolders
<1>4. CASE l \in buffer
    <2>1. {l} \cap buffer = {l} /\ T \cup {0} \subseteq Holders(l)
        BY <1>2, <1>4 DEF Holders
    <2>2. Cardinality({l}) = 1
        BY FS_Singleton
    <2>3. Cardinality(T \cup {0}) = Cardinality(T) + 1
        BY <1>2, <1>3, FS_AddElement
    <2>4. Cardinality(T \cup {0}) <= Cardinality(Holders(l))
        BY <2>1, FewerHolders
    <2>5. Copies(l) = Cardinality(T) + 1
        BY <2>1, <2>2 DEF Copies
    <2> QED BY <1>0, <1>1, <1>3, <2>3, <2>4, <2>5
<1>5. CASE l \notin buffer
    <2>1. {l} \cap buffer = {}
        BY <1>5
    <2>2. Copies(l) = Cardinality(T) + 0
        BY <2>1, FS_EmptySet DEF Copies
    <2> QED BY <1>0, <1>1, <1>3, <2>2
<1> QED BY <1>4, <1>5

\* The invariants of the audit hold in every reachable state.
THEOREM AuditInvariance == Spec => []AuditInv
<1>1. Init => IInv /\ AuditInv
    BY InitInv, StatsInit, CopiesInit DEF AuditInv
<1>2. IInv /\ AuditInv /\ [Next]_vars => AuditInv'
    BY StatsStep, CopiesStep DEF AuditInv
<1> QED BY <1>1, <1>2, Invariance, PTL DEF Spec

\* The size totals of an engine that was never cut short are exact, across
\* clean restarts and panics of a flush.
THEOREM TotalsAreExact == Spec => []StatsAreExact
<1>1. IInv /\ AuditInv => StatsAreExact
    BY StatsFollow DEF AuditInv
<1> QED BY <1>1, Invariance, AuditInvariance, PTL

\* A line is in at most one place, and one more for each stop and each error:
\* recovery and the reuse of ids double nothing on their own.
THEOREM CopiesAreBounded == Spec => []CopiesBounded
<1>1. IInv /\ AuditInv => CopiesBounded
    BY CopiesFollow DEF AuditInv
<1> QED BY <1>1, Invariance, AuditInvariance, PTL
===============================================================================
