-------------------------- MODULE DurableFile_proofs --------------------------
(***************************************************************************)
(* Proofs about DurableFile, for every number of writes and both owners.   *)
(***************************************************************************)
EXTENDS DurableFile, TLAPS

LEMMA InitTypeOK == Init => TypeOK
<1>1. Nothing \in Dir
  BY DEF Nothing, Dir, Slot
<1>2. Init => dir \in Dir /\ possible \subseteq Dir /\ dir \in possible
  BY <1>1 DEF Init
<1>3. Init => pc \in Steps /\ starting \in BOOLEAN /\ hurt \in BOOLEAN /\ ruined \in BOOLEAN
  BY DEF Init, Steps
<1>4. Init => mem \in Nat /\ cand \in Nat /\ last \in Nat /\ acked \in Nat /\ prev \in Nat
  BY DEF Init
<1>5. Init => failed \subseteq Nat
  BY DEF Init
<1> QED
  BY <1>2, <1>3, <1>4, <1>5 DEF TypeOK

LEMMA NextTypeOK == TypeOK /\ [Next]_vars => TypeOK'
<1> SUFFICES ASSUME TypeOK, [Next]_vars PROVE TypeOK'
  OBVIOUS
<1> USE DurableAssumption
    DEF TypeOK, Dir, Slot, Steps, WriteSteps, disk, history, SetDir, Loaded,
        ReturnError, Mishap
<1>1. CASE StartAsIs            BY <1>1 DEF StartAsIs
<1>2. CASE StartAndSave         BY <1>2 DEF StartAndSave
<1>3. CASE StartRefused         BY <1>3 DEF StartRefused
<1>4. CASE Mutate               BY <1>4 DEF Mutate
<1>5. CASE WriteTemp            BY <1>5 DEF WriteTemp
<1>6. CASE WriteTempFails       BY <1>6 DEF WriteTempFails
<1>7. CASE RemoveBackup         BY <1>7 DEF RemoveBackup
<1>8. CASE RemoveBackupFails    BY <1>8 DEF RemoveBackupFails
<1>9. CASE Preserve             BY <1>9 DEF Preserve
<1>10. CASE NothingToPreserve    BY <1>10 DEF NothingToPreserve
<1>11. CASE PreserveFails        BY <1>11 DEF PreserveFails
<1>12. CASE Activate             BY <1>12 DEF Activate
<1>13. CASE ActivateFirstFails   BY <1>13 DEF ActivateFirstFails
<1>14. CASE ActivateNextFails    BY <1>14 DEF ActivateNextFails
<1>15. CASE Undo
  <2>1. dir.bak \in Slot /\ Absent \in Slot
    OBVIOUS
  <2>2. [main |-> dir.bak, bak |-> Absent] \in Dir
    BY <2>1
  <2>3. CASE SetDir([main |-> dir.bak, bak |-> Absent])
    BY <1>15, <2>2, <2>3 DEF Undo
  <2>4. CASE UNCHANGED disk
    BY <1>15, <2>4 DEF Undo
  <2> QED BY <1>15, <2>3, <2>4 DEF Undo
<1>16. CASE SyncDir              BY <1>16 DEF SyncDir
<1>17. CASE SyncDirFails         BY <1>17 DEF SyncDirFails
<1>18. CASE Kill                 BY <1>18 DEF Kill
<1>19. CASE PowerLoss            BY <1>19 DEF PowerLoss
<1>20. CASE DamageMain           BY <1>20 DEF DamageMain
<1>21. CASE ShutDown             BY <1>21 DEF ShutDown
<1>22. CASE DamageAll            BY <1>22 DEF DamageAll, Nothing
<1>23. CASE UNCHANGED vars       BY <1>23 DEF vars
<1> QED
  BY <1>1, <1>2, <1>3, <1>4, <1>5, <1>6, <1>7, <1>8, <1>9, <1>10,
     <1>11, <1>12, <1>13, <1>14, <1>15, <1>16, <1>17, <1>18, <1>19,
     <1>20, <1>21, <1>22, <1>23 DEF Next

\* Every reachable state of a durable file is well typed.
THEOREM TypeCorrect == Spec => []TypeOK
  BY InitTypeOK, NextTypeOK, PTL DEF Spec

-----------------------------------------------------------------------------
(* One mishap at a time: nothing acknowledged is lost.                     *)

OneMishap == SecondMishap = FALSE

\* A start finds what has been acknowledged.
Safe(d) == Readable(d) /\ acked <= Loaded(d)

\* The order of the generations.
Order ==
  /\ prev <= acked /\ acked <= last /\ mem <= last /\ cand <= last
  /\ \A d \in possible : /\ d.main \in Nat => acked <= d.main /\ d.main <= last
                         /\ d.bak \in Nat => prev <= d.bak /\ d.bak <= last

\* What is on disk where a start may come next, and what a power loss finds.
OnDisk ==
  /\ ~hurt => \A d \in possible : Safe(d)
  /\ ~hurt /\ pc \in {"down", "idle", "write", "remove", "preserve"}
       => dir.main \in Nat \/ dir = Nothing
  /\ pc \in {"down", "idle", "write", "remove"} => Safe(dir)
  /\ pc = "activateNext" => dir.main = Absent /\ dir.bak # Absent
  /\ pc = "undo" => hurt /\ dir.main = Absent /\ dir.bak \in Nat /\ acked <= dir.bak
  /\ pc = "preserve" /\ dir.main = Absent => dir.bak = Absent
  /\ pc \in {"activateFirst", "activateNext", "sync"} /\ dir.bak \in Nat
       => acked <= dir.bak
  /\ pc = "sync" => dir.main = cand

\* What the process holds in memory.
InMemory ==
  /\ pc # "refused"
  /\ pc # "down" => acked <= mem
  /\ pc \in WriteSteps => acked <= cand
  /\ pc \in WriteSteps /\ ~starting => cand = last
  /\ starting => pc \in WriteSteps

\* Once both files are damaged every start is refused.
Ruin == hurt /\ pc \in {"down", "refused"} /\ ~Readable(dir) /\ possible = {dir} /\ ~starting

IInv == IF ruined THEN Ruin ELSE Order /\ OnDisk /\ InMemory

LEMMA InitIInv == Init => IInv
  BY DurableAssumption
     DEF Init, IInv, Ruin, Order, OnDisk, InMemory, Safe, Readable, Loaded, Nothing, WriteSteps

LEMMA NextIInv == ASSUME OneMishap, TypeOK, IInv, [Next]_vars PROVE IInv'
<1> USE DurableAssumption
    DEF OneMishap, TypeOK, Dir, Slot, Steps, WriteSteps, disk, history, SetDir,
        Readable, Loaded, Nothing, ReturnError, Mishap,
        IInv, Ruin, Order, OnDisk, InMemory, Safe
<1>1. CASE StartAsIs            BY <1>1 DEF StartAsIs
<1>2. CASE StartAndSave         BY <1>2 DEF StartAndSave
<1>3. CASE StartRefused         BY <1>3 DEF StartRefused
<1>4. CASE Mutate               BY <1>4 DEF Mutate
<1>5. CASE WriteTemp            BY <1>5 DEF WriteTemp
<1>6. CASE WriteTempFails       BY <1>6 DEF WriteTempFails
<1>7. CASE RemoveBackup         BY <1>7 DEF RemoveBackup
<1>8. CASE RemoveBackupFails    BY <1>8 DEF RemoveBackupFails
<1>9. CASE Preserve             BY <1>9 DEF Preserve
<1>10. CASE NothingToPreserve    BY <1>10 DEF NothingToPreserve
<1>11. CASE PreserveFails        BY <1>11 DEF PreserveFails
<1>12. CASE Activate             BY <1>12 DEF Activate
<1>13. CASE ActivateFirstFails   BY <1>13 DEF ActivateFirstFails
<1>14. CASE ActivateNextFails    BY <1>14 DEF ActivateNextFails
<1>15. CASE Undo
  <2>0. ~ruined'
    BY <1>15 DEF Undo
  <2>1. dir.main = Absent /\ dir.bak \in Nat /\ acked <= dir.bak /\ dir.bak <= last
    BY <1>15 DEF Undo
  <2>2. CASE SetDir([main |-> dir.bak, bak |-> Absent])
    <3>1. dir' = [main |-> dir.bak, bak |-> Absent] /\ possible' = possible \union {dir'}
      BY <2>2
    <3>2. Order'
      BY <1>15, <2>1, <3>1 DEF Undo
    <3>3. OnDisk'
      BY <1>15, <2>1, <3>1 DEF Undo
    <3>4. InMemory'
      BY <1>15, <2>1, <3>1 DEF Undo
    <3> QED BY <2>0, <3>2, <3>3, <3>4
  <2>3. CASE UNCHANGED disk
    <3>1. dir' = dir /\ possible' = possible
      BY <2>3
    <3>2. Order'
      BY <1>15, <2>1, <3>1 DEF Undo
    <3>3. OnDisk'
      <4>1. hurt' = hurt /\ hurt /\ pc' \in {"down", "idle"} /\ acked' = acked
        BY <1>15 DEF Undo
      <4>2. Readable(dir) /\ Loaded(dir) = dir.bak
        BY <2>1
      <4> QED
        BY <2>1, <3>1, <4>1, <4>2
    <3>4. InMemory'
      BY <1>15, <2>1, <3>1 DEF Undo
    <3> QED BY <2>0, <3>2, <3>3, <3>4
  <2> QED BY <1>15, <2>2, <2>3 DEF Undo
<1>16. CASE SyncDir
  <2>0. ~ruined'
    BY <1>16 DEF SyncDir
  <2>1. Order'
    BY <1>16 DEF SyncDir
  <2>2. OnDisk'
    BY <1>16 DEF SyncDir
  <2>3. InMemory'
    BY <1>16 DEF SyncDir
  <2> QED BY <2>0, <2>1, <2>2, <2>3
<1>17. CASE SyncDirFails         BY <1>17 DEF SyncDirFails
<1>18. CASE Kill                 BY <1>18 DEF Kill
<1>19. CASE PowerLoss            BY <1>19 DEF PowerLoss
<1>20. CASE DamageMain           BY <1>20 DEF DamageMain
<1>21. CASE ShutDown             BY <1>21 DEF ShutDown
<1>22. CASE DamageAll            BY <1>22 DEF DamageAll, Nothing
<1>23. CASE UNCHANGED vars       BY <1>23 DEF vars
<1> QED
  BY <1>1, <1>2, <1>3, <1>4, <1>5, <1>6, <1>7, <1>8, <1>9, <1>10,
     <1>11, <1>12, <1>13, <1>14, <1>15, <1>16, <1>17, <1>18, <1>19,
     <1>20, <1>21, <1>22, <1>23 DEF Next

\* With a single mishap, every directory that a power loss could bring back holds
\* what was acknowledged, or its fallback to the preceding generation.
THEOREM Invariance == ASSUME OneMishap PROVE Spec => []IInv
<1>1. TypeOK /\ IInv /\ [Next]_vars => IInv'
  BY NextIInv
<1> QED
  BY <1>1, InitIInv, TypeCorrect, PTL DEF Spec

\* No acknowledged write is lost, and no start is refused unless both files are
\* damaged, whatever single mishap comes between two writes that succeed.
THEOREM NothingIsLost == ASSUME OneMishap PROVE Spec => []NothingLost
<1>1. TypeOK /\ IInv => NothingLost
  BY DEF IInv, Ruin, InMemory, NothingLost, Serving, TypeOK, Steps
<1> QED
  BY <1>1, TypeCorrect, Invariance, PTL

-----------------------------------------------------------------------------
(* The file implements the register.                                       *)

LEMMA InitRefines == Init => Register!Init
  BY DEF Init, Register!Init, Serving

LEMMA NextRefines ==
  ASSUME TypeOK, IInv, [Next]_vars PROVE [Register!Next]_(Register!vars)
<1> USE DurableAssumption
    DEF TypeOK, Dir, Slot, Steps, WriteSteps, disk, history, SetDir, Readable, Loaded,
        ReturnError, IInv, Ruin, Order, OnDisk, InMemory, Safe, Serving, Register!vars,
        Register!Next, Register!Begin, Register!Acknowledge, Register!Stop,
        Register!Damage, Register!Recover
<1>1. CASE StartAsIs            BY <1>1 DEF StartAsIs
<1>2. CASE StartAndSave         BY <1>2 DEF StartAndSave
<1>3. CASE StartRefused         BY <1>3 DEF StartRefused
<1>4. CASE Mutate               BY <1>4 DEF Mutate
<1>5. CASE WriteTemp            BY <1>5 DEF WriteTemp
<1>6. CASE WriteTempFails       BY <1>6 DEF WriteTempFails
<1>7. CASE RemoveBackup         BY <1>7 DEF RemoveBackup
<1>8. CASE RemoveBackupFails    BY <1>8 DEF RemoveBackupFails
<1>9. CASE Preserve             BY <1>9 DEF Preserve
<1>10. CASE NothingToPreserve    BY <1>10 DEF NothingToPreserve
<1>11. CASE PreserveFails        BY <1>11 DEF PreserveFails
<1>12. CASE Activate             BY <1>12 DEF Activate
<1>13. CASE ActivateFirstFails   BY <1>13 DEF ActivateFirstFails
<1>14. CASE ActivateNextFails    BY <1>14 DEF ActivateNextFails
<1>15. CASE Undo                 BY <1>15 DEF Undo
<1>16. CASE SyncDir              BY <1>16 DEF SyncDir
<1>17. CASE SyncDirFails         BY <1>17 DEF SyncDirFails
<1>18. CASE Kill                 BY <1>18 DEF Kill
<1>19. CASE PowerLoss            BY <1>19 DEF PowerLoss
<1>20. CASE DamageMain           BY <1>20 DEF DamageMain
<1>21. CASE ShutDown             BY <1>21 DEF ShutDown
<1>22. CASE DamageAll            BY <1>22 DEF DamageAll, Nothing
<1>23. CASE UNCHANGED vars       BY <1>23 DEF vars
<1> QED
  BY <1>1, <1>2, <1>3, <1>4, <1>5, <1>6, <1>7, <1>8, <1>9, <1>10,
     <1>11, <1>12, <1>13, <1>14, <1>15, <1>16, <1>17, <1>18, <1>19,
     <1>20, <1>21, <1>22, <1>23 DEF Next

\* With single mishaps a file kept by WriteFile is a register that survives
\* restarts: every step is a step of DurableRegister or changes nothing there.
THEOREM Implements == ASSUME OneMishap PROVE Spec => Refines
<1>1. TypeOK /\ IInv /\ [Next]_vars => [Register!Next]_(Register!vars)
  BY NextRefines
<1> QED
  BY <1>1, InitRefines, TypeCorrect, Invariance, PTL DEF Spec, Refines, Register!Spec
-----------------------------------------------------------------------------
(* What holds after any number of mishaps.                                 *)

\* A generation that failed has no name in any directory a start may find, and
\* the one being written has none before it is activated.
Fresh ==
  /\ mem \notin failed /\ mem <= last
  /\ \A g \in failed : 0 < g /\ g <= last
  /\ \A d \in possible : /\ d.main \in Nat => d.main <= last /\ d.main \notin failed
                         /\ d.bak \in Nat => d.bak <= last /\ d.bak \notin failed
  /\ pc \in WriteSteps => cand <= last /\ cand \notin failed
  /\ pc \in WriteSteps /\ pc # "sync" /\ ~starting =>
       /\ 0 < cand /\ cand # mem
       /\ \A d \in possible : d.main # cand /\ d.bak # cand
  /\ pc = "sync" => dir.main = cand

LEMMA InitFresh == Init => Fresh
  BY DurableAssumption DEF Init, Fresh, Nothing, WriteSteps

LEMMA NextFresh == ASSUME TypeOK, Fresh, [Next]_vars PROVE Fresh'
<1> USE DurableAssumption
    DEF TypeOK, Dir, Slot, Steps, WriteSteps, disk, history, SetDir,
        Readable, Loaded, Nothing, ReturnError, Mishap, Fresh
<1>1. CASE StartAsIs            BY <1>1 DEF StartAsIs
<1>2. CASE StartAndSave         BY <1>2 DEF StartAndSave
<1>3. CASE StartRefused         BY <1>3 DEF StartRefused
<1>4. CASE Mutate               BY <1>4 DEF Mutate
<1>5. CASE WriteTemp            BY <1>5 DEF WriteTemp
<1>6. CASE WriteTempFails       BY <1>6 DEF WriteTempFails
<1>7. CASE RemoveBackup         BY <1>7 DEF RemoveBackup
<1>8. CASE RemoveBackupFails    BY <1>8 DEF RemoveBackupFails
<1>9. CASE Preserve             BY <1>9 DEF Preserve
<1>10. CASE NothingToPreserve   BY <1>10 DEF NothingToPreserve
<1>11. CASE PreserveFails       BY <1>11 DEF PreserveFails
<1>12. CASE Activate            BY <1>12 DEF Activate
<1>13. CASE ActivateFirstFails  BY <1>13 DEF ActivateFirstFails
<1>14. CASE ActivateNextFails   BY <1>14 DEF ActivateNextFails
<1>15. CASE Undo                BY <1>15 DEF Undo
<1>16. CASE SyncDir             BY <1>16 DEF SyncDir
<1>17. CASE SyncDirFails        BY <1>17 DEF SyncDirFails
<1>18. CASE Kill                BY <1>18 DEF Kill
<1>19. CASE PowerLoss           BY <1>19 DEF PowerLoss
<1>20. CASE DamageMain          BY <1>20 DEF DamageMain
<1>21. CASE ShutDown            BY <1>21 DEF ShutDown
<1>22. CASE DamageAll           BY <1>22 DEF DamageAll
<1>23. CASE UNCHANGED vars      BY <1>23 DEF vars
<1> QED
  BY <1>1, <1>2, <1>3, <1>4, <1>5, <1>6, <1>7, <1>8, <1>9, <1>10,
     <1>11, <1>12, <1>13, <1>14, <1>15, <1>16, <1>17, <1>18, <1>19,
     <1>20, <1>21, <1>22, <1>23 DEF Next

\* Whatever mishaps follow each other, the directory and the process stay related
\* as Fresh says: what a save has done so far, WriteFile can still take back.
THEOREM FreshInvariant == Spec => []Fresh
<1>1. TypeOK /\ Fresh /\ [Next]_vars => Fresh'
  BY NextFresh
<1> QED
  BY <1>1, InitFresh, TypeCorrect, PTL DEF Spec

\* Whatever mishaps follow each other, a write that was answered with an error
\* is not seen after a restart, unless the error was that of the last sync.
THEOREM FailuresRolledBack == Spec => []RolledBack
<1>1. Fresh => RolledBack
  BY DEF Fresh, RolledBack
<1> QED
  BY <1>1, FreshInvariant, PTL

\* Whatever mishaps follow each other, a state that readers begin to see is in
\* every directory that a power loss could bring back.
THEOREM SeenIsStored == Spec => StoredBeforeSeen
<1> DEFINE Stored == Serving /\ mem' # mem => \A d \in possible' : Readable(d) /\ Loaded(d) >= mem'
<1>1. ASSUME TypeOK, Fresh, [Next]_vars, Serving, mem' # mem
      PROVE  \A d \in possible' : Readable(d) /\ Loaded(d) >= mem'
  <2>1. SyncDir
    BY <1>1 DEF Next, Serving, StartAsIs, StartAndSave, StartRefused, Mutate, WriteTemp,
                WriteTempFails, RemoveBackup, RemoveBackupFails, Preserve, NothingToPreserve,
                PreserveFails, Activate, ActivateFirstFails, ActivateNextFails, Undo,
                SyncDirFails, Kill, PowerLoss, DamageMain, DamageAll, ShutDown, ReturnError, vars
  <2>2. possible' = {dir} /\ mem' = cand /\ dir.main = cand /\ cand \in Nat
    BY <1>1, <2>1 DEF SyncDir, Fresh, TypeOK
  <2> QED
    BY <2>2 DEF Readable, Loaded
<1>2. TypeOK /\ Fresh /\ [Next]_vars => [Stored]_vars
  BY <1>1
<1> QED
  BY <1>2, FreshInvariant, TypeCorrect, PTL DEF Spec, StoredBeforeSeen
=============================================================================
