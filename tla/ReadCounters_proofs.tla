-------------------------- MODULE ReadCounters_proofs --------------------------
(***************************************************************************)
(* Proofs about ReadCounters, for every set of notes, files, workers,      *)
(* limits and faults.                                                      *)
(***************************************************************************)
EXTENDS ReadCounters, TLAPS

\* Where every read is: in the row, in a buffer, in the batch of a flush or lost.
\* A row that is gone may have taken some along; one that is not created has none.
Exact ==
  /\ ~flushing => batch = None
  /\ \A f \in Files : state[f] # "none" /\ backup.state[f] # "none"
  /\ \A n \in Items :
       /\ lost[n] + pending[n] + batch[n] <= counted[n]
       /\ state[n] # "gone" => count[n] + pending[n] + batch[n] + lost[n] = counted[n]
       /\ state[n] = "none" => counted[n] = 0
       /\ backup.state[n] # "gone" => backup.count[n] = backup.truth[n]
       /\ backup.state[n] = "none" => backup.truth[n] = 0

\* The limits as a backup would bring them back.
LimitsInBackup ==
  \A n \in backup.fresh :
    /\ backup.burn[n] => backup.truth[n] <= 1
    /\ backup.limit[n] > 0 => backup.truth[n] <= backup.limit[n]
    /\ backup.state[n] \in {"live", "trash"} =>
         /\ backup.burn[n] => backup.truth[n] = 0
         /\ backup.limit[n] > 0 => backup.truth[n] < backup.limit[n]

LEMMA InitTypeOK == Init => TypeOK /\ Exact
<1> SUFFICES ASSUME Init PROVE TypeOK /\ Exact
  OBVIOUS
<1>1. None \in Counts /\ \A n \in Items : None[n] = 0
  BY DEF None, Counts
<1>2. state \in [Items -> {"none", "live", "trash", "gone"}] /\ limit \in [Notes -> Limits]
      /\ burn \in [Notes -> BOOLEAN] /\ fresh \subseteq Notes
  BY CounterAssumption DEF Init
<1>3. [n \in Items |-> counted[n] - lost[n]] \in Counts
  BY <1>1 DEF Init, Counts
<1>4. backup \in Backup
  BY <1>1, <1>2, <1>3 DEF Init, Current, Backup
<1>5. TypeOK
  BY <1>1, <1>2, <1>4 DEF Init, TypeOK
<1>6. Exact
  <2>1. /\ backup.state = state /\ backup.count = None
        /\ backup.truth = [n \in Items |-> counted[n] - lost[n]]
    BY DEF Init, Current
  <2>2. \A n \in Items : /\ lost[n] = 0 /\ pending[n] = 0 /\ batch[n] = 0 /\ counted[n] = 0
                         /\ count[n] = 0 /\ backup.count[n] = 0 /\ backup.truth[n] = 0
    <3>1. \A n \in Items : counted[n] - lost[n] = 0
      <4>1. counted = None /\ lost = None
        BY DEF Init
      <4> QED
        BY <1>1, <4>1
    <3> QED
      BY <1>1, <2>1, <3>1 DEF Init
  <2>3. \A f \in Files : f \in Items /\ state[f] = "live"
    BY DEF Init, Items
  <2> QED
    BY <2>1, <2>2, <2>3 DEF Init, Exact
<1> QED
  BY <1>5, <1>6

LEMMA NextTypeOK == TypeOK /\ Exact /\ [Next]_vars => TypeOK'
<1> SUFFICES ASSUME TypeOK, Exact, [Next]_vars PROVE TypeOK'
  OBVIOUS
<1> USE CounterAssumption DEF TypeOK, rows, buffers, history, Counts, Items
<1>0. None \in Counts
  BY DEF None
<1>1. ASSUME NEW n \in Notes, NEW max \in Limits, NEW burns \in BOOLEAN,
             CreateNote(n, max, burns)
      PROVE  TypeOK'
  BY <1>1 DEF CreateNote
<1>2. ASSUME NEW n \in Notes, NEW max \in Limits, NEW burns \in BOOLEAN,
             UpdateNote(n, max, burns)
      PROVE  TypeOK'
  BY <1>2 DEF UpdateNote
<1>3. ASSUME NEW n \in Notes, ReadOrdinary(n) PROVE TypeOK'
  BY <1>3 DEF ReadOrdinary
<1>4. ASSUME NEW n \in Notes, ReadRestricted(n) PROVE TypeOK'
  BY <1>4 DEF ReadRestricted
<1>5. ASSUME NEW n \in Items, MoveItem(n) PROVE TypeOK'
  BY <1>5 DEF MoveItem
<1>6. ASSUME NEW w \in Workers, NEW f \in Files, FindFile(w, f) PROVE TypeOK'
  BY <1>6 DEF FindFile
<1>7. ASSUME NEW w \in Workers, CountDownload(w) PROVE TypeOK'
  <2>1. job[w] \in Items
    BY <1>7 DEF CountDownload
  <2> QED
    BY <1>7, <2>1 DEF CountDownload
<1>8. CASE FlushTake
  BY <1>0, <1>8 DEF FlushTake
<1>9. CASE FlushCommit
  <2>1. \A n \in Items : count[n] + (IF Has(n) THEN batch[n] ELSE 0) \in Nat
    OBVIOUS
  <2>2. count' \in [Items -> Nat]
    BY <1>9, <2>1 DEF FlushCommit
  <2> QED
    BY <1>0, <1>9, <2>2 DEF FlushCommit
<1>10. CASE FlushFails
  <2>1. \A n \in Items : pending[n] + batch[n] \in Nat
    OBVIOUS
  <2>2. pending' \in [Items -> Nat]
    BY <1>10, <2>1 DEF FlushFails
  <2> QED
    BY <1>0, <1>10, <2>2 DEF FlushFails
<1>11. CASE DumpState
  <2>1. [n \in Items |-> counted[n] - lost[n]] \in Counts
    BY DEF Exact
  <2>2. [n \in Items |-> count[n] + pending[n]] \in Counts
    OBVIOUS
  <2>3. backup' \in Backup
    BY <1>11, <2>1, <2>2 DEF DumpState, Current, Backup
  <2> QED
    BY <1>11, <2>3 DEF DumpState
<1>12. CASE ReplaceState
  BY <1>0, <1>12 DEF ReplaceState, Backup
<1>13. CASE Crash
  <2>1. \A n \in Items : lost[n] + pending[n] + batch[n] \in Nat
    OBVIOUS
  <2>2. lost' \in [Items -> Nat]
    BY <1>13, <2>1 DEF Crash
  <2> QED
    BY <1>0, <1>13, <2>2 DEF Crash
<1>14. CASE UNCHANGED vars
  BY <1>14 DEF vars
<1> HIDE DEF TypeOK
<1> QED
  BY <1>1, <1>2, <1>3, <1>4, <1>5, <1>6, <1>7, <1>8, <1>9, <1>10, <1>11, <1>12, <1>13,
     <1>14 DEF Next, Use, Flush

LEMMA NextExact == TypeOK /\ Exact /\ [Next]_vars => Exact'
<1> SUFFICES ASSUME TypeOK, Exact, [Next]_vars PROVE Exact'
  OBVIOUS
<1> USE CounterAssumption DEF TypeOK, Exact, rows, buffers, history, Counts, Items, StoreFree
<1>0. None \in Counts /\ \A n \in Items : None[n] = 0
  BY DEF None
<1>1. ASSUME NEW n \in Notes, NEW max \in Limits, NEW burns \in BOOLEAN,
             CreateNote(n, max, burns)
      PROVE  Exact'
  BY <1>1 DEF CreateNote
<1>2. ASSUME NEW n \in Notes, NEW max \in Limits, NEW burns \in BOOLEAN,
             UpdateNote(n, max, burns)
      PROVE  Exact'
  BY <1>2 DEF UpdateNote
<1>3. ASSUME NEW n \in Notes, ReadOrdinary(n) PROVE Exact'
  BY <1>3 DEF ReadOrdinary
<1>4. ASSUME NEW n \in Notes, ReadRestricted(n) PROVE Exact'
  BY <1>0, <1>4 DEF ReadRestricted
<1>5. ASSUME NEW n \in Items, MoveItem(n) PROVE Exact'
  BY <1>5 DEF MoveItem
<1>6. ASSUME NEW w \in Workers, NEW f \in Files, FindFile(w, f) PROVE Exact'
  BY <1>6 DEF FindFile
<1>7. ASSUME NEW w \in Workers, CountDownload(w) PROVE Exact'
  <2>1. job[w] \in Files
    BY <1>7 DEF CountDownload
  <2> QED
    BY <1>7, <2>1 DEF CountDownload
<1>8. CASE FlushTake
  BY <1>0, <1>8 DEF FlushTake
<1>9. CASE FlushCommit
  BY <1>0, <1>9 DEF FlushCommit, Has
<1>10. CASE FlushFails
  BY <1>0, <1>10 DEF FlushFails
<1>11. CASE DumpState
  BY <1>0, <1>11 DEF DumpState, Current
<1>12. CASE ReplaceState
  BY <1>0, <1>12 DEF ReplaceState, Backup
<1>13. CASE Crash
  BY <1>0, <1>13 DEF Crash
<1>14. CASE UNCHANGED vars
  BY <1>14 DEF vars
<1> HIDE DEF TypeOK, Exact
<1> QED
  BY <1>1, <1>2, <1>3, <1>4, <1>5, <1>6, <1>7, <1>8, <1>9, <1>10, <1>11, <1>12, <1>13,
     <1>14 DEF Next, Use, Flush

\* Every reachable state is well typed, and every read is somewhere.
THEOREM TypeCorrect == Spec => [](TypeOK /\ Exact)
<1>1. TypeOK /\ Exact /\ [Next]_vars => TypeOK' /\ Exact'
  BY NextTypeOK, NextExact
<1> QED
  BY <1>1, InitTypeOK, PTL DEF Spec

\* No read or download is counted twice or forgotten, except what a crash takes.
THEOREM CountsAreExact == Spec => []CountsExact
<1>1. TypeOK /\ Exact => CountsExact
  BY DEF TypeOK, Exact, CountsExact, StoreFree, Has, None, Counts, Items
<1> QED
  BY <1>1, TypeCorrect, PTL

\* A backup holds the exact counts.
THEOREM BackupIsExact == Spec => []BackupExact
<1>1. TypeOK /\ Exact => BackupExact
  BY DEF TypeOK, Exact, BackupExact
<1> QED
  BY <1>1, TypeCorrect, PTL

-----------------------------------------------------------------------------
(* Limits.                                                                 *)

LEMMA NextLimits ==
  ASSUME TypeOK, Exact, TypeOK', Exact', LimitsHold, LimitsInBackup, [Next]_vars
  PROVE  LimitsHold' /\ LimitsInBackup'
<1> USE CounterAssumption DEF TypeOK, Exact, rows, buffers, history, Counts, Items, StoreFree,
        LimitsHold, LimitsInBackup, Has
<1>0. None \in Counts /\ \A n \in Items : None[n] = 0
  BY DEF None
<1>a. \A x \in Limits : x \in Nat
  BY CounterAssumption
<1>1. ASSUME NEW n \in Notes, NEW max \in Limits, NEW burns \in BOOLEAN,
             CreateNote(n, max, burns)
      PROVE  LimitsHold' /\ LimitsInBackup'
  <2>1. counted[n] = 0 /\ count[n] = 0
    BY <1>1 DEF CreateNote
  <2>2. LimitsInBackup'
    BY <1>1 DEF CreateNote
  <2>3. ASSUME NEW m \in fresh, m # n
        PROVE  state'[m] = state[m] /\ limit'[m] = limit[m] /\ burn'[m] = burn[m]
    BY <1>1, <2>3 DEF CreateNote
  <2>4. state'[n] = "live" /\ limit'[n] = max /\ burn'[n] = burns /\ fresh' = fresh
        /\ counted' = counted /\ count' = count
    BY <1>1 DEF CreateNote
  <2> QED
    BY <2>1, <2>2, <2>3, <2>4
<1>2. ASSUME NEW n \in Notes, NEW max \in Limits, NEW burns \in BOOLEAN,
             UpdateNote(n, max, burns)
      PROVE  LimitsHold' /\ LimitsInBackup'
  BY <1>2 DEF UpdateNote
<1>3. ASSUME NEW n \in Notes, ReadOrdinary(n) PROVE LimitsHold' /\ LimitsInBackup'
  BY <1>3 DEF ReadOrdinary, Restricted
<1>4. ASSUME NEW n \in Notes, ReadRestricted(n) PROVE LimitsHold' /\ LimitsInBackup'
  <2> DEFINE total == count[n] + pending[n] + 1
  <2>1. LimitsInBackup'
    BY <1>4 DEF ReadRestricted
  <2>2. ASSUME n \in fresh
        PROVE  /\ burn[n] => counted[n] = 0
               /\ limit[n] > 0 => counted[n] < limit[n] /\ total = counted[n] + 1
    <3>1. Has(n) /\ n \in Items
      BY <1>4 DEF ReadRestricted
    <3>2. limit[n] > 0 => counted[n] < limit[n] /\ count[n] = counted[n]
      BY <2>2, <3>1
    <3>3. count[n] + pending[n] + batch[n] + lost[n] = counted[n]
      BY <3>1
    <3>4. /\ count[n] \in Nat /\ pending[n] \in Nat /\ batch[n] \in Nat /\ lost[n] \in Nat
          /\ counted[n] \in Nat
      BY <3>1
    <3>5. burn[n] => counted[n] = 0
      BY <2>2, <3>1
    <3> HIDE DEF TypeOK, Exact, LimitsHold, LimitsInBackup
    <3> QED
      BY <3>2, <3>3, <3>4, <3>5
  <2>3. /\ state[n] = "live" /\ UNCHANGED <<limit, burn, fresh>>
        /\ counted'[n] = counted[n] + 1
        /\ IF burn[n] \/ total >= limit[n]
             THEN state'[n] = "gone"
             ELSE limit[n] > 0 /\ state'[n] = "live" /\ count'[n] = total
    BY <1>4 DEF ReadRestricted, Restricted
  <2>4. ASSUME NEW m \in fresh, m # n
        PROVE  state'[m] = state[m] /\ count'[m] = count[m] /\ counted'[m] = counted[m]
    BY <1>4, <2>4 DEF ReadRestricted
  <2>5. counted[n] \in Nat /\ limit[n] \in Nat /\ total \in Nat
    <3>1. n \in Items /\ n \in Notes /\ limit[n] \in Limits
      OBVIOUS
    <3>2. counted[n] \in Nat /\ count[n] \in Nat /\ pending[n] \in Nat
      BY <3>1
    <3> QED
      <4>1. limit[n] \in Nat
        BY <1>a, <3>1
      <4>2. total \in Nat
        BY <3>2
      <4> QED
        BY <3>2, <4>1, <4>2
  <2> HIDE DEF total
  <2>6. ASSUME n \in fresh
        PROVE  /\ burn[n] => counted'[n] <= 1 /\ state'[n] = "gone"
               /\ limit[n] > 0 => counted'[n] <= limit[n]
               /\ limit[n] > 0 /\ Has(n)' => counted'[n] < limit[n] /\ count'[n] = counted'[n]
    BY <2>2, <2>3, <2>5, <2>6
  <2>7. LimitsHold'
    <3>1. ASSUME NEW m \in fresh, m # n
          PROVE  /\ burn'[m] => counted'[m] <= 1
                 /\ limit'[m] > 0 => counted'[m] <= limit'[m]
                 /\ Has(m)' /\ burn'[m] => counted'[m] = 0
                 /\ Has(m)' /\ limit'[m] > 0
                      => counted'[m] < limit'[m] /\ count'[m] = counted'[m]
      BY <2>3, <2>4, <3>1
    <3>2. n \in fresh /\ Has(n)' => ~burn[n]
      BY <2>6
    <3> HIDE DEF TypeOK, Exact, LimitsInBackup, Has
    <3> QED
      BY <2>3, <2>6, <3>1, <3>2
  <2> QED
    BY <2>1, <2>7
<1>5. ASSUME NEW n \in Items, MoveItem(n) PROVE LimitsHold' /\ LimitsInBackup'
  BY <1>5 DEF MoveItem
<1>6. ASSUME NEW w \in Workers, NEW f \in Files, FindFile(w, f)
      PROVE  LimitsHold' /\ LimitsInBackup'
  BY <1>6 DEF FindFile
<1>7. ASSUME NEW w \in Workers, CountDownload(w) PROVE LimitsHold' /\ LimitsInBackup'
  <2>1. job[w] \in Files
    BY <1>7 DEF CountDownload
  <2> QED
    BY <1>7, <2>1 DEF CountDownload
<1>8. CASE FlushTake
  BY <1>0, <1>8 DEF FlushTake
<1>9. CASE FlushCommit
  <2>1. LimitsInBackup'
    BY <1>9 DEF FlushCommit
  <2>2. ASSUME NEW n \in fresh, Has(n), limit[n] > 0 PROVE count'[n] = count[n]
    <3>1. n \in Items /\ state[n] # "gone" /\ count[n] = counted[n]
      BY <2>2
    <3>2. count[n] + pending[n] + batch[n] + lost[n] = counted[n]
      BY <3>1
    <3>3. /\ count[n] \in Nat /\ pending[n] \in Nat /\ batch[n] \in Nat
          /\ lost[n] \in Nat /\ counted[n] \in Nat
      BY <3>1
    <3> HIDE DEF TypeOK, Exact, LimitsHold, LimitsInBackup, Has
    <3>4. batch[n] = 0
      BY <3>1, <3>2, <3>3
    <3> QED
      BY <1>9, <3>1, <3>3, <3>4 DEF FlushCommit, TypeOK
  <2>3. UNCHANGED <<fresh, state, limit, burn, counted>>
    BY <1>9 DEF FlushCommit
  <2> QED
    BY <2>1, <2>2, <2>3
<1>10. CASE FlushFails
  BY <1>0, <1>10 DEF FlushFails
<1>11. CASE DumpState
  <2>1. UNCHANGED <<state, count, limit, burn, pending, counted, lost, fresh>>
    BY <1>11 DEF DumpState
  <2>2. /\ backup'.state = state /\ backup'.limit = limit /\ backup'.burn = burn
        /\ backup'.fresh = fresh
        /\ \A n \in Items : backup'.truth[n] = counted[n] - lost[n]
    BY <1>11 DEF DumpState, Current
  <2>3. LimitsHold'
    BY <2>1
  <2>4. ASSUME NEW n \in fresh
        PROVE  /\ backup'.truth[n] \in Nat /\ backup'.truth[n] <= counted[n]
               /\ counted[n] \in Nat /\ limit[n] \in Nat
    <3>1. n \in Items /\ n \in Notes
      OBVIOUS
    <3>2. /\ counted[n] \in Nat /\ lost[n] \in Nat /\ pending[n] \in Nat /\ batch[n] \in Nat
          /\ lost[n] + pending[n] + batch[n] <= counted[n] /\ limit[n] \in Limits
      BY <3>1
    <3>3. backup'.truth[n] = counted[n] - lost[n]
      BY <2>2, <3>1
    <3> HIDE DEF TypeOK, Exact, LimitsHold, LimitsInBackup
    <3> QED
      <4>1. limit[n] \in Nat
        BY <1>a, <3>2
      <4>2. counted[n] - lost[n] \in Nat /\ counted[n] - lost[n] <= counted[n]
        BY <3>2
      <4> QED
        BY <3>2, <3>3, <4>1, <4>2
  <2>5. LimitsInBackup'
    BY <2>2, <2>4
  <2> QED
    BY <2>3, <2>5
<1>12. CASE ReplaceState
  BY <1>0, <1>12 DEF ReplaceState, Backup
<1>13. CASE Crash
  BY <1>0, <1>13 DEF Crash
<1>14. CASE UNCHANGED vars
  BY <1>14 DEF vars
<1> HIDE DEF TypeOK, Exact, LimitsHold, LimitsInBackup
<1> QED
  BY <1>1, <1>2, <1>3, <1>4, <1>5, <1>6, <1>7, <1>8, <1>9, <1>10, <1>11, <1>12, <1>13,
     <1>14 DEF Next, Use, Flush

\* A note is read no more often than the limits it was created with allow.
THEOREM LimitsAreKept == Spec => []LimitsHold
<1>1. Init => LimitsHold /\ LimitsInBackup
  BY DEF Init, LimitsHold, LimitsInBackup, Current, None, Items
<1>2. TypeOK /\ Exact /\ (TypeOK /\ Exact)' /\ LimitsHold /\ LimitsInBackup /\ [Next]_vars
        => LimitsHold' /\ LimitsInBackup'
  BY NextLimits
<1> QED
  BY <1>1, <1>2, TypeCorrect, PTL DEF Spec
=============================================================================
