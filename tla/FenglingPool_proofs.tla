------------------------- MODULE FenglingPool_proofs -------------------------
(***************************************************************************)
(* The server's pool for every size of its table and every finite set of   *)
(* process ids: how many workers there can be, where they are recorded,    *)
(* and that a clearing of the pool reaches them.                           *)
(***************************************************************************)
EXTENDS FenglingPool, FiniteSetTheorems, TLAPS

-----------------------------------------------------------------------------
(* The inductive invariant. *)

\* From ScanVacant to SetPid the master has an entry nobody else fills, and it has
\* recorded a child before it forks the next; a master that died there leaves both.
EntryHeld ==
    /\ master \in {"fork", "setpid"} \/ child # 0 => cnt \in Entries /\ pool[cnt] = 0
    /\ child # 0 => master \in {"setpid", "dead"}
    /\ master = "setpid" => child \in Pids

\* Workers the clearing of the pool would not find, and the most of them there can
\* be: what the further starts have wiped out so far, entry by entry.
Unrecorded == Live \ (Recorded \cup {child})

Wiped == IF starter = None THEN SMaxPoll * starts ELSE SMaxPoll * (starts - 1) + starter

WipedOnly == /\ starter # None => starts > 0
             /\ Cardinality(Unrecorded) <= Wiped

\* A SIGTERM is pending or being handled.
Doomed(p) == p \in pending \/ clearing[p] # None
DoomedNext(p) == p \in pending' \/ clearing'[p] # None

\* A handler that has walked to an entry has doomed the workers of those before it,
\* and they stay doomed: after the master's death nobody records another.
ClearedSoFar ==
    /\ \A p \in Pids : clearing[p] # None =>
          /\ master = "dead"
          /\ \A i \in Entries : i < clearing[p] /\ pool[i] \in Live => Doomed(pool[i])
    /\ removed => master = "dead" /\ ClearReachesRecorded

PoolInv == TypeOK /\ EntryHeld /\ WipedOnly /\ ClearedSoFar

-----------------------------------------------------------------------------
\* The sizes one by one.
LEMMA Sizes == /\ SMaxPoll \in Nat /\ SMaxPoll > 0 /\ 0 \in Entries
               /\ \A i \in Entries : i \in Nat /\ i < SMaxPoll /\ i \in 0 .. SMaxPoll /\ i + 1 \in 0 .. SMaxPoll
               /\ \A i \in 0 .. SMaxPoll : i < SMaxPoll => i \in Entries /\ i + 1 \in 0 .. SMaxPoll
               /\ \A i \in 0 .. SMaxPoll : i \in Nat
               /\ \A p \in Pids : p \in Nat /\ p # 0
               /\ IsFiniteSet(Pids)
               /\ MaxDeaths \in Nat /\ MaxStarts \in Nat /\ MaxForeign \in Nat
BY PoolAssumption, PidAssumption, BoundAssumption DEF Entries

\* The inductive invariant holds at the start.
LEMMA InitPool == Init => PoolInv
<1> SUFFICES ASSUME Init PROVE PoolInv
    OBVIOUS
<1>1. TypeOK
    <2>1. 0 \in 0 .. SMaxPoll /\ 0 \in 0 .. MaxDeaths /\ 0 \in 0 .. MaxStarts /\ 0 \in 0 .. MaxForeign
        BY Sizes
    <2> QED BY <2>1, Zenon DEF Init, TypeOK
<1>2. EntryHeld
    BY DEF Init, EntryHeld
<1>3. Unrecorded = {} /\ starts = 0 /\ starter = None
    BY DEF Init, Unrecorded, Live, None
<1>4. WipedOnly
    BY <1>3, FS_EmptySet, Sizes DEF WipedOnly, Wiped
<1>5. ClearedSoFar
    BY DEF Init, ClearedSoFar
<1> QED BY <1>1, <1>2, <1>4, <1>5 DEF PoolInv

-----------------------------------------------------------------------------
\* What Vanish keeps of the types.
LEMMA VanishTypes ==
    ASSUME TypeOK, NEW P, Vanish(P)
    PROVE  /\ proc' \in [Pids -> {"free", "new", "worker", "foreign"}]
           /\ pending' \subseteq Pids
           /\ clearing' \in [Pids -> {None} \cup 0 .. SMaxPoll]
BY DEF TypeOK, Vanish

\* Types.
LEMMA Types == TypeOK /\ EntryHeld /\ [Next]_vars => TypeOK'
<1> SUFFICES ASSUME TypeOK, EntryHeld, [Next]_vars PROVE TypeOK'
    OBVIOUS
<1> USE Sizes
<1>1. CASE ScanTaken
    BY <1>1 DEF ScanTaken, TypeOK, procVars, counters
<1>2. CASE ScanVacant
    BY <1>2 DEF ScanVacant, TypeOK, procVars, counters
<1>3. CASE Sleep
    BY <1>3 DEF Sleep, TypeOK, procVars, counters
<1>4. CASE ForkFails
    BY <1>4 DEF ForkFails, TypeOK, procVars, counters
<1>5. CASE SetPid
    BY <1>5 DEF SetPid, Recording, TypeOK, procVars, counters
<1>6. CASE Fork
    BY <1>6 DEF Fork, TypeOK, counters
<1>7. CASE TermMaster
    BY <1>7 DEF TermMaster, TypeOK, procVars, counters
<1>8. ASSUME NEW p \in Pids, Install(p) PROVE TypeOK'
    BY <1>8 DEF Install, TypeOK, masterVars, counters
<1>9. ASSUME NEW p \in Pids, Crash(p) PROVE TypeOK'
    BY <1>9, VanishTypes DEF Crash, TypeOK, masterVars
<1>10. ASSUME NEW p \in Pids, TermWorker(p) PROVE TypeOK'
    BY <1>10 DEF TermWorker, TypeOK, masterVars
<1>11. ASSUME NEW p \in Pids, DeliverDefault(p) \/ DeliverWithParent(p) \/ ForeignEnd(p)
       PROVE  TypeOK'
    <2>1. Vanish({p}) /\ UNCHANGED <<pool, masterVars, removed, starter, counters>>
        BY <1>11 DEF DeliverDefault, DeliverWithParent, ForeignEnd
    <2> QED BY <2>1, VanishTypes DEF TypeOK, masterVars, counters
<1>12. ASSUME NEW p \in Pids, DeliverOrphan(p) PROVE TypeOK'
    BY <1>12 DEF DeliverOrphan, DeliverFrom, TypeOK, masterVars, counters
<1>13. ASSUME NEW p \in Pids, ClearEntry(p) PROVE TypeOK'
    BY <1>13 DEF ClearEntry, Exists, TypeOK, masterVars, counters
<1>14. ASSUME NEW p \in Pids, ClearEnd(p) PROVE TypeOK'
    BY <1>14, VanishTypes DEF ClearEnd, TypeOK, masterVars, counters
<1>15. ASSUME NEW p \in Pids, ForeignStart(p) PROVE TypeOK'
    BY <1>15 DEF ForeignStart, TypeOK, masterVars
<1>16. CASE Start
    BY <1>16 DEF Start, TypeOK, procVars, masterVars
<1>17. CASE StartClears
    BY <1>17 DEF StartClears, TypeOK, procVars, masterVars, counters, Entries
<1>18. CASE UNCHANGED vars
    BY <1>18 DEF vars, TypeOK, procVars, masterVars, counters
<1> QED
    BY <1>1, <1>2, <1>3, <1>4, <1>5, <1>6, <1>7, <1>8, <1>9, <1>10, <1>11, <1>12, <1>13, <1>14,
       <1>15, <1>16, <1>17, <1>18 DEF Next, Master, Handler

-----------------------------------------------------------------------------
\* Only the master fills entries.
LEMMA Held == TypeOK /\ EntryHeld /\ [Next]_vars => EntryHeld'
<1> SUFFICES ASSUME TypeOK, EntryHeld, [Next]_vars PROVE EntryHeld'
    OBVIOUS
<1> USE Sizes
<1>0. ASSUME UNCHANGED <<cnt, child, master>>, pool' = pool \/ \E i \in Entries : pool' = [pool EXCEPT ![i] = 0]
      PROVE  EntryHeld'
    BY <1>0 DEF EntryHeld, TypeOK
<1>1. CASE ScanTaken
    BY <1>1 DEF ScanTaken, EntryHeld
<1>2. CASE ScanVacant
    BY <1>2 DEF ScanVacant, EntryHeld, TypeOK
<1>3. CASE Sleep
    BY <1>3 DEF Sleep, EntryHeld
<1>4. CASE ForkFails
    BY <1>4 DEF ForkFails, EntryHeld
<1>5. CASE SetPid
    BY <1>5 DEF SetPid, Recording, EntryHeld
<1>6. CASE Fork
    BY <1>6 DEF Fork, EntryHeld
<1>7. CASE TermMaster
    BY <1>7 DEF TermMaster, EntryHeld
<1>8. ASSUME NEW p \in Pids,
             \/ Install(p) \/ Crash(p) \/ TermWorker(p) \/ Handler(p)
             \/ ForeignStart(p) \/ ForeignEnd(p)
      PROVE  EntryHeld'
    BY <1>0, <1>8 DEF Install, Crash, TermWorker, Handler, DeliverDefault, DeliverWithParent, DeliverOrphan,
                      DeliverFrom, ClearEntry, ClearEnd, ForeignStart, ForeignEnd, masterVars
<1>9. CASE Start \/ StartClears
    BY <1>0, <1>9 DEF Start, StartClears, masterVars
<1>10. CASE UNCHANGED vars
    BY <1>0, <1>10 DEF vars, masterVars
<1> QED BY <1>1, <1>2, <1>3, <1>4, <1>5, <1>6, <1>7, <1>8, <1>9, <1>10 DEF Next, Master

-----------------------------------------------------------------------------
\* Only wiping an entry leaves a worker unrecorded.
LEMMA UnrecordedShrinks ==
    TypeOK /\ EntryHeld /\ [Next]_vars =>
        \/ StartClears /\ Unrecorded' \subseteq Unrecorded \cup {pool[starter]}
        \/ ~StartClears /\ Unrecorded' \subseteq Unrecorded
<1> SUFFICES ASSUME TypeOK, EntryHeld, [Next]_vars
             PROVE  IF StartClears THEN Unrecorded' \subseteq Unrecorded \cup {pool[starter]}
                                   ELSE Unrecorded' \subseteq Unrecorded
    BY Zenon
<1> USE Sizes
<1>0. ASSUME UNCHANGED <<pool, child>>, Live' \subseteq Live PROVE Unrecorded' \subseteq Unrecorded
    BY <1>0 DEF Unrecorded, Recorded
<1>1. CASE ScanTaken \/ Sleep \/ ForkFails \/ TermMaster \/ Start \/ UNCHANGED vars
    BY <1>0, <1>1 DEF ScanTaken, Sleep, ForkFails, TermMaster, Start, vars, masterVars, procVars, Live
<1>2. CASE ScanVacant
    <2>1. Live' = Live /\ child' = child
        BY <1>2 DEF ScanVacant, procVars, Live
    <2>2. ASSUME NEW p \in Live, p \in Recorded PROVE p \in Recorded'
        <3>1. PICK i \in Entries : p = pool[i]
            BY <2>2 DEF Recorded
        <3>2. i # cnt
            BY <1>2, <2>2, <3>1 DEF ScanVacant, Vacant, Exists, Live
        <3>3. pool'[i] = p
            BY <1>2, <3>1, <3>2 DEF ScanVacant, TypeOK
        <3> QED BY <3>3 DEF Recorded
    <2> QED BY <2>1, <2>2 DEF Unrecorded
<1>3. CASE SetPid
    <2>1. Live' = Live /\ cnt \in Entries /\ pool[cnt] = 0 /\ pool' = [pool EXCEPT ![cnt] = child]
        BY <1>3 DEF SetPid, Recording, procVars, Live, EntryHeld
    <2>2. child \in Recorded'
        BY <2>1 DEF Recorded, TypeOK
    <2>3. ASSUME NEW p \in Live, p \in Recorded PROVE p \in Recorded'
        <3>1. PICK i \in Entries : p = pool[i]
            BY <2>3 DEF Recorded
        <3>2. i # cnt
            BY <2>1, <2>3, <3>1 DEF Live
        <3>3. pool'[i] = p
            BY <2>1, <3>1, <3>2 DEF TypeOK
        <3> QED BY <3>3 DEF Recorded
    <2> QED BY <2>1, <2>2, <2>3 DEF Unrecorded
<1>4. CASE Fork
    <2>1. pool' = pool /\ child = 0
        BY <1>4 DEF Fork, EntryHeld
    <2>2. Live' \subseteq Live \cup {child'}
        BY <1>4 DEF Fork, Live, TypeOK
    <2>3. 0 \notin Live
        BY DEF Live
    <2> QED BY <2>1, <2>2, <2>3 DEF Unrecorded, Recorded
<1>5. ASSUME NEW p \in Pids,
             \/ Install(p) \/ TermWorker(p) \/ DeliverOrphan(p) \/ ClearEntry(p) \/ ForeignStart(p)
      PROVE  UNCHANGED <<pool, child>> /\ Live' \subseteq Live
    <2>1. UNCHANGED <<pool, child>>
        BY <1>5 DEF Install, TermWorker, DeliverOrphan, DeliverFrom, ClearEntry, ForeignStart, masterVars
    <2>2. \/ proc' = proc
          \/ proc' = [proc EXCEPT ![p] = "worker"] /\ p \in Live
          \/ proc' = [proc EXCEPT ![p] = "foreign"]
        BY <1>5 DEF Install, TermWorker, DeliverOrphan, DeliverFrom, ClearEntry, ForeignStart, Live
    <2>3. Live' \subseteq Live
        BY <2>2 DEF Live, TypeOK
    <2> QED BY <2>1, <2>3
<1>6. ASSUME NEW p \in Pids,
             Crash(p) \/ DeliverDefault(p) \/ DeliverWithParent(p) \/ ClearEnd(p) \/ ForeignEnd(p)
      PROVE  UNCHANGED <<pool, child>> /\ Live' \subseteq Live
    <2>1. Vanish({p}) /\ UNCHANGED <<pool, child>>
        BY <1>6 DEF Crash, DeliverDefault, DeliverWithParent, ClearEnd, ForeignEnd, masterVars
    <2>2. Live' \subseteq Live
        BY <2>1 DEF Vanish, Live, TypeOK
    <2> QED BY <2>1, <2>2
<1>7. CASE StartClears
    <2>1. Live' = Live /\ child' = child /\ starter \in Entries /\ pool' = [pool EXCEPT ![starter] = 0]
        BY <1>7 DEF StartClears, procVars, masterVars, Live
    <2>2. ASSUME NEW p \in Recorded, p # pool[starter] PROVE p \in Recorded'
        <3>1. PICK i \in Entries : p = pool[i]
            BY <2>2 DEF Recorded
        <3>2. pool'[i] = p
            BY <2>1, <2>2, <3>1 DEF TypeOK
        <3> QED BY <3>2 DEF Recorded
    <2> QED BY <1>7, <2>1, <2>2 DEF Unrecorded
<1>8. ~StartClears \/ StartClears
    OBVIOUS
<1>9. StartClears => Unrecorded' \subseteq Unrecorded \cup {pool[starter]}
    BY <1>7
<1> QED
    BY <1>0, <1>1, <1>2, <1>3, <1>4, <1>5, <1>6, <1>9 DEF Next, Master, Handler

\* The count of wiped entries follows a start's loop.
LEMMA StarterSteps ==
    TypeOK /\ WipedOnly /\ [Next]_vars =>
        /\ starter' # None => starts' > 0
        /\ Wiped' \in Nat /\ Wiped \in Nat
        /\ Wiped' = IF StartClears THEN Wiped + 1 ELSE Wiped
<1> SUFFICES ASSUME TypeOK, WipedOnly, [Next]_vars
             PROVE  /\ starter' # None => starts' > 0
                    /\ Wiped' \in Nat /\ Wiped \in Nat
                    /\ Wiped' = IF StartClears THEN Wiped + 1 ELSE Wiped
    OBVIOUS
<1> USE Sizes
<1>0. SMaxPoll * starts \in Nat /\ starts \in Nat
    BY DEF TypeOK
<1>a. SMaxPoll * (starts - 1) = SMaxPoll * starts - SMaxPoll /\ SMaxPoll * (starts + 1) = SMaxPoll * starts + SMaxPoll
    BY <1>0
<1>b. starts > 0 => SMaxPoll * (starts - 1) \in Nat
    <2>1. starts > 0 => starts - 1 \in Nat
        BY <1>0
    <2> QED BY <2>1
<1>c. Wiped \in Nat
    BY <1>0, <1>b DEF Wiped, WipedOnly, TypeOK, None
<1>1. CASE Start
    <2>1. starter = None /\ starter' = 0 /\ starts' = starts + 1
        BY <1>1 DEF Start
    <2>2. Wiped = SMaxPoll * starts /\ Wiped' = SMaxPoll * ((starts + 1) - 1) + 0
        BY <2>1 DEF Wiped, None
    <2>3. (starts + 1) - 1 = starts
        BY <1>0
    <2>4. Wiped' = Wiped
        BY <1>0, <2>2, <2>3
    <2>5. ~StartClears
        BY <2>1, Sizes DEF StartClears, None
    <2> QED BY <1>0, <1>c, <2>1, <2>4, <2>5
<1>2. CASE StartClears
    <2>1. starter \in Nat /\ starter # None /\ starts' = starts
        BY <1>2 DEF StartClears, counters, None
    <2>2. Wiped = SMaxPoll * starts - SMaxPoll + starter
        BY <1>a, <2>1 DEF Wiped
    <2>3. Wiped' = Wiped + 1
        <3>1. CASE starter + 1 = SMaxPoll
            <4>1. Wiped' = SMaxPoll * starts
                BY <1>2, <2>1, <3>1 DEF StartClears, Wiped
            <4> QED BY <1>0, <2>1, <2>2, <3>1, <4>1
        <3>2. CASE starter + 1 # SMaxPoll
            <4>1. starter' = starter + 1 /\ starter' # None
                BY <1>2, <2>1, <3>2 DEF StartClears, None
            <4>2. Wiped' = SMaxPoll * (starts - 1) + (starter + 1)
                BY <2>1, <4>1 DEF Wiped
            <4> QED BY <1>0, <1>a, <2>1, <2>2, <4>2
        <3> QED BY <3>1, <3>2
    <2> QED BY <1>2, <1>c, <2>1, <2>3 DEF WipedOnly
<1>3. CASE ~Start /\ ~StartClears
    <2>1. starter' = starter /\ starts' = starts
        BY <1>3 DEF Next, Master, Handler, ScanTaken, ScanVacant, Sleep, ForkFails, SetPid, Recording, Fork,
            TermMaster, Install, Crash, TermWorker, DeliverDefault, DeliverWithParent, DeliverOrphan,
            DeliverFrom, ClearEntry, ClearEnd, ForeignStart, ForeignEnd, vars, counters
    <2>2. Wiped' = Wiped
        BY <2>1 DEF Wiped
    <2> QED BY <1>3, <1>c, <2>1, <2>2 DEF WipedOnly
<1> QED BY <1>1, <1>2, <1>3

\* So it can be counted.
LEMMA UnrecordedFinite == TypeOK => IsFiniteSet(Unrecorded)
BY Sizes, FS_Subset DEF Unrecorded, Live

\* One worker for each entry wiped, at most.
LEMMA Wipes == TypeOK /\ EntryHeld /\ WipedOnly /\ [Next]_vars => WipedOnly'
<1> SUFFICES ASSUME TypeOK, EntryHeld, WipedOnly, [Next]_vars PROVE WipedOnly'
    OBVIOUS
<1>1. IsFiniteSet(Unrecorded) /\ Cardinality(Unrecorded) \in Nat
    BY UnrecordedFinite, FS_CardinalityType
<1>2. CASE StartClears
    <2>1. Unrecorded' \subseteq Unrecorded \cup {pool[starter]}
        BY <1>2, UnrecordedShrinks
    <2>2. /\ IsFiniteSet(Unrecorded \cup {pool[starter]})
          /\ Cardinality(Unrecorded \cup {pool[starter]}) <= Cardinality(Unrecorded) + 1
        BY <1>1, FS_AddElement
    <2>3. Cardinality(Unrecorded') <= Cardinality(Unrecorded \cup {pool[starter]})
        BY <2>1, <2>2, FS_Subset
    <2>4. /\ Cardinality(Unrecorded') \in Nat
          /\ Cardinality(Unrecorded \cup {pool[starter]}) \in Nat
        BY <2>1, <2>2, FS_Subset, FS_CardinalityType
    <2> QED BY <1>1, <1>2, <2>2, <2>3, <2>4, StarterSteps DEF WipedOnly
<1>3. CASE ~StartClears
    <2>1. Unrecorded' \subseteq Unrecorded
        BY <1>3, UnrecordedShrinks
    <2>2. Cardinality(Unrecorded') \in Nat /\ Cardinality(Unrecorded') <= Cardinality(Unrecorded)
        BY <1>1, <2>1, FS_Subset, FS_CardinalityType
    <2> QED BY <1>1, <1>3, <2>2, StarterSteps DEF WipedOnly
<1> QED BY <1>2, <1>3

-----------------------------------------------------------------------------
\* Once the master is dead nothing is forked, entries are at most wiped, and a
\* SIGTERM stays pending or in its handler while its process lives.
LEMMA Orphaned ==
    TypeOK /\ EntryHeld /\ master = "dead" /\ [Next]_vars =>
        /\ master' = "dead"
        /\ Live' \subseteq Live
        /\ \A i \in Entries : pool'[i] \in {pool[i], 0}
        /\ \A p \in Live' : Doomed(p) => DoomedNext(p)
<1> SUFFICES ASSUME TypeOK, master = "dead", [Next]_vars
             PROVE  /\ master' = "dead"
                    /\ Live' \subseteq Live
                    /\ \A i \in Entries : pool'[i] \in {pool[i], 0}
                    /\ \A p \in Live' : Doomed(p) => DoomedNext(p)
    OBVIOUS
<1> USE Sizes
<1>1. ~Master /\ ~Fork /\ ~TermMaster
    BY DEF Master, ScanTaken, ScanVacant, Sleep, ForkFails, SetPid, Recording, Fork, TermMaster
<1>2. ASSUME NEW p \in Pids,
             \/ Install(p) \/ TermWorker(p) \/ ClearEntry(p) \/ ForeignStart(p) \/ DeliverOrphan(p)
      PROVE  /\ master' = "dead" /\ pool' = pool
             /\ Live' \subseteq Live
             /\ \A q \in Live' : Doomed(q) => DoomedNext(q)
    <2>1. master' = "dead" /\ pool' = pool
        BY <1>2 DEF Install, TermWorker, ClearEntry, ForeignStart, DeliverOrphan, DeliverFrom, masterVars
    <2>2. \/ proc' = proc
          \/ proc' = [proc EXCEPT ![p] = "worker"] /\ p \in Live
          \/ proc' = [proc EXCEPT ![p] = "foreign"]
        BY <1>2 DEF Install, TermWorker, DeliverOrphan, DeliverFrom, ClearEntry, ForeignStart, Live
    <2>3. Live' \subseteq Live
        BY <2>2 DEF Live, TypeOK
    <2>4. \/ pending \subseteq pending' /\ clearing' = clearing
          \/ /\ pending \subseteq pending' \cup {p}
             /\ \E k \in 0 .. SMaxPoll : clearing' = [clearing EXCEPT ![p] = k]
          \/ ClearEntry(p)
        BY <1>2 DEF Install, TermWorker, ForeignStart, DeliverOrphan, DeliverFrom
    <2>5. ClearEntry(p) => /\ pending \subseteq pending'
                           /\ \E k \in 0 .. SMaxPoll : clearing' = [clearing EXCEPT ![p] = k]
        BY DEF ClearEntry
    <2>6. \A k \in 0 .. SMaxPoll : k # None
        BY DEF None
    <2>7. \A q \in Live' : Doomed(q) => DoomedNext(q)
        <3> SUFFICES ASSUME NEW q \in Pids, Doomed(q) PROVE DoomedNext(q)
            BY DEF Live
        <3>1. CASE clearing' = clearing
            BY <2>4, <2>5, <2>6, <3>1 DEF Doomed, DoomedNext, TypeOK
        <3>2. CASE pending \subseteq pending' \cup {p} /\ \E k \in 0 .. SMaxPoll : clearing' = [clearing EXCEPT ![p] = k]
            BY <2>6, <3>2 DEF Doomed, DoomedNext, TypeOK
        <3> QED BY <2>4, <2>5, <3>1, <3>2
    <2> QED BY <2>1, <2>3, <2>7
<1>3. ASSUME NEW p \in Pids,
             Crash(p) \/ DeliverDefault(p) \/ DeliverWithParent(p) \/ ClearEnd(p) \/ ForeignEnd(p)
      PROVE  /\ master' = "dead" /\ pool' = pool
             /\ Live' \subseteq Live
             /\ \A q \in Live' : Doomed(q) => DoomedNext(q)
    <2>1. Vanish({p}) /\ pool' = pool /\ master' = "dead"
        BY <1>3 DEF Crash, DeliverDefault, DeliverWithParent, ClearEnd, ForeignEnd, masterVars
    <2>2. Live' \subseteq Live \ {p}
        BY <2>1 DEF Vanish, Live, TypeOK
    <2>3. \A q \in Live' : Doomed(q) => DoomedNext(q)
        BY <2>1, <2>2 DEF Vanish, Doomed, DoomedNext, TypeOK, Live
    <2> QED BY <2>1, <2>2, <2>3
<1>4. CASE Start \/ StartClears \/ UNCHANGED vars
    <2>1. UNCHANGED <<proc, pending, clearing, master>> /\ (pool' = pool \/ \E i \in Entries : pool' = [pool EXCEPT ![i] = 0])
        BY <1>4 DEF Start, StartClears, vars, procVars, masterVars
    <2>2. Live' = Live
        BY <2>1 DEF Live
    <2>3. \A p \in Live : Doomed(p) => DoomedNext(p)
        BY <2>1 DEF Doomed, DoomedNext
    <2>4. \A i \in Entries : pool'[i] \in {pool[i], 0}
        BY <2>1 DEF TypeOK
    <2> QED BY <2>1, <2>2, <2>3, <2>4
<1> QED BY <1>1, <1>2, <1>3, <1>4 DEF Next, Handler

\* A handler is entered, goes on by one entry, or ends with its process.
LEMMA HandlersWalk ==
    TypeOK /\ [Next]_vars =>
        \A p \in Pids : clearing'[p] # None =>
            \/ clearing'[p] = clearing[p]
            \/ DeliverOrphan(p) /\ clearing'[p] = 0
            \/ ClearEntry(p) /\ clearing'[p] = clearing[p] + 1
<1> SUFFICES ASSUME TypeOK, [Next]_vars, NEW p \in Pids, clearing'[p] # None
             PROVE  \/ clearing'[p] = clearing[p]
                    \/ DeliverOrphan(p) /\ clearing'[p] = 0
                    \/ ClearEntry(p) /\ clearing'[p] = clearing[p] + 1
    OBVIOUS
<1>1. CASE Master \/ Fork \/ TermMaster \/ Start \/ StartClears \/ UNCHANGED vars
    BY <1>1 DEF Master, ScanTaken, ScanVacant, Sleep, ForkFails, SetPid, Recording, Fork, TermMaster,
                Start, StartClears, procVars, vars
<1>2. ASSUME NEW q \in Pids,
             Crash(q) \/ DeliverDefault(q) \/ DeliverWithParent(q) \/ ClearEnd(q) \/ ForeignEnd(q)
      PROVE  clearing'[p] = clearing[p]
    <2>1. Vanish({q})
        BY <1>2 DEF Crash, DeliverDefault, DeliverWithParent, ClearEnd, ForeignEnd
    <2> QED BY <2>1 DEF Vanish
<1>3. ASSUME NEW q \in Pids, Install(q) \/ TermWorker(q) \/ ForeignStart(q)
      PROVE  clearing'[p] = clearing[p]
    BY <1>3 DEF Install, TermWorker, ForeignStart
<1>4. ASSUME NEW q \in Pids, DeliverOrphan(q) \/ ClearEntry(q), q # p
      PROVE  clearing'[p] = clearing[p]
    BY <1>4 DEF DeliverOrphan, DeliverFrom, ClearEntry, TypeOK
<1>5. DeliverOrphan(p) => clearing'[p] = 0
    BY DEF DeliverOrphan, DeliverFrom, TypeOK
<1>6. ClearEntry(p) => clearing'[p] = clearing[p] + 1
    BY DEF ClearEntry, TypeOK
<1> QED BY <1>1, <1>2, <1>3, <1>4, <1>5, <1>6 DEF Next, Handler

\* However handlers, deaths and starts interleave.
LEMMA Clears == TypeOK /\ EntryHeld /\ ClearedSoFar /\ [Next]_vars => ClearedSoFar'
<1> SUFFICES ASSUME TypeOK, EntryHeld, ClearedSoFar, [Next]_vars PROVE ClearedSoFar'
    OBVIOUS
<1> USE Sizes
<1>0. TypeOK'
    BY Types
<1>1. ASSUME NEW p \in Pids, clearing'[p] # None
      PROVE  /\ master' = "dead"
             /\ \A i \in Entries : i < clearing'[p] /\ pool'[i] \in Live' => DoomedNext(pool'[i])
    <2>1. master = "dead" /\ (clearing[p] # None \/ clearing'[p] = 0)
        BY <1>1, HandlersWalk DEF ClearedSoFar, DeliverOrphan, DeliverFrom, ClearEntry, TypeOK, None
    <2>2. /\ master' = "dead" /\ Live' \subseteq Live
          /\ \A i \in Entries : pool'[i] \in {pool[i], 0}
          /\ \A q \in Live' : Doomed(q) => DoomedNext(q)
        BY <2>1, Orphaned
    <2>3. ASSUME NEW i \in Entries, i < clearing'[p], pool'[i] \in Live'
          PROVE  DoomedNext(pool'[i])
        <3> DEFINE q == pool[i]
        <3>1. pool'[i] = q /\ q \in Live' /\ q \in Live
            BY <2>2, <2>3 DEF Live
        <3>2. Doomed(q) => DoomedNext(q)
            BY <2>2, <3>1
        <3>3. CASE clearing'[p] = clearing[p]
            BY <1>1, <2>3, <3>1, <3>2, <3>3 DEF ClearedSoFar, Doomed, DoomedNext
        <3>4. CASE DeliverOrphan(p) /\ clearing'[p] = 0
            BY <2>3, <3>4
        <3>5. CASE ClearEntry(p) /\ clearing'[p] = clearing[p] + 1
            <4>1. clearing[p] \in Entries
                BY <3>5 DEF ClearEntry
            <4>2. CASE i < clearing[p]
                <5>1. clearing[p] # None
                    BY <4>1 DEF None
                <5> QED BY <3>1, <3>2, <4>2, <5>1 DEF ClearedSoFar, Doomed, DoomedNext
            <4>3. CASE i = clearing[p]
                <5>1. Exists(q)
                    BY <3>1 DEF Exists, Live
                <5>2. q \in pending'
                    BY <3>5, <4>3, <5>1 DEF ClearEntry
                <5> QED BY <3>1, <5>2 DEF Doomed, DoomedNext
            <4> QED BY <2>3, <3>5, <4>1, <4>2, <4>3
        <3> QED BY <1>1, HandlersWalk, <3>3, <3>4, <3>5
    <2> QED BY <2>2, <2>3
<1>2. ASSUME removed' PROVE master' = "dead" /\ ClearReachesRecorded'
    <2>1. removed \/ \E p \in Pids : ClearEnd(p)
        BY <1>2 DEF Next, Master, Handler, ScanTaken, ScanVacant, Sleep, ForkFails, SetPid, Recording, Fork,
            TermMaster, Install, Crash, TermWorker, DeliverDefault, DeliverWithParent, DeliverOrphan,
            DeliverFrom, ClearEntry, ForeignStart, ForeignEnd, Start, StartClears, vars
    <2>2. /\ master = "dead"
          /\ \A i \in Entries : pool[i] \in Live => Doomed(pool[i])
        <3>1. CASE removed
            BY <3>1 DEF ClearedSoFar, ClearReachesRecorded, Doomed, DoomedNext, Recorded
        <3>2. ASSUME NEW p \in Pids, ClearEnd(p)
              PROVE  /\ master = "dead"
                     /\ \A i \in Entries : pool[i] \in Live => Doomed(pool[i])
            <4>1. clearing[p] = SMaxPoll /\ clearing[p] # None
                BY <3>2 DEF ClearEnd, None
            <4> QED BY <4>1 DEF ClearedSoFar
        <3> QED BY <2>1, <3>1, <3>2
    <2>3. /\ master' = "dead" /\ Live' \subseteq Live
          /\ \A i \in Entries : pool'[i] \in {pool[i], 0}
          /\ \A q \in Live' : Doomed(q) => DoomedNext(q)
        BY <2>2, Orphaned
    <2>4. ASSUME NEW q \in Live', q \in Recorded' PROVE DoomedNext(q)
        <3>1. PICK i \in Entries : q = pool'[i]
            BY <2>4 DEF Recorded
        <3>2. q = pool[i] /\ q \in Live
            BY <2>3, <2>4, <3>1 DEF Live
        <3> QED BY <2>2, <2>3, <2>4, <3>2
    <2> QED BY <2>3, <2>4 DEF ClearReachesRecorded, Doomed, DoomedNext
<1> QED BY <1>1, <1>2 DEF ClearedSoFar, Doomed, DoomedNext

-----------------------------------------------------------------------------
\* Workers are unrecorded, or in the table with the child in its entry: as many
\* as there are entries.
LEMMA LiveBound == TypeOK /\ EntryHeld /\ WipedOnly => PoolBound
<1> SUFFICES ASSUME TypeOK, EntryHeld, WipedOnly PROVE PoolBound
    OBVIOUS
<1> USE Sizes
<1>1. IsFiniteSet(Unrecorded) /\ Cardinality(Unrecorded) \in Nat
    BY UnrecordedFinite, FS_CardinalityType
<1>2. SMaxPoll * starts \in Nat /\ SMaxPoll * (1 + starts) = SMaxPoll + SMaxPoll * starts
    BY DEF TypeOK
<1>3. Wiped <= SMaxPoll * starts
    <2>1. CASE starter = None
        BY <1>2, <2>1 DEF Wiped
    <2>2. CASE starter # None
        <3>1. starter \in Nat /\ starter < SMaxPoll /\ starts \in Nat
            BY <2>2 DEF TypeOK
        <3>2. SMaxPoll * (starts - 1) = SMaxPoll * starts - SMaxPoll
            BY <3>1
        <3> QED BY <1>2, <2>2, <3>1, <3>2 DEF Wiped
    <2> QED BY <2>1, <2>2
<1>4. Wiped \in Nat
    <2>1. starts \in Nat /\ (starter # None => starts - 1 \in Nat)
        BY DEF TypeOK, WipedOnly
    <2>2. starter # None => SMaxPoll * (starts - 1) \in Nat
        BY <2>1
    <2> QED BY <1>2, <2>2 DEF Wiped, TypeOK
<1>5. Cardinality(Unrecorded) <= SMaxPoll * starts
    BY <1>1, <1>2, <1>3, <1>4 DEF WipedOnly
\* The child has the entry that is kept vacant for it.
<1> DEFINE table == IF child = 0 THEN pool ELSE [pool EXCEPT ![cnt] = child]
           Known == {table[i] : i \in Entries}
<1>6. Live \subseteq Unrecorded \cup Known
    <2> SUFFICES ASSUME NEW p \in Live, p \notin Unrecorded PROVE p \in Known
        OBVIOUS
    <2>1. p \in Pids /\ p # 0
        BY DEF Live
    <2>2. CASE p = child
        <3>1. cnt \in Entries /\ table[cnt] = p
            BY <2>1, <2>2 DEF EntryHeld, TypeOK
        <3> QED BY <3>1
    <2>3. CASE p \in Recorded
        <3>1. PICK i \in Entries : pool[i] = p
            BY <2>3 DEF Recorded
        <3>2. child # 0 => i # cnt
            BY <2>1, <3>1 DEF EntryHeld
        <3>3. table[i] = p
            BY <3>1, <3>2 DEF TypeOK
        <3> QED BY <3>3
    <2> QED BY <2>2, <2>3 DEF Unrecorded
<1>7. IsFiniteSet(Known) /\ Cardinality(Known) \in Nat /\ Cardinality(Known) <= SMaxPoll
    <2>1. IsFiniteSet(Entries) /\ Cardinality(Entries) = SMaxPoll
        <3>1. 0 \in Int /\ SMaxPoll - 1 \in Int /\ ~(0 > SMaxPoll - 1) /\ SMaxPoll - 1 - 0 + 1 = SMaxPoll
            OBVIOUS
        <3> QED BY <3>1, FS_Interval DEF Entries
    <2>2. table \in Surjection(Entries, Known)
        <3>1. table = [i \in Entries |-> table[i]]
            BY DEF TypeOK
        <3> HIDE DEF table
        <3> QED BY <3>1 DEF Surjection
    <2> HIDE DEF table, Known
    <2> QED BY <2>1, <2>2, FS_Surjection, FS_CardinalityType
<1> HIDE DEF Known
<1>8. /\ IsFiniteSet(Unrecorded \cup Known)
      /\ Cardinality(Unrecorded \cup Known) \in Nat
      /\ Cardinality(Unrecorded \cup Known) <= Cardinality(Unrecorded) + Cardinality(Known)
    <2>1. Cardinality(Unrecorded \cap Known) \in Nat
        <3>1. IsFiniteSet(Unrecorded \cap Known)
            BY <1>1, FS_Subset
        <3> QED BY <3>1, FS_CardinalityType
    <2>2. /\ IsFiniteSet(Unrecorded \cup Known)
          /\ Cardinality(Unrecorded \cup Known) =
                Cardinality(Unrecorded) + Cardinality(Known) - Cardinality(Unrecorded \cap Known)
        BY <1>1, <1>7, FS_Union
    <2>3. Cardinality(Unrecorded \cup Known) \in Nat
        BY <2>2, FS_CardinalityType
    <2> QED BY <1>1, <1>7, <2>1, <2>2, <2>3
<1>9. Cardinality(Live) \in Nat /\ Cardinality(Live) <= Cardinality(Unrecorded \cup Known)
    BY <1>6, <1>8, FS_Subset, FS_CardinalityType
<1> QED BY <1>1, <1>2, <1>5, <1>7, <1>8, <1>9 DEF PoolBound, Unrecorded

-----------------------------------------------------------------------------
\* The inductive invariant.
LEMMA PoolInvariant == Spec => []PoolInv
<1>1. Init => PoolInv
    BY InitPool
<1>2. PoolInv /\ [Next]_vars => PoolInv'
    BY Types, Held, Wipes, Clears DEF PoolInv
<1> QED BY <1>1, <1>2, PTL DEF Spec

\* For every size of the table and every finite set of ids: the master (pool_monitor,
\* fork, pool_setpid) never has more workers than configured, and every worker is
\* recorded or about to be, but for what further starts of the program wiped
\* (EpollShmInit); each of them costs one pool at most.
THEOREM PoolBounded == Spec => []PoolBound
<1>1. PoolInv => PoolBound
    BY LiveBound DEF PoolInv
<1> QED BY <1>1, PoolInvariant, PTL

\* For every size of the table and every finite set of ids: when an orphan's handler
\* (pool_poolclear) has removed the segment, every recorded worker is on its way out,
\* whatever died, was wiped, or was reused while handlers walked the table.
THEOREM Cleared == Spec => []ClearReachesRecorded
<1>1. PoolInv => ClearReachesRecorded
    BY DEF PoolInv, ClearedSoFar, ClearReachesRecorded
<1> QED BY <1>1, PoolInvariant, PTL
=============================================================================
