----------------------- MODULE FenglingSemUse_proofs -----------------------
(***************************************************************************)
(* What the processes of the program share in the kernel, for any number   *)
(* of them.  sem_p and sem_v exclude, whichever processes die, until       *)
(* init_sem runs on the semaphore in use; what each such run costs is      *)
(* bounded.  And the log file: whoever has looked writes to today's.       *)
(***************************************************************************)
EXTENDS FenglingSemUse, FenglingLog, FiniteSetTheorems, TLAPS

-----------------------------------------------------------------------------
(* The semaphore. *)

\* The permit is either in the semaphore or with the one process inside, which
\* the kernel knows about: its adjustment is 1, everybody else's is 0.
Free == /\ semval = 1
        /\ \A p \in Procs : pc[p] # "in" /\ semadj[p] = 0

HeldBy(h) == /\ semval = 0
             /\ pc[h] = "in" /\ semadj[h] = 1
             /\ \A p \in Procs \ {h} : pc[p] # "in" /\ semadj[p] = 0

OnePermit == Free \/ \E h \in Procs : HeldBy(h)

Inv == TypeOK /\ (resets = 0 => OnePermit)

\* The types alone, whatever is reset.
LEMMA TypeStep == TypeOK /\ [Next]_vars => TypeOK'
<1> SUFFICES ASSUME TypeOK, [Next]_vars PROVE TypeOK'
    OBVIOUS
<1> USE DEF TypeOK, SemTypeOK, semVars
<1>1. ASSUME NEW p \in Procs, Call(p) PROVE TypeOK'
    BY <1>1 DEF Call
<1>2. ASSUME NEW p \in Procs, Enter(p) PROVE TypeOK'
    BY <1>2 DEF Enter, sem_p
<1>3. ASSUME NEW p \in Procs, Leave(p) PROVE TypeOK'
    BY <1>3 DEF Leave, sem_v
<1>4. ASSUME NEW p \in Procs, Die(p) PROVE TypeOK'
    BY <1>4 DEF Die, exit_undo
<1>5. ASSUME NEW p \in Procs, Respawn(p) PROVE TypeOK'
    BY <1>5 DEF Respawn
<1>6. CASE Reset
    BY <1>6, ResetAssumption DEF Reset, init_sem
<1>7. CASE UNCHANGED vars
    BY <1>7 DEF vars
<1> QED BY <1>1, <1>2, <1>3, <1>4, <1>5, <1>6, <1>7 DEF Next

\* No step of a process creates or loses a permit.
LEMMA PermitStep ==
    ASSUME TypeOK, OnePermit, Next, ~Reset
    PROVE  OnePermit'
<1> USE DEF TypeOK, SemTypeOK, semVars
<1>1. ASSUME NEW p \in Procs, Call(p) PROVE OnePermit'
    BY <1>1 DEF Call, OnePermit, Free, HeldBy
<1>2. ASSUME NEW p \in Procs, Enter(p) PROVE OnePermit'
    <2>1. Free
        BY <1>2 DEF Enter, sem_p, OnePermit, HeldBy
    <2>2. HeldBy(p)'
        BY <1>2, <2>1 DEF Enter, sem_p, Free, HeldBy
    <2> QED BY <2>2 DEF OnePermit
<1>3. ASSUME NEW p \in Procs, Leave(p) PROVE OnePermit'
    <2>1. HeldBy(p)
        BY <1>3 DEF Leave, OnePermit, Free, HeldBy
    <2>2. Free'
        BY <1>3, <2>1 DEF Leave, sem_v, Free, HeldBy
    <2> QED BY <2>2 DEF OnePermit
<1>4. ASSUME NEW p \in Procs, Die(p) PROVE OnePermit'
    <2>1. CASE HeldBy(p)
        <3>1. Free'
            BY <1>4, <2>1 DEF Die, exit_undo, Free, HeldBy
        <3> QED BY <3>1 DEF OnePermit
    <2>2. CASE Free
        <3>1. Free'
            BY <1>4, <2>2 DEF Die, exit_undo, Free
        <3> QED BY <3>1 DEF OnePermit
    <2>3. ASSUME NEW h \in Procs \ {p}, HeldBy(h) PROVE OnePermit'
        <3>1. HeldBy(h)'
            BY <1>4, <2>3 DEF Die, exit_undo, HeldBy
        <3> QED BY <3>1 DEF OnePermit
    <2> QED BY <2>1, <2>2, <2>3 DEF OnePermit
<1>5. ASSUME NEW p \in Procs, Respawn(p) PROVE OnePermit'
    BY <1>5 DEF Respawn, OnePermit, Free, HeldBy
<1> QED BY <1>1, <1>2, <1>3, <1>4, <1>5 DEF Next

\* Types, and one permit until init_sem runs again.
LEMMA InvHolds == Spec => []Inv
<1>1. Init => Inv
    BY ResetAssumption DEF Init, SemInit, Inv, TypeOK, SemTypeOK, OnePermit, Free
<1>2. Inv /\ [Next]_vars => Inv'
    <2> SUFFICES ASSUME Inv, [Next]_vars PROVE Inv'
        OBVIOUS
    <2>1. TypeOK'
        BY TypeStep DEF Inv
    <2>2. ASSUME resets' = 0 PROVE OnePermit'
        <3>1. CASE Reset
            BY <3>1, <2>2 DEF Reset, Inv, TypeOK
        <3>2. CASE UNCHANGED vars
            BY <3>2, <2>2 DEF vars, Inv, OnePermit, Free, HeldBy
        <3>3. CASE Next /\ ~Reset
            <4>1. resets = 0
                BY <3>3, <2>2 DEF Next, Call, Enter, Leave, Die, Respawn
            <4> QED BY <4>1, <3>3, PermitStep DEF Inv
        <3> QED BY <3>1, <3>2, <3>3
    <2> QED BY <2>1, <2>2 DEF Inv
<1> QED BY <1>1, <1>2, PTL DEF Spec

\* The values of the semaphore and of the processes' statements are as declared.
THEOREM TypeCorrect == Spec => []TypeOK
<1>1. Inv => TypeOK
    BY DEF Inv
<1> QED BY <1>1, InvHolds, PTL

\* Mutual exclusion under deaths, for every set of processes.
THEOREM Exclusion == Spec => []ExclusiveUntilReset
<1>1. Inv => ExclusiveUntilReset
    BY DEF Inv, ExclusiveUntilReset, Inside, OnePermit, Free, HeldBy
<1> QED BY <1>1, InvHolds, PTL

-----------------------------------------------------------------------------
(* Resets.  A process that init_sem forgot is one inside without an         *)
(* adjustment, or one that has left since, whose adjustment is -1: it will  *)
(* take a permit away when it exits.                                        *)

Held == {p \in Procs : pc[p] = "in" /\ semadj[p] = 1}
Owing == {p \in Procs : pc[p] # "in" /\ semadj[p] = -1}

Adjusted == \A p \in Procs : semadj[p] \in (IF pc[p] = "in" THEN {0, 1} ELSE {-1, 0})

\* The permits that are there or will come back, less those that will be taken.
Permits == semval + Cardinality(Held) - Cardinality(Owing)

Bounded == /\ Adjusted
           /\ Cardinality(Inside) + semval <= 1 + resets
           /\ Permits >= 1

\* The sets that are counted are finite.
LEMMA Finite == \A S \in SUBSET Procs : IsFiniteSet(S) /\ Cardinality(S) \in Nat
    BY ProcAssumption, FS_Subset, FS_CardinalityType

\* They are sets of processes.
LEMMA Subsets == Inside \subseteq Procs /\ Held \subseteq Procs /\ Owing \subseteq Procs
    BY DEF Inside, Held, Owing

\* What becomes of the cardinality of a set of processes when one joins or leaves.
LEMMA Joins ==
    ASSUME NEW S \in SUBSET Procs, NEW p \in Procs
    PROVE  /\ p \notin S => Cardinality(S \cup {p}) = Cardinality(S) + 1
           /\ p \in S => Cardinality(S \ {p}) = Cardinality(S) - 1
    BY Finite, FS_AddElement, FS_RemoveElement

\* sem_p: a permit moves to the process, or pays what it owes.
LEMMA EnterBounded ==
    ASSUME TypeOK, Bounded, NEW p \in Procs, Enter(p)
    PROVE  Bounded'
<1> USE DEF TypeOK, SemTypeOK
<1>1. Adjusted'
    BY DEF Enter, sem_p, Bounded, Adjusted
<1>2. Inside' = Inside \cup {p} /\ p \notin Inside
    BY DEF Enter, Inside
<1>3. CASE semadj[p] = 0
    <2>1. Held' = Held \cup {p} /\ p \notin Held /\ Owing' = Owing
        BY <1>3 DEF Enter, sem_p, Held, Owing
    <2> QED BY <1>1, <1>2, <2>1, Joins, Finite, Subsets DEF Enter, sem_p, Bounded, Permits
<1>4. CASE semadj[p] = -1
    <2>1. Owing' = Owing \ {p} /\ p \in Owing /\ Held' = Held
        BY <1>4 DEF Enter, sem_p, Held, Owing
    <2> QED BY <1>1, <1>2, <2>1, Joins, Finite, Subsets DEF Enter, sem_p, Bounded, Permits
<1> QED BY <1>3, <1>4 DEF Enter, Bounded, Adjusted

\* sem_v: the permit comes back, or one that was forgotten, which is owed then.
LEMMA LeaveBounded ==
    ASSUME TypeOK, Bounded, NEW p \in Procs, Leave(p)
    PROVE  Bounded'
<1> USE DEF TypeOK, SemTypeOK
<1>1. Adjusted'
    BY DEF Leave, sem_v, Bounded, Adjusted
<1>2. Inside' = Inside \ {p} /\ p \in Inside
    BY DEF Leave, Inside
<1>3. /\ Cardinality(Inside') = Cardinality(Inside) - 1
      /\ semval' = semval + 1 /\ resets' = resets
    BY <1>2, Joins, Subsets DEF Leave, sem_v
<1>4. /\ Cardinality(Inside) \in Nat
      /\ Cardinality(Held) \in Nat /\ Cardinality(Owing) \in Nat
    BY Finite, Subsets
<1>5. CASE semadj[p] = 1
    <2>1. Held' = Held \ {p} /\ p \in Held /\ Owing' = Owing
        BY <1>5 DEF Leave, sem_v, Held, Owing
    <2>2. Cardinality(Held') = Cardinality(Held) - 1
        BY <2>1, Joins, Subsets
    <2> QED BY <1>1, <1>3, <1>4, <2>1, <2>2 DEF Bounded, Permits
<1>6. CASE semadj[p] = 0
    <2>1. Owing' = Owing \cup {p} /\ p \notin Owing /\ Held' = Held
        BY <1>6 DEF Leave, sem_v, Held, Owing
    <2>2. Cardinality(Owing') = Cardinality(Owing) + 1
        BY <2>1, Joins, Subsets
    <2> QED BY <1>1, <1>3, <1>4, <2>1, <2>2 DEF Bounded, Permits
<1> QED BY <1>5, <1>6 DEF Leave, Bounded, Adjusted

\* The undo gives back what is held, and takes what is owed if it is there.
LEMMA DieBounded ==
    ASSUME TypeOK, Bounded, NEW p \in Procs, Die(p)
    PROVE  Bounded'
<1> USE DEF TypeOK, SemTypeOK
<1>1. Adjusted'
    BY DEF Die, exit_undo, Bounded, Adjusted
<1>2. CASE pc[p] = "in" /\ semadj[p] = 1
    <2>1. /\ Inside' = Inside \ {p} /\ p \in Inside
          /\ Held' = Held \ {p} /\ p \in Held /\ Owing' = Owing
        BY <1>2 DEF Die, exit_undo, Inside, Held, Owing
    <2>2. semval' = semval + 1
        BY <1>2 DEF Die, exit_undo
    <2> QED BY <1>1, <2>1, <2>2, Joins, Finite, Subsets DEF Die, Bounded, Permits
<1>3. CASE pc[p] = "in" /\ semadj[p] = 0
    <2>1. /\ Inside' = Inside \ {p} /\ p \in Inside
          /\ Held' = Held /\ Owing' = Owing
        BY <1>3 DEF Die, exit_undo, Inside, Held, Owing
    <2>2. semval' = semval
        BY <1>3 DEF Die, exit_undo
    <2> QED BY <1>1, <2>1, <2>2, Joins, Finite, Subsets DEF Die, Bounded, Permits
<1>4. CASE pc[p] # "in" /\ semadj[p] = -1
    <2>1. /\ Inside' = Inside /\ Held' = Held
          /\ Owing' = Owing \ {p} /\ p \in Owing
        BY <1>4 DEF Die, exit_undo, Inside, Held, Owing
    <2>2. semval' \in {semval, semval - 1} /\ semval' >= semval - 1
        BY <1>4 DEF Die, exit_undo
    <2> QED BY <1>1, <2>1, <2>2, Joins, Finite, Subsets DEF Die, Bounded, Permits
<1>5. CASE pc[p] # "in" /\ semadj[p] = 0
    <2>1. Inside' = Inside /\ Held' = Held /\ Owing' = Owing /\ semval' = semval
        BY <1>5 DEF Die, exit_undo, Inside, Held, Owing
    <2> QED BY <1>1, <2>1 DEF Die, Bounded, Permits
<1> QED BY <1>2, <1>3, <1>4, <1>5 DEF Bounded, Adjusted

\* init_sem forgets whom it finds inside, and adds a permit.
LEMMA ResetBounded ==
    ASSUME TypeOK, Bounded, Reset
    PROVE  Bounded'
<1> USE DEF TypeOK, SemTypeOK
<1>1. Adjusted'
    BY DEF Reset, init_sem, Adjusted
<1>2. Inside' = Inside /\ Held' = {} /\ Owing' = {} /\ semval' = 1
    BY DEF Reset, init_sem, Inside, Held, Owing
<1> QED BY <1>1, <1>2, FS_EmptySet, Finite, Subsets DEF Reset, Bounded, Permits

\* Every step keeps the bound on permits.
LEMMA BoundedStep == TypeOK /\ Bounded /\ [Next]_vars => Bounded'
<1> SUFFICES ASSUME TypeOK, Bounded, [Next]_vars PROVE Bounded'
    OBVIOUS
<1>1. ASSUME NEW p \in Procs, Call(p) \/ Respawn(p) PROVE Bounded'
    <2>1. Adjusted' /\ Inside' = Inside /\ Held' = Held /\ Owing' = Owing
        BY <1>1 DEF Call, Respawn, semVars, TypeOK, Bounded, Adjusted, Inside, Held, Owing
    <2> QED BY <1>1, <2>1 DEF Call, Respawn, semVars, Bounded, Permits
<1>2. CASE UNCHANGED vars
    BY <1>2 DEF vars, Bounded, Adjusted, Permits, Inside, Held, Owing
<1> QED BY <1>1, <1>2, EnterBounded, LeaveBounded, DieBounded, ResetBounded DEF Next

\* However often init_sem runs on the semaphore in use and whoever dies: one
\* process more inside for each run at most, and never a permit less than one when
\* nobody is inside, for every finite set of processes.
THEOREM DamageBounded == Spec => []PermitsBounded
<1>1. Init => Bounded
    <2> SUFFICES ASSUME Init PROVE Bounded
        OBVIOUS
    <2>1. Inside = {} /\ Held = {} /\ Owing = {} /\ semval = 1 /\ resets = 0 /\ Adjusted
        BY DEF Init, SemInit, Inside, Held, Owing, Adjusted
    <2> QED BY <2>1, FS_EmptySet DEF Bounded, Permits
<1>2. TypeOK /\ Bounded => PermitsBounded
    <2> SUFFICES ASSUME TypeOK, Bounded, Inside = {} PROVE semval > 0
        BY DEF PermitsBounded, Bounded
    <2>1. Held = {}
        BY DEF Held, Inside
    <2> QED BY <2>1, FS_EmptySet, Finite, Subsets DEF Bounded, Permits, TypeOK, SemTypeOK
<1>3. Spec => []Bounded
    BY <1>1, BoundedStep, TypeCorrect, PTL DEF Spec
<1> QED BY <1>2, <1>3, TypeCorrect, PTL

-----------------------------------------------------------------------------
(* The log file. *)

\* Unless a process raced with a removal, its statbuf is about the file it has open.
StatbufTrue == \A p \in Writers : ~raced[p] => st_ino[p] = fd[p]

LogInv == OnTodaysFile /\ StatbufTrue

\* The shape of a world that has changed under everybody: nobody has looked since.
LEMMA AllUnaware ==
    ASSUME AllStale, LogTypeOK', StatbufTrue, UNCHANGED <<fd, st_ino, raced>>
    PROVE  LogInv'
BY DEF AllStale, OnTodaysFile, LogInv, StatbufTrue

\* Types are kept by every step.
LEMMA LogTypes ==
    ASSUME LogTypeOK, [LogNext]_logVars
    PROVE  LogTypeOK'
<1> USE LogAssumption, BoundAssumption DEF LogTypeOK, Days
<1>1. CASE Second
    BY <1>1 DEF Second
<1>2. CASE Midnight
    BY <1>2 DEF Midnight, AllStale, procVars
<1>3. ASSUME NEW d \in Days, Remove(d) PROVE LogTypeOK'
    <2>1. dir' \in [Days -> Inodes \cup {None}] /\ away' \subseteq Inodes
        BY <1>3 DEF Remove
    <2>2. moves' \in 0 .. MaxMoves
        BY <1>3 DEF Remove
    <2> QED BY <1>3, <2>1, <2>2 DEF Remove, AllStale, procVars
<1>4. ASSUME NEW p \in Writers, Check(p) PROVE LogTypeOK'
    BY <1>4 DEF Check, CheckUnder
<1>5. ASSUME NEW p \in Writers, StatSame(p) PROVE LogTypeOK'
    BY <1>5 DEF StatSame
<1>6. ASSUME NEW p \in Writers, StatOther(p) PROVE LogTypeOK'
    BY <1>6 DEF StatOther
<1>7. ASSUME NEW p \in Writers, Open(p) PROVE LogTypeOK'
    <2>1. PICK i \in Inodes :
              /\ dir' = [dir EXCEPT ![fname[p]] = i]
              /\ fd' = [fd EXCEPT ![p] = i]
              /\ st_ino' = [st_ino EXCEPT ![p] = IF found[p] # None THEN found[p]
                                                ELSE IF TRUE THEN i ELSE @]
        BY <1>7 DEF Open, OpenWith
    <2>2. dir' \in [Days -> Inodes \cup {None}] /\ fd' \in [Writers -> Inodes]
        BY <2>1
    <2>3. st_ino' \in [Writers -> Inodes]
        BY <2>1
    <2>4. raced' \in [Writers -> BOOLEAN] /\ stale' \in [Writers -> BOOLEAN]
        BY <1>7, Zenon DEF Open, OpenWith
    <2> QED BY <1>7, <2>2, <2>3, <2>4 DEF Open, OpenWith
<1>8. ASSUME NEW p \in Writers, Fails(p) PROVE LogTypeOK'
    BY <1>8 DEF Fails
<1>9. CASE UNCHANGED logVars
    BY <1>9 DEF logVars, procVars
<1> QED BY <1>1, <1>2, <1>3, <1>4, <1>5, <1>6, <1>7, <1>8, <1>9 DEF LogNext, log_doit

\* One lemma for each step that can bring a process to look, or the file to change.
LEMMA LogStep ==
    ASSUME LogInv, [LogNext]_logVars
    PROVE  LogInv'
<1>0. LogTypeOK /\ LogTypeOK'
    BY LogTypes DEF LogInv, OnTodaysFile
<1> USE <1>0, LogAssumption, BoundAssumption
<1>1. CASE Second
    BY <1>1 DEF Second, LogInv, OnTodaysFile, StatbufTrue
<1>2. CASE Midnight
    BY <1>2, AllUnaware DEF Midnight, procVars, LogInv
<1>3. ASSUME NEW d \in Days, Remove(d) PROVE LogInv'
    BY <1>3, AllUnaware DEF Remove, procVars, LogInv
<1>4. ASSUME NEW p \in Writers, Check(p) PROVE LogInv'
    BY <1>4 DEF Check, CheckUnder, LogInv, OnTodaysFile, StatbufTrue, LogTypeOK
<1>5. ASSUME NEW p \in Writers, StatSame(p) PROVE LogInv'
    BY <1>5 DEF StatSame, LogInv, OnTodaysFile, StatbufTrue, LogTypeOK
<1>6. ASSUME NEW p \in Writers, StatOther(p) PROVE LogInv'
    BY <1>6 DEF StatOther, LogInv, OnTodaysFile, StatbufTrue, LogTypeOK
<1>7. ASSUME NEW p \in Writers, Open(p) PROVE LogInv'
    <2>1. PICK i \in Inodes :
              /\ dir[fname[p]] # None => i = dir[fname[p]]
              /\ dir' = [dir EXCEPT ![fname[p]] = i]
              /\ fd' = [fd EXCEPT ![p] = i]
              /\ st_ino' = [st_ino EXCEPT ![p] = IF found[p] # None THEN found[p]
                                                ELSE IF TRUE THEN i ELSE @]
        BY <1>7 DEF Open, OpenWith
    <2>2. /\ day' = day /\ look' = [look EXCEPT ![p] = "idle"]
          /\ raced' = [raced EXCEPT ![p] = found[p] # None /\ found[p] # dir[fname[p]]]
          /\ stale' = [stale EXCEPT ![p] = fname[p] # day]
        BY <1>7 DEF Open, OpenWith
    <2>3. fname[p] \in Days /\ day \in Days
        BY DEF LogTypeOK
    <2>4. StatbufTrue'
        <3> SUFFICES ASSUME NEW q \in Writers, ~raced'[q] PROVE st_ino'[q] = fd'[q]
            BY DEF StatbufTrue
        <3>1. CASE q # p
            BY <2>1, <2>2, <3>1 DEF LogInv, StatbufTrue, LogTypeOK
        <3>2. CASE q = p
            <4>1. fd'[p] = i /\ st_ino'[p] = IF found[p] # None THEN found[p] ELSE i
                BY <2>1 DEF LogTypeOK
            <4>2. found[p] = None \/ found[p] = dir[fname[p]]
                BY <2>2, <3>2 DEF LogTypeOK
            <4> QED BY <2>1, <3>2, <4>1, <4>2
        <3> QED BY <3>1, <3>2
    <2>5. ASSUME NEW q \in Writers, look'[q] = "idle", ~stale'[q], ~raced'[q] PROVE fd'[q] = dir'[day]
        <3>1. CASE q # p
            <4>1. fd[q] = dir[day] /\ fd'[q] = fd[q] /\ dir[day] # None
                BY <2>1, <2>2, <2>5, <3>1 DEF LogInv, OnTodaysFile, LogTypeOK
            <4> QED BY <2>1, <2>3, <4>1 DEF LogTypeOK
        <3>2. CASE q = p
            BY <2>1, <2>2, <2>3, <2>5, <3>2 DEF LogTypeOK
        <3> QED BY <3>1, <3>2
    <2> QED BY <2>2, <2>4, <2>5 DEF LogInv, OnTodaysFile
<1>8. ASSUME NEW p \in Writers, Fails(p) PROVE LogInv'
    BY <1>8 DEF Fails, LogInv, OnTodaysFile, StatbufTrue, LogTypeOK
<1>9. CASE UNCHANGED logVars
    BY <1>9 DEF logVars, procVars, LogInv, OnTodaysFile, StatbufTrue
<1> QED BY <1>1, <1>2, <1>3, <1>4, <1>5, <1>6, <1>7, <1>8, <1>9 DEF LogNext, log_doit

\* The log file log_init opens is today's, for all processes.
LEMMA LogInitInv ==
    ASSUME LogInit
    PROVE  LogInv
<1>1. PICK i \in Inodes : /\ dir = [d \in Days |-> IF d = 0 THEN i ELSE None]
                          /\ fd = [p \in Writers |-> i] /\ st_ino = fd
    BY DEF LogInit
<1>2. 0 \in Days /\ 0 \in 0 .. MaxMoves
    BY BoundAssumption DEF Days
<1>3. LogTypeOK
    BY <1>1, <1>2 DEF LogInit, LogTypeOK
<1>4. dir[day] = i
    BY <1>1, <1>2 DEF LogInit
<1> QED BY <1>1, <1>3, <1>4 DEF LogInv, OnTodaysFile, StatbufTrue

\* For any number of processes, inodes and days: a process that has looked (log_doit's
\* stat and open) and found nothing changed since writes to the file under today's
\* name, unless the file was replaced between its stat and its open.
THEOREM TodaysFile == LogSpec => []OnTodaysFile
<1>1. LogInit => LogInv
    BY LogInitInv
<1>2. LogInv /\ [LogNext]_logVars => LogInv'
    BY LogStep
<1>3. LogInv => OnTodaysFile
    BY DEF LogInv
<1> QED BY <1>1, <1>2, <1>3, PTL DEF LogSpec
=============================================================================
