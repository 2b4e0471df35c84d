---------------------------- MODULE FenglingPool ----------------------------
(***************************************************************************)
(* The server's pool of workers: the master's loop of EpollServerRun, the  *)
(* process table in shared memory it keeps (pool_monitor, pool_setpid),    *)
(* and what SIGTERM does to master and workers (signal_init, CLD_OUT,      *)
(* pool_poolclear).  There is no lock on this table: the master writes it, *)
(* every worker may read it in its signal handler, and a second start of   *)
(* the program clears it (EpollShmInit) before it fails to bind the port.  *)
(***************************************************************************)
EXTENDS Integers, FiniteSets

CONSTANTS SMaxPoll,     \* entries of the table
          Pids,         \* the process ids the kernel hands out, and reuses
          MaxDeaths,    \* bound: workers crashed or sent SIGTERM from outside
          MaxStarts,    \* bound: further starts of the program
          MaxForeign    \* bound: other programs started under these ids

ASSUME PoolAssumption == SMaxPoll \in Nat \ {0}
ASSUME PidAssumption == Pids \subseteq Nat \ {0} /\ IsFiniteSet(Pids)
ASSUME BoundAssumption == {MaxDeaths, MaxStarts, MaxForeign} \subseteq Nat

VARIABLES
    pool,       \* pool[i]: pSProc[i].PID, 0 when the entry is free
    proc,       \* proc[p]: what runs under id p
    master,     \* the master's next statement: scan, fork, setpid; dead
    cnt,        \* lCnt of its scan, and _lCurRec once a free entry is found
    child,      \* what fork returned, 0 when there is none to record
    pending,    \* ids with a SIGTERM not delivered yet
    clearing,   \* clearing[p]: lCnt of p's pool_poolclear, None outside it
    removed,    \* the shared segment is marked for removal
    starter,    \* lCnt of a second start's EpollShmInit, None outside it
    deaths, starts, foreigns

procVars == <<proc, pending, clearing>>
counters == <<deaths, starts, foreigns>>
masterVars == <<master, cnt, child>>
vars == <<pool, procVars, masterVars, removed, starter, counters>>

-----------------------------------------------------------------------------
Entries == 0 .. SMaxPoll - 1
None == -1

\* A worker that has not installed its SIGTERM handler yet is new.
Live == {p \in Pids : proc[p] \in {"new", "worker"}}
Recorded == {pool[i] : i \in Entries}

\* kill(pid, 0) == 0.
Exists(p) == p \in Pids /\ proc[p] # "free"

\* The processes of P end; children are not waited for, SIGCLD is ignored.
Vanish(P) == /\ proc' = [p \in Pids |-> IF p \in P THEN "free" ELSE proc[p]]
             /\ pending' = pending \ P
             /\ clearing' = [p \in Pids |-> IF p \in P THEN None ELSE clearing[p]]

Init == /\ pool = [i \in Entries |-> 0]
        /\ proc = [p \in Pids |-> "free"]
        /\ master = "scan" /\ cnt = 0 /\ child = 0
        /\ pending = {}
        /\ clearing = [p \in Pids |-> None]
        /\ removed = FALSE
        /\ starter = None
        /\ deaths = 0 /\ starts = 0 /\ foreigns = 0

-----------------------------------------------------------------------------
(* The master: pool_monitor, fork, pool_setpid. *)

\* (mutant) the process of an entry is not probed
VacantIfZero(i) == pool[i] = 0

\* An entry that is free, or whose process is gone, ends the scan.
Vacant(i) == ~Exists(pool[i])

ScanTaken == /\ master = "scan" /\ cnt < SMaxPoll
             /\ ~Vacant(cnt)
             /\ cnt' = cnt + 1
             /\ UNCHANGED <<pool, procVars, master, child, removed, starter, counters>>

ScanVacant == /\ master = "scan" /\ cnt < SMaxPoll
              /\ Vacant(cnt)
              /\ pool' = [pool EXCEPT ![cnt] = 0]
              /\ master' = "fork"
              /\ UNCHANGED <<procVars, cnt, child, removed, starter, counters>>

\* All entries are taken: sleep(LDELAY), and scan from the first one.
Sleep == /\ master = "scan" /\ cnt = SMaxPoll
         /\ cnt' = 0
         /\ UNCHANGED <<pool, procVars, master, child, removed, starter, counters>>

Fork == /\ master = "fork"
        /\ \E p \in Pids : /\ ~Exists(p)
                           /\ proc' = [proc EXCEPT ![p] = "new"]
                           /\ child' = p
        /\ master' = "setpid"
        /\ UNCHANGED <<pool, pending, clearing, cnt, removed, starter, counters>>

ForkFails == /\ master = "fork"
             /\ master' = "scan" /\ cnt' = 0
             /\ UNCHANGED <<pool, procVars, child, removed, starter, counters>>

Recording(pid) == /\ master = "setpid"
                  /\ pool' = [pool EXCEPT ![cnt] = pid]
                  /\ master' = "scan" /\ cnt' = 0 /\ child' = 0
                  /\ UNCHANGED <<procVars, removed, starter, counters>>

\* (mutant) the child is not recorded
SetPidForgotten == Recording(pool[cnt])

SetPid == Recording(child)

\* SIGTERM ends the master there and then: signal_init installs OUT for
\* SIGKILL, which cannot be caught, and leaves SIGTERM its default action.
TermMaster == /\ master # "dead"
              /\ master' = "dead"
              /\ UNCHANGED <<pool, procVars, cnt, child, removed, starter, counters>>

-----------------------------------------------------------------------------
(* The workers. *)

\* The child's first statements install CLD_OUT for SIGTERM.
Install(p) == /\ proc[p] = "new"
              /\ proc' = [proc EXCEPT ![p] = "worker"]
              /\ UNCHANGED <<pool, pending, clearing, masterVars, removed, starter, counters>>

\* A worker dies without a handler: SIGKILL, a segmentation fault, abort().
Crash(p) == /\ deaths < MaxDeaths
            /\ p \in Live
            /\ Vanish({p})
            /\ deaths' = deaths + 1
            /\ UNCHANGED <<pool, masterVars, removed, starter, starts, foreigns>>

\* The operator sends a worker SIGTERM.
TermWorker(p) == /\ deaths < MaxDeaths
                 /\ p \in Live
                 /\ pending' = pending \cup {p}
                 /\ deaths' = deaths + 1
                 /\ UNCHANGED <<pool, proc, clearing, masterVars, removed, starter, starts, foreigns>>

\* SIGTERM where it has its default action: another program, a worker that has
\* not installed its handler.
DeliverDefault(p) ==
    /\ p \in pending
    /\ proc[p] \in {"new", "foreign"}
    /\ Vanish({p})
    /\ UNCHANGED <<pool, masterVars, removed, starter, counters>>

\* CLD_OUT while the master lives: pool_poolclear does nothing, exit(0).
DeliverWithParent(p) ==
    /\ p \in pending
    /\ proc[p] = "worker" /\ clearing[p] = None
    /\ master # "dead"
    /\ Vanish({p})
    /\ UNCHANGED <<pool, masterVars, removed, starter, counters>>

\* CLD_OUT in an orphan, getppid() == 1: pool_poolclear walks the table.
\* SIGTERM stays blocked until the handler ends.
DeliverFrom(p, first) ==
    /\ p \in pending
    /\ proc[p] = "worker" /\ clearing[p] = None
    /\ master = "dead"
    /\ clearing' = [clearing EXCEPT ![p] = first]
    /\ pending' = pending \ {p}
    /\ UNCHANGED <<pool, proc, masterVars, removed, starter, counters>>

\* (mutant) the first entry is skipped
DeliverOrphanFromOne(p) == DeliverFrom(p, 1)

DeliverOrphan(p) == DeliverFrom(p, 0)

ClearEntry(p) ==
    /\ clearing[p] \in Entries
    /\ LET pid == pool[clearing[p]] IN
       pending' = IF Exists(pid) THEN pending \cup {pid} ELSE pending
    /\ clearing' = [clearing EXCEPT ![p] = @ + 1]
    /\ UNCHANGED <<pool, proc, masterVars, removed, starter, counters>>

\* shmctl(IPC_RMID), back to CLD_OUT and exit(0).
ClearEnd(p) ==
    /\ clearing[p] = SMaxPoll
    /\ removed' = TRUE
    /\ Vanish({p})
    /\ UNCHANGED <<pool, masterVars, starter, counters>>

-----------------------------------------------------------------------------
(* The rest of the host. *)

\* The kernel gives a free id to another program, which may end again.
ForeignStart(p) == /\ foreigns < MaxForeign
                   /\ ~Exists(p)
                   /\ proc' = [proc EXCEPT ![p] = "foreign"]
                   /\ foreigns' = foreigns + 1
                   /\ UNCHANGED <<pool, pending, clearing, masterVars, removed, starter, deaths, starts>>

ForeignEnd(p) == /\ proc[p] = "foreign"
                 /\ Vanish({p})
                 /\ UNCHANGED <<pool, masterVars, removed, starter, counters>>

\* A further start of the program attaches the same segment, unless it has been
\* removed, and clears it entry by entry.  It ends in EpollServerInit: the port
\* is still bound by the processes of the first start, the CA server among them.
Start == /\ starts < MaxStarts
         /\ starter = None /\ ~removed
         /\ starter' = 0
         /\ starts' = starts + 1
         /\ UNCHANGED <<pool, procVars, masterVars, removed, deaths, foreigns>>

StartClears == /\ starter \in Entries
               /\ pool' = [pool EXCEPT ![starter] = 0]
               /\ starter' = IF starter + 1 = SMaxPoll THEN None ELSE starter + 1
               /\ UNCHANGED <<procVars, masterVars, removed, counters>>

-----------------------------------------------------------------------------
Master == ScanTaken \/ ScanVacant \/ Sleep \/ ForkFails \/ SetPid

Handler(p) == \/ DeliverDefault(p) \/ DeliverWithParent(p) \/ DeliverOrphan(p)
              \/ ClearEntry(p) \/ ClearEnd(p)

Next == \/ Master \/ Fork \/ TermMaster
        \/ \E p \in Pids : \/ Install(p) \/ Crash(p) \/ TermWorker(p) \/ Handler(p)
                           \/ ForeignStart(p) \/ ForeignEnd(p)
        \/ Start \/ StartClears

\* The master runs on, a fork that is tried for ever succeeds some time, signals
\* are delivered and handlers run.
Fairness == /\ WF_vars(Master) /\ SF_vars(Fork)
            /\ \A p \in Pids : WF_vars(Install(p)) /\ WF_vars(Handler(p))
            /\ WF_vars(StartClears)

Spec == Init /\ [][Next]_vars /\ Fairness

-----------------------------------------------------------------------------
TypeOK ==
    /\ pool \in [Entries -> Pids \cup {0}]
    /\ proc \in [Pids -> {"free", "new", "worker", "foreign"}]
    /\ master \in {"scan", "fork", "setpid", "dead"}
    /\ cnt \in 0 .. SMaxPoll
    /\ child \in Pids \cup {0}
    /\ pending \subseteq Pids
    /\ clearing \in [Pids -> {None} \cup 0 .. SMaxPoll]
    /\ removed \in BOOLEAN
    /\ starter \in {None} \cup Entries
    /\ deaths \in 0 .. MaxDeaths
    /\ starts \in 0 .. MaxStarts
    /\ foreigns \in 0 .. MaxForeign

\* The types of the state, and: the pool never holds more workers than it was
\* configured for, whichever die and whichever ids are reused; every further
\* start of the program, though it fails, lets the master fork at most one pool
\* more.  And every live worker is in the table, where the clearing of the pool
\* finds it, except the one between fork and pool_setpid (for ever, if the master
\* dies there), and except what those starts wiped out.
PoolBound ==
    /\ TypeOK
    /\ Cardinality(Live) <= SMaxPoll * (1 + starts)
    /\ Cardinality(Live \ (Recorded \cup {child})) <= SMaxPoll * starts

\* Once an orphan has cleared the pool and removed the segment, no recorded
\* worker lives on without a SIGTERM pending or being handled, whoever was
\* killed while clearing.
ClearReachesRecorded ==
    removed => \A p \in Live \cap Recorded : p \in pending \/ clearing[p] # None

\* If workers stop dying, the pool fills up and stays full: each entry names a
\* process that exists (PID reuse: perhaps another program's), or the master
\* has died, or the kernel has no id left for another process.
PoolRefills == <>[](\/ master = "dead"
                    \/ \A i \in Entries : Exists(pool[i])
                    \/ \A p \in Pids : Exists(p))

-----------------------------------------------------------------------------
\* What the comment on OUT says (fenglingProcess.c: it catches SIGTERM, and its
\* body clears the pool): a SIGTERM to the master empties the pool.
TermEmptiesPool == master = "dead" ~> Live \cap Recorded = {}
=============================================================================
