------------------------- MODULE FenglingClientPool -------------------------
(***************************************************************************)
(* The client's pool of tunnels: CARun of fenglingCA.c with Cpool_monitor  *)
(* and pool_setpid of fenglingShm.c.  A monitor keeps CMaxPoll processes,  *)
(* each with one TLS connection to the server, in a table in shared        *)
(* memory without a lock.                                                  *)
(*                                                                         *)
(* The child of the fork does not end when its connection does: the case   *)
(* has no break, so it runs on into the parent's pool_setpid, with 0 for   *)
(* the child's id, and then into the loop: it has become a monitor.  From  *)
(* then on several monitors share the table.                               *)
(***************************************************************************)
EXTENDS Integers, FiniteSets

CONSTANTS CMaxPoll,     \* tunnels the client keeps open
          Pids,         \* process ids
          Root,         \* the id of the process that main started
          MaxDrops,     \* bound: connections the server closes
          MaxDeaths     \* bound: tunnels that exit or are killed

ASSUME PoolAssumption == CMaxPoll \in Nat \ {0}
ASSUME PidAssumption == /\ Pids \subseteq Nat \ {0} /\ IsFiniteSet(Pids)
                        /\ Root \in Pids
ASSUME BoundAssumption == {MaxDrops, MaxDeaths} \subseteq Nat

VARIABLES
    pool,       \* pool[i]: pSProc[i].PID
    pc,         \* pc[p]: free; a tunnel's connect, serve; a monitor's
                \*        probe, wipe, test, fork, setpid
    cnt,        \* cnt[p]: lCnt of p's scan, then p's _lCurRec, inherited by fork
    child,      \* child[p]: the process p forked and has not recorded yet
    drops, deaths,
    misnamed    \* history: a connection ended while another entry, or a monitor
                \* about to record it, named its process

vars == <<pool, pc, cnt, child, drops, deaths, misnamed>>

-----------------------------------------------------------------------------
Entries == 0 .. CMaxPoll - 1
TunnelLabels == {"connect", "serve"}
MonitorLabels == {"probe", "wipe", "test", "fork", "setpid"}

Tunnels == {p \in Pids : pc[p] \in TunnelLabels}
Monitors == {p \in Pids : pc[p] \in MonitorLabels}

\* kill(pid, 0) == 0.
Exists(p) == p \in Pids /\ pc[p] # "free"

Goto(p, l) == pc' = [pc EXCEPT ![p] = l]

Init == /\ pool = [i \in Entries |-> 0]
        /\ pc = [p \in Pids |-> IF p = Root THEN "probe" ELSE "free"]
        /\ cnt = [p \in Pids |-> 0]
        /\ child = [p \in Pids |-> 0]
        /\ drops = 0 /\ deaths = 0
        /\ misnamed = FALSE

-----------------------------------------------------------------------------
(* Cpool_monitor, entry by entry.  Another monitor may write the entry      *)
(* between any two of the three accesses.                                   *)

\* (mutant) an entry is never tested for a process that is gone
NoneGone(pid) == FALSE

\* PID > 0 && kill(PID, 0) != 0
Gone(pid) == pid # 0 /\ ~Exists(pid)

Probe(p) == /\ pc[p] = "probe" /\ cnt[p] \in Entries
            /\ Goto(p, IF Gone(pool[cnt[p]]) THEN "wipe" ELSE "test")
            /\ UNCHANGED <<pool, cnt, child, drops, deaths, misnamed>>

Wipe(p) == /\ pc[p] = "wipe"
           /\ pool' = [pool EXCEPT ![cnt[p]] = 0]
           /\ Goto(p, "test")
           /\ UNCHANGED <<cnt, child, drops, deaths, misnamed>>

TestVacant(p) == /\ pc[p] = "test"
                 /\ pool[cnt[p]] = 0
                 /\ Goto(p, "fork")
                 /\ UNCHANGED <<pool, cnt, child, drops, deaths, misnamed>>

TestTaken(p) == /\ pc[p] = "test"
                /\ pool[cnt[p]] # 0
                /\ cnt' = [cnt EXCEPT ![p] = @ + 1]
                /\ Goto(p, "probe")
                /\ UNCHANGED <<pool, child, drops, deaths, misnamed>>

\* All entries are taken: sleep(LDELAY), and scan from the first one.
Sleep(p) == /\ pc[p] = "probe" /\ cnt[p] = CMaxPoll
            /\ cnt' = [cnt EXCEPT ![p] = 0]
            /\ UNCHANGED <<pool, pc, child, drops, deaths, misnamed>>

-----------------------------------------------------------------------------
(* CARun. *)

\* The child starts with a copy of its parent's _lCurRec.
Fork(p) == /\ pc[p] = "fork"
           /\ \E q \in Pids :
                 /\ ~Exists(q)
                 /\ pc' = [pc EXCEPT ![p] = "setpid", ![q] = "connect"]
                 /\ cnt' = [cnt EXCEPT ![q] = cnt[p]]
                 /\ child' = [child EXCEPT ![p] = q]
           /\ UNCHANGED <<pool, drops, deaths, misnamed>>

ForkFails(p) == /\ pc[p] = "fork"
                /\ Goto(p, "probe")
                /\ cnt' = [cnt EXCEPT ![p] = 0]
                /\ UNCHANGED <<pool, child, drops, deaths, misnamed>>

Recording(p, pid) == /\ pc[p] = "setpid"
                     /\ pool' = [pool EXCEPT ![cnt[p]] = pid]
                     /\ Goto(p, "probe")
                     /\ cnt' = [cnt EXCEPT ![p] = 0]
                     /\ child' = [child EXCEPT ![p] = 0]
                     /\ UNCHANGED <<drops, deaths, misnamed>>

\* (mutant) a child that is not recorded
SetPidForgotten(p) == Recording(p, pool[cnt[p]])

\* pool_setpid(childPid) in the parent, and back to the loop.
SetPid(p) == Recording(p, child[p])

Connected(p) == /\ pc[p] = "connect"
                /\ Goto(p, "serve")
                /\ UNCHANGED <<pool, cnt, child, drops, deaths, misnamed>>

\* The connect fails, the certificate is refused, or the process is killed.
Die(p) == /\ deaths < MaxDeaths
          /\ p \in Tunnels
          /\ Goto(p, "free")
          /\ deaths' = deaths + 1
          /\ UNCHANGED <<pool, cnt, child, drops, misnamed>>

\* BIO_read returns <= 0: the child leaves its loop, runs on into
\* pool_setpid(0), which clears the entry it was forked for, and becomes a
\* monitor.
Dropped(p) == /\ drops < MaxDrops
              /\ pc[p] = "serve"
              /\ pool' = [pool EXCEPT ![cnt[p]] = 0]
              /\ Goto(p, "probe")
              /\ cnt' = [cnt EXCEPT ![p] = 0]
              /\ drops' = drops + 1
              /\ misnamed' = \/ misnamed
                             \/ \E m \in Monitors : child[m] = p
                             \/ \E i \in Entries : pool'[i] = p
              /\ UNCHANGED <<child, deaths>>

-----------------------------------------------------------------------------
Monitor(p) == \/ Probe(p) \/ Wipe(p) \/ TestVacant(p) \/ TestTaken(p) \/ Sleep(p)
              \/ ForkFails(p) \/ SetPid(p)

Next == \E p \in Pids : \/ Monitor(p) \/ Fork(p)
                        \/ Connected(p) \/ Die(p) \/ Dropped(p)

\* Some monitor runs on, and of the forks tried for ever some succeeds.
Fairness == WF_vars(\E p \in Pids : Monitor(p)) /\ SF_vars(\E p \in Pids : Fork(p))

Spec == Init /\ [][Next]_vars /\ Fairness

-----------------------------------------------------------------------------
TypeOK ==
    /\ pool \in [Entries -> Pids \cup {0}]
    /\ pc \in [Pids -> {"free"} \cup TunnelLabels \cup MonitorLabels]
    /\ cnt \in [Pids -> 0 .. CMaxPoll]
    /\ child \in [Pids -> Pids \cup {0}]
    /\ drops \in 0 .. MaxDrops
    /\ deaths \in 0 .. MaxDeaths
    /\ misnamed \in BOOLEAN

\* The types of the state, and: until a connection ends, the client has CMaxPoll
\* tunnels at most, each recorded or about to be.  (The first connection that
\* ends starts a second monitor, and two monitors may both fill the same entry.)
\* And a monitor forks into an entry it saw vacant, never past the table, and a
\* process that ends its connection clears an entry of the table: cnt stays what
\* the scan left, although it is copied by fork and reused.
TunnelBound ==
    /\ TypeOK
    /\ drops = 0 => /\ Cardinality(Tunnels) <= CMaxPoll
                    /\ Tunnels \subseteq {pool[i] : i \in Entries} \cup {child[p] : p \in Pids}
    /\ \A p \in Pids : pc[p] \in {"wipe", "test", "fork", "setpid"} \cup TunnelLabels =>
                           cnt[p] \in Entries

\* If connections stop ending, every entry comes to name a tunnel again, for
\* ever, however many monitors raced for it: unless an entry came to name a
\* monitor, as the process whose connection ended was not recorded yet, or had
\* the id of one recorded before; or the kernel has no id left.
TunnelsRestored == <>[](\/ misnamed
                        \/ \A i \in Entries : pool[i] \in Tunnels
                        \/ \A p \in Pids : Exists(p))
=============================================================================
