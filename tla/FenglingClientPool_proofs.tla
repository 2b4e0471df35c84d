---------------------- MODULE FenglingClientPool_proofs ----------------------
(***************************************************************************)
(* The client's pool for every size of its table and every finite set of   *)
(* process ids: how many tunnels there can be, and that no process writes  *)
(* outside the table, whoever has become a monitor.                        *)
(***************************************************************************)
EXTENDS FenglingClientPool, FiniteSetTheorems, TLAPS

-----------------------------------------------------------------------------
(* The inductive invariant. *)

\* What the entries of the table say.
Named == {pool[i] : i \in Entries}

\* A monitor that saw an entry, and whom it forked, keep to the table.
InEntry == \A p \in Pids : pc[p] \in {"wipe", "test", "fork", "setpid"} \cup TunnelLabels =>
                            cnt[p] \in Entries

\* Until a connection ends, Root is the only monitor: what it saw of an entry stays
\* so until it writes it, and every tunnel is in the table or about to be.
OneMonitor ==
    /\ \A p \in Pids : pc[p] \in MonitorLabels <=> p = Root
    /\ \A p \in Pids \ {Root} : child[p] = 0
    /\ child[Root] # 0 => pc[Root] = "setpid"
    /\ pc[Root] = "wipe" => Gone(pool[cnt[Root]])
    /\ pc[Root] \in {"fork", "setpid"} => pool[cnt[Root]] = 0
    /\ Tunnels \subseteq Named \cup {child[Root]}

ClientInv == TypeOK /\ InEntry /\ (drops = 0 => OneMonitor)

-----------------------------------------------------------------------------
\* The sizes one by one.
LEMMA ClientSizes ==
    /\ CMaxPoll \in Nat /\ CMaxPoll > 0
    /\ 0 \in Entries /\ CMaxPoll \notin Entries
    /\ \A i \in Entries : /\ i \in Nat /\ i < CMaxPoll
                          /\ i \in 0 .. CMaxPoll /\ i + 1 \in 0 .. CMaxPoll
    /\ 0 \in 0 .. CMaxPoll
    /\ \A p \in Pids : p \in Nat /\ p # 0
    /\ IsFiniteSet(Pids) /\ Root \in Pids
    /\ MaxDrops \in Nat /\ MaxDeaths \in Nat
BY PoolAssumption, PidAssumption, BoundAssumption DEF Entries

\* It holds at the start.
LEMMA InitClient == Init => ClientInv
<1> SUFFICES ASSUME Init PROVE ClientInv
    OBVIOUS
<1>1. TypeOK
    <2>1. 0 \in 0 .. CMaxPoll /\ 0 \in 0 .. MaxDrops /\ 0 \in 0 .. MaxDeaths
        BY ClientSizes
    <2> QED BY <2>1, Zenon DEF Init, TypeOK, MonitorLabels
<1>2. \A p \in Pids : pc[p] = IF p = Root THEN "probe" ELSE "free"
    BY DEF Init
<1>3. InEntry
    BY <1>2 DEF InEntry, TunnelLabels
<1>4. OneMonitor
    BY <1>2, ClientSizes DEF Init, OneMonitor, Tunnels, TunnelLabels,
                             MonitorLabels
<1> QED BY <1>1, <1>3, <1>4 DEF ClientInv

-----------------------------------------------------------------------------
\* Types, and that no step leaves the table, whoever is a monitor by then.
LEMMA ClientTypes ==
    TypeOK /\ InEntry /\ [Next]_vars =>
        TypeOK' /\ InEntry'
<1> SUFFICES ASSUME TypeOK, InEntry, [Next]_vars
             PROVE  TypeOK' /\ InEntry'
    OBVIOUS
<1> USE ClientSizes DEF TunnelLabels, MonitorLabels
<1>1. ASSUME NEW p \in Pids, Probe(p) PROVE TypeOK' /\ InEntry'
    BY <1>1 DEF Probe, Goto, TypeOK, InEntry
<1>2. ASSUME NEW p \in Pids, Wipe(p) PROVE TypeOK' /\ InEntry'
    BY <1>2 DEF Wipe, Goto, TypeOK, InEntry
<1>3. ASSUME NEW p \in Pids, TestVacant(p) PROVE TypeOK' /\ InEntry'
    BY <1>3 DEF TestVacant, Goto, TypeOK, InEntry
<1>4. ASSUME NEW p \in Pids, TestTaken(p) PROVE TypeOK' /\ InEntry'
    BY <1>4 DEF TestTaken, Goto, TypeOK, InEntry
<1>5. ASSUME NEW p \in Pids, Sleep(p) PROVE TypeOK' /\ InEntry'
    BY <1>5 DEF Sleep, Goto, TypeOK, InEntry
<1>6. ASSUME NEW p \in Pids, Fork(p) PROVE TypeOK' /\ InEntry'
    BY <1>6 DEF Fork, Exists, TypeOK, InEntry
<1>7. ASSUME NEW p \in Pids, ForkFails(p) PROVE TypeOK' /\ InEntry'
    BY <1>7 DEF ForkFails, Goto, TypeOK, InEntry
<1>8. ASSUME NEW p \in Pids, SetPid(p) PROVE TypeOK' /\ InEntry'
    BY <1>8 DEF SetPid, Recording, Goto, TypeOK, InEntry
<1>9. ASSUME NEW p \in Pids, Connected(p) PROVE TypeOK' /\ InEntry'
    BY <1>9 DEF Connected, Goto, TypeOK, InEntry
<1>10. ASSUME NEW p \in Pids, Die(p) PROVE TypeOK' /\ InEntry'
    BY <1>10 DEF Die, Goto, TypeOK, InEntry
<1>11. ASSUME NEW p \in Pids, Dropped(p) PROVE TypeOK' /\ InEntry'
    <2>1. misnamed' \in BOOLEAN
        BY <1>11, Zenon DEF Dropped
    <2>2. cnt[p] \in Entries /\ drops' \in 0 .. MaxDrops
        BY <1>11 DEF Dropped, InEntry, TypeOK
    <2> QED BY <1>11, <2>1, <2>2 DEF Dropped, Goto, TypeOK, InEntry
<1>12. CASE UNCHANGED vars
    BY <1>12 DEF vars, TypeOK, InEntry
<1> QED
    BY <1>1, <1>2, <1>3, <1>4, <1>5, <1>6, <1>7, <1>8, <1>9, <1>10, <1>11, <1>12
    DEF Next, Monitor

-----------------------------------------------------------------------------
\* No step but the end of a connection makes a second monitor.
LEMMA AloneKept ==
    TypeOK /\ InEntry /\ drops = 0 /\ OneMonitor /\ [Next]_vars =>
        drops' # 0 \/ OneMonitor'
<1> SUFFICES ASSUME TypeOK, InEntry, drops = 0, OneMonitor,
                    [Next]_vars, drops' = 0
             PROVE  OneMonitor'
    OBVIOUS
<1> USE ClientSizes DEF TunnelLabels, MonitorLabels
<1>0. \A p \in Pids : pc[p] \in MonitorLabels => p = Root
    BY DEF OneMonitor
<1>1. ASSUME NEW p \in Pids, Probe(p) PROVE OneMonitor'
    BY <1>0, <1>1 DEF Probe, Goto, TypeOK, OneMonitor, Gone, Exists,
                      Tunnels, Named
<1>2. ASSUME NEW p \in Pids, Wipe(p) PROVE OneMonitor'
    <2>1. p = Root /\ cnt[p] \in Entries /\ pool' = [pool EXCEPT ![cnt[Root]] = 0] /\ Gone(pool[cnt[Root]])
        BY <1>0, <1>2 DEF Wipe, OneMonitor, InEntry
    <2>2. pc' = [pc EXCEPT ![Root] = "test"] /\ cnt' = cnt /\ child' = child
        BY <1>2, <2>1 DEF Wipe, Goto
    <2>3. Tunnels' = Tunnels
        BY <2>1, <2>2, <1>2 DEF Tunnels, TypeOK, Wipe
    <2>4. ASSUME NEW q \in Tunnels, q \in Named PROVE q \in Named'
        <3>1. PICK i \in Entries : q = pool[i]
            BY <2>4 DEF Named
        <3>2. i # cnt[Root]
            BY <2>1, <2>4, <3>1 DEF Gone, Exists, Tunnels
        <3>3. pool'[i] = q
            BY <2>1, <3>1, <3>2 DEF TypeOK
        <3> QED BY <3>3 DEF Named
    <2> QED BY <2>1, <2>2, <2>3, <2>4, <1>2 DEF OneMonitor, TypeOK, Wipe
<1>3. ASSUME NEW p \in Pids, TestVacant(p) PROVE OneMonitor'
    BY <1>0, <1>3 DEF TestVacant, Goto, TypeOK, OneMonitor, Tunnels, Named
<1>4. ASSUME NEW p \in Pids, TestTaken(p) PROVE OneMonitor'
    BY <1>0, <1>4 DEF TestTaken, Goto, TypeOK, OneMonitor, Tunnels, Named
<1>5. ASSUME NEW p \in Pids, Sleep(p) PROVE OneMonitor'
    BY <1>0, <1>5 DEF Sleep, Goto, TypeOK, OneMonitor, Tunnels, Named
<1>6. ASSUME NEW p \in Pids, Fork(p) PROVE OneMonitor'
    <2>1. p = Root /\ child[Root] = 0 /\ pool[cnt[Root]] = 0
        BY <1>0, <1>6 DEF Fork, OneMonitor
    <2>2. PICK q \in Pids : /\ pc[q] = "free" /\ pc' = [pc EXCEPT ![Root] = "setpid", ![q] = "connect"]
                            /\ cnt' = [cnt EXCEPT ![q] = cnt[Root]]
                            /\ child' = [child EXCEPT ![Root] = q]
        BY <1>6, <2>1 DEF Fork, Exists
    <2>3. q # Root /\ pool' = pool
        BY <1>6, <2>1, <2>2 DEF Fork
    <2>4. \A r \in Pids : pc'[r] = IF r = Root THEN "setpid" ELSE IF r = q THEN "connect" ELSE pc[r]
        BY <2>2, <2>3 DEF TypeOK
    <2>5. \A r \in Pids : child'[r] = IF r = Root THEN q ELSE child[r]
        BY <2>2 DEF TypeOK
    <2>6. cnt'[Root] = cnt[Root]
        BY <2>2, <2>3 DEF TypeOK
    <2>7. Tunnels' \subseteq Tunnels \cup {q}
        BY <2>4 DEF Tunnels
    <2>8. 0 \notin Tunnels
        BY DEF Tunnels
    <2>9. Tunnels' \subseteq Named' \cup {child'[Root]}
        BY <2>1, <2>3, <2>5, <2>7, <2>8 DEF OneMonitor, Named
    <2> QED BY <2>1, <2>3, <2>4, <2>5, <2>6, <2>9 DEF OneMonitor
<1>7. ASSUME NEW p \in Pids, ForkFails(p) PROVE OneMonitor'
    BY <1>0, <1>7 DEF ForkFails, Goto, TypeOK, OneMonitor, Tunnels, Named
<1>8. ASSUME NEW p \in Pids, SetPid(p) PROVE OneMonitor'
    <2>1. p = Root /\ pool[cnt[Root]] = 0 /\ cnt[Root] \in Entries
        BY <1>0, <1>8 DEF SetPid, Recording, OneMonitor, InEntry
    <2>2. /\ pool' = [pool EXCEPT ![cnt[Root]] = child[Root]]
          /\ pc' = [pc EXCEPT ![Root] = "probe"]
          /\ child' = [child EXCEPT ![Root] = 0]
          /\ pc[Root] = "setpid"
        BY <1>8, <2>1 DEF SetPid, Recording, Goto
    <2>3. Tunnels' = Tunnels
        BY <2>2 DEF Tunnels, TypeOK
    <2>4. child[Root] \in Named'
        BY <2>1, <2>2 DEF Named, TypeOK
    <2>5. ASSUME NEW q \in Tunnels, q \in Named PROVE q \in Named'
        <3>1. PICK i \in Entries : q = pool[i]
            BY <2>5 DEF Named
        <3>2. i # cnt[Root]
            BY <2>1, <2>5, <3>1 DEF Tunnels
        <3>3. pool'[i] = q
            BY <2>2, <3>1, <3>2 DEF TypeOK
        <3> QED BY <3>3 DEF Named
    <2>6. Tunnels' \subseteq Named'
        BY <2>3, <2>4, <2>5 DEF OneMonitor
    <2> QED BY <2>2, <2>6 DEF OneMonitor, TypeOK
<1>9. ASSUME NEW p \in Pids, Connected(p) PROVE OneMonitor'
    BY <1>0, <1>9 DEF Connected, Goto, TypeOK, OneMonitor, Gone,
                      Exists, Tunnels, Named
<1>10. ASSUME NEW p \in Pids, Die(p) PROVE OneMonitor'
    BY <1>0, <1>10 DEF Die, Goto, TypeOK, OneMonitor, Gone, Exists,
                       Tunnels, Named
<1>11. ASSUME NEW p \in Pids, Dropped(p) PROVE OneMonitor'
    BY <1>11 DEF Dropped, TypeOK
<1>12. CASE UNCHANGED vars
    BY <1>12 DEF vars, OneMonitor, Gone, Exists, Tunnels, Named
<1> QED
    BY <1>1, <1>2, <1>3, <1>4, <1>5, <1>6, <1>7, <1>8, <1>9, <1>10, <1>11, <1>12
    DEF Next, Monitor

\* Ended connections are counted, never forgotten.
LEMMA DropsGrow ==
    TypeOK /\ [Next]_vars /\ drops' = 0 => drops = 0
<1> SUFFICES ASSUME TypeOK, [Next]_vars, drops # drops' PROVE drops' # 0
    OBVIOUS
<1>1. PICK p \in Pids : Dropped(p)
    BY DEF Next, Monitor, Probe, Wipe, TestVacant, TestTaken,
           Sleep, ForkFails, SetPid, Recording, Fork,
           Connected, Die, vars
<1> QED BY <1>1, ClientSizes DEF Dropped, TypeOK

\* A table of tunnels, with the child to be recorded in the entry kept vacant.
LEMMA FewTunnels ==
    TypeOK /\ InEntry /\ OneMonitor => Cardinality(Tunnels) <= CMaxPoll
<1> SUFFICES ASSUME TypeOK, InEntry, OneMonitor PROVE Cardinality(Tunnels) <= CMaxPoll
    OBVIOUS
<1> USE ClientSizes
<1> DEFINE table == IF child[Root] = 0 THEN pool ELSE [pool EXCEPT ![cnt[Root]] = child[Root]]
           Known == {table[i] : i \in Entries}
<1>1. Tunnels \subseteq Known
    <2> SUFFICES ASSUME NEW p \in Tunnels PROVE p \in Known
        OBVIOUS
    <2>1. p # 0
        BY DEF Tunnels
    <2>2. CASE p = child[Root]
        <3>1. cnt[Root] \in Entries /\ table[cnt[Root]] = p
            BY <2>1, <2>2 DEF OneMonitor, InEntry, TypeOK
        <3> QED BY <3>1
    <2>3. CASE p \in Named
        <3>1. PICK i \in Entries : pool[i] = p
            BY <2>3 DEF Named
        <3>2. child[Root] # 0 => i # cnt[Root]
            BY <2>1, <3>1 DEF OneMonitor
        <3>3. table[i] = p
            BY <3>1, <3>2 DEF TypeOK
        <3> QED BY <3>3
    <2> QED BY <2>2, <2>3 DEF OneMonitor
<1>2. IsFiniteSet(Known) /\ Cardinality(Known) \in Nat /\ Cardinality(Known) <= CMaxPoll
    <2>1. IsFiniteSet(Entries) /\ Cardinality(Entries) = CMaxPoll
        <3>1. 0 \in Int /\ CMaxPoll - 1 \in Int /\ ~(0 > CMaxPoll - 1) /\ CMaxPoll - 1 - 0 + 1 = CMaxPoll
            OBVIOUS
        <3> QED BY <3>1, FS_Interval DEF Entries
    <2>2. table \in Surjection(Entries, Known)
        <3>1. table = [i \in Entries |-> table[i]]
            BY DEF TypeOK
        <3> HIDE DEF table
        <3> QED BY <3>1 DEF Surjection
    <2> HIDE DEF table, Known
    <2> QED BY <2>1, <2>2, FS_Surjection, FS_CardinalityType
<1> HIDE DEF Known
<1>3. Cardinality(Tunnels) \in Nat /\ Cardinality(Tunnels) <= Cardinality(Known)
    BY <1>1, <1>2, FS_Subset, FS_CardinalityType
<1> QED BY <1>2, <1>3

\* The inductive invariant.
LEMMA ClientInvariant == Spec => []ClientInv
<1>1. Init => ClientInv
    BY InitClient
<1>2. ClientInv /\ [Next]_vars => ClientInv'
    BY ClientTypes, AloneKept, DropsGrow DEF ClientInv
<1> QED BY <1>1, <1>2, PTL DEF Spec

\* For every CMaxPoll and every set of ids: until a connection ends, the client has
\* CMaxPoll tunnels at most, each in the table or about to be (Cpool_monitor, fork
\* and pool_setpid of one monitor); and for ever, every process that will write an
\* entry has an entry of the table to write.
THEOREM TunnelsBounded == Spec => []TunnelBound
<1>1. ClientInv => TunnelBound
    <2> SUFFICES ASSUME ClientInv PROVE TunnelBound
        OBVIOUS
    <2>1. drops = 0 => Cardinality(Tunnels) <= CMaxPoll
        BY FewTunnels DEF ClientInv
    <2>2. drops = 0 => Tunnels \subseteq {pool[i] : i \in Entries} \cup {child[p] : p \in Pids}
        BY ClientSizes DEF ClientInv, OneMonitor, Named
    <2> QED BY <2>1, <2>2 DEF ClientInv, InEntry, TunnelBound
<1> QED BY <1>1, ClientInvariant, PTL
=============================================================================
