------------------------ MODULE FenglingRoute_proofs ------------------------
(***************************************************************************)
(* The route table for every number of processes, names, connections and   *)
(* slots: types, mutual exclusion under deaths and faults, that no lookup  *)
(* returns another client's tunnel, where names and probes can be, that    *)
(* cursors come round, that a tunnel is registered once, and that the      *)
(* table implements the registry.  Then the homes of names, for an int of  *)
(* any width and keys of any length.                                       *)
(***************************************************************************)
EXTENDS FenglingRoute, FiniteSetTheorems, TLAPS

CONSTANTS WordSize, Mult, KeyChars

VARIABLES word, read

Index == INSTANCE KeyToIndex WITH index <- word, len <- read

-----------------------------------------------------------------------------
(* The inductive invariant. *)

\* The permit is in the semaphore, or with the one process that is inside.
Free == /\ semval = 1
        /\ \A p \in Procs : pc[p] \notin Critical /\ semadj[p] = 0

HeldBy(h) == /\ semval = 0
             /\ pc[h] \in Critical /\ semadj[h] = 1
             /\ \A p \in Procs \ {h} : pc[p] \notin Critical /\ semadj[p] = 0

OnePermit == Free \/ \E h \in Procs : HeldBy(h)

\* Only CA registers, and what it registers; only workers look up.
RolesOf(p) ==
    /\ pc[p] \in SetLabels \cup {"set_p"} =>
          p = CA /\ conn[p] \in Conns /\ key[p] = Sub[conn[p]]
    /\ pc[p] \in GetLabels \cup {"get_p"} => p \in Workers /\ key[p] \in Subdomains

\* What p knows of the slot it has stopped at.
SlotOf(p) ==
    /\ pc[p] \in HalfWritten \cup {"get_inc"} => index[p] \in Slots
    /\ pc[p] \in HalfWritten \ {"get_wrap"} => subdomain[index[p]] = Stored[key[p]]
    /\ pc[p] \in {"add_fd", "add_counts"} => nowcounts[index[p]] <= S1MaxListen
    /\ pc[p] = "get_inc" => now[index[p]] < MaxCursor

\* The result of a lookup, from the time it is read until the call returns.
ResultOf(p) == sock[p] \in Conns => pc[p] \in {"get_inc", "get_wrap", "get_v"}

\* Every handle of a slot was registered under the slot's name.
HandlesOwned == \A i \in Slots, j \in Handles :
                   fd[i][j] \in Conns => Stored[Sub[fd[i][j]]] = subdomain[i]

Inv == /\ TypeOK
       /\ OnePermit
       /\ \A p \in Procs : RolesOf(p) /\ SlotOf(p) /\ ResultOf(p)
       /\ HandlesOwned

Labels == {"idle", "set_p", "get_p", "dead"} \cup Critical

-----------------------------------------------------------------------------
\* The sizes one by one.
LEMMA Sizes ==
    /\ MAXROUTE \in Nat /\ MAXSUBDOMAIN \in Nat /\ TailSlots \in Nat
    /\ MAXCLIENTCONN \in Nat /\ S1MaxListen \in Nat /\ MaxCursor \in Nat
    /\ 1 < MAXSUBDOMAIN /\ MAXSUBDOMAIN < MAXROUTE - 2
    /\ S1MaxListen < MAXCLIENTCONN /\ HEADER \in Nat /\ Stride \in Nat /\ 0 < Stride
    /\ MAXCLIENTCONN <= Stride /\ Stride <= MaxCursor
BY SizeAssumption DEF Stride

LEMMA InitInv == Init => Inv
<1> SUFFICES ASSUME Init PROVE Inv
    OBVIOUS
<1> USE DEF Init, SemInit
<1>1. TypeOK
    BY ConnAssumption, SizeAssumption DEF TypeOK, SemTypeOK, Handles
<1>2. OnePermit
    BY DEF OnePermit, Free, Critical, SetLabels, GetLabels
<1>3. \A p \in Procs : RolesOf(p) /\ SlotOf(p) /\ ResultOf(p)
    BY ConnAssumption DEF RolesOf, SlotOf, ResultOf, SetLabels, GetLabels, HalfWritten
<1>4. HandlesOwned
    BY ConnAssumption DEF HandlesOwned
<1> QED BY <1>1, <1>2, <1>3, <1>4 DEF Inv

-----------------------------------------------------------------------------
(* Types.  The bound of nowcounts needs to know who registers, the bound of *)
(* now who looks up.                                                        *)
LEMMA TypeStep ==
    ASSUME Inv, [Next]_vars
    PROVE  TypeOK'
<1> USE DEF Inv, TypeOK, SemTypeOK, semVars, table, call, Critical, SetLabels, GetLabels
<1>1. ASSUME NEW p \in Procs, CallSet(p) PROVE TypeOK'
    <2>1. PICK c \in Conns : /\ key' = [key EXCEPT ![p] = Sub[c]] /\ conn' = [conn EXCEPT ![p] = c]
                             /\ index' = [index EXCEPT ![p] = Home[Sub[c]]]
        BY <1>1 DEF CallSet
    <2>2. Sub[c] \in Subdomains /\ Home[Sub[c]] \in Nat
        BY ConnAssumption, HomeAssumption, Sizes
    <2> QED BY <1>1, <2>1, <2>2 DEF CallSet, Goto
<1>2. ASSUME NEW p \in Procs, CallGet(p) PROVE TypeOK'
    <2>1. PICK k \in Subdomains : key' = [key EXCEPT ![p] = k] /\ index' = [index EXCEPT ![p] = Home[k]]
        BY <1>2 DEF CallGet
    <2>2. Home[k] \in Nat
        BY HomeAssumption, Sizes
    <2> QED BY <1>2, <2>1, <2>2 DEF CallGet, Goto
<1>3. ASSUME NEW p \in Procs, Enter(p) PROVE TypeOK'
    BY <1>3 DEF Enter, Goto, At, sem_p
<1>4. ASSUME NEW p \in Procs, SetEmpty(p) PROVE TypeOK'
    <2>1. Stored[key[p]] \in Fits
        BY <1>4, NameAssumption, ConnAssumption DEF SetEmpty, At, RolesOf
    <2> QED BY <1>4, <2>1 DEF SetEmpty, Goto
<1>5. ASSUME NEW p \in Procs, SetTotal(p) PROVE TypeOK'
    BY ConnAssumption, <1>5 DEF SetTotal, Goto, At, RolesOf, SetLabels
<1>6. ASSUME NEW p \in Procs, SetCounts(p) PROVE TypeOK'
    <2>1. 1 \in 0 .. S1MaxListen + 1
        BY Sizes
    <2> QED BY <1>6, <2>1 DEF SetCounts, Goto
<1>7. ASSUME NEW p \in Procs, SetNow(p) PROVE TypeOK'
    <2>1. 0 \in 0 .. MaxCursor
        BY Sizes
    <2> QED BY <1>7, <2>1 DEF SetNow, Goto
<1>8. ASSUME NEW p \in Procs, SetFd(p) PROVE TypeOK'
    BY Sizes, <1>8 DEF SetFd, Goto, At, RolesOf, SetLabels
<1>9. ASSUME NEW p \in Procs, AddTotal(p) PROVE TypeOK'
    BY ConnAssumption, <1>9 DEF AddTotal, Goto, At, RolesOf, SetLabels
<1>10. ASSUME NEW p \in Procs, AddFd(p) PROVE TypeOK'
    BY Sizes, <1>10 DEF AddFd, AddFdAt, Goto, At, RolesOf, SetLabels
<1>11. ASSUME NEW p \in Procs, AddCounts(p) PROVE TypeOK'
    BY Sizes, <1>11 DEF AddCounts, Goto, At, SlotOf, HalfWritten
<1>12. ASSUME NEW p \in Procs, SetSkip(p) PROVE TypeOK'
    BY Sizes, <1>12 DEF SetSkip, After, Goto, At
<1>13. ASSUME NEW p \in Procs, SetReturn(p) PROVE TypeOK'
    <2>1. SemTypeOK'
        BY <1>13 DEF SetReturn, sem_v
    <2>2. status' \in [Conns -> {"new", "ok", "full"}]
        BY <1>13 DEF SetReturn
    <2>3. pc' \in [Procs -> Labels]
        BY <1>13 DEF SetReturn, Goto, Labels
    <2> QED BY <1>13, <2>1, <2>2, <2>3 DEF SetReturn, EndCall, Labels
<1>14. ASSUME NEW p \in Procs, GetMiss(p) PROVE TypeOK'
    BY <1>14 DEF GetMiss, Goto, At
<1>15. ASSUME NEW p \in Procs, GetHit(p) PROVE TypeOK'
    <2>1. Handle(index[p]) \in Conns \cup {NULL, WILD}
        BY <1>15 DEF GetHit, Handle
    <2> QED BY <1>15, <2>1 DEF GetHit, Goto, At
<1>16. ASSUME NEW p \in Procs, GetInc(p) PROVE TypeOK'
    BY Sizes, <1>16 DEF GetInc, SetCursor, Goto, At, SlotOf, HalfWritten
<1>17. ASSUME NEW p \in Procs, GetWrap(p) PROVE TypeOK'
    <2>1. 0 \in 0 .. MaxCursor
        BY Sizes
    <2>2. now' \in [Slots -> 0 .. MaxCursor]
        BY <1>17, <2>1 DEF GetWrap, WrapTo, SetCursor
    <2> QED BY <1>17, <2>2 DEF GetWrap, WrapTo, SetCursor, Goto
<1>18. ASSUME NEW p \in Procs, GetSkip(p) PROVE TypeOK'
    BY Sizes, <1>18 DEF GetSkip, GetSkipTo, After, Goto, At
<1>19. ASSUME NEW p \in Procs, GetReturn(p) PROVE TypeOK'
    BY <1>19 DEF GetReturn, EndCall, Goto, At, sem_v
<1>20. ASSUME NEW p \in Procs, Fault(p) PROVE TypeOK'
    BY <1>20 DEF Fault, Exit, EndCall, Goto, At, exit_undo, SlotOf, HalfWritten
<1>21. ASSUME NEW p \in Procs, Kill(p) PROVE TypeOK'
    BY <1>21 DEF Kill, Exit, EndCall, Goto, At, exit_undo, SlotOf, HalfWritten
<1>22. ASSUME NEW p \in Procs, Respawn(p) PROVE TypeOK'
    BY <1>22 DEF Respawn, Goto, At
<1>23. CASE UNCHANGED vars
    BY <1>23 DEF vars
<1> QED BY <1>1, <1>2, <1>3, <1>4, <1>5, <1>6, <1>7, <1>8, <1>9, <1>10, <1>11, <1>12, <1>13, <1>14, <1>15, <1>16, <1>17, <1>18, <1>19, <1>20, <1>21, <1>22, <1>23 DEF Next, Set, Get

-----------------------------------------------------------------------------
(* Mutual exclusion. *)

\* A process that keeps the permit, or stays without it, changes nothing.
LEMMA SamePermits ==
    ASSUME TypeOK, OnePermit, NEW p \in Procs, NEW l,
           pc' = [pc EXCEPT ![p] = l],
           pc[p] \in Critical <=> l \in Critical,
           UNCHANGED semVars
    PROVE  OnePermit'
<1> USE DEF TypeOK, SemTypeOK, semVars
<1>1. \A q \in Procs : pc'[q] \in Critical <=> pc[q] \in Critical
    OBVIOUS
<1>2. CASE Free
    BY <1>1, <1>2 DEF Free, OnePermit
<1>3. CASE \E h \in Procs : HeldBy(h)
    BY <1>1, <1>3 DEF HeldBy, OnePermit
<1> QED BY <1>2, <1>3 DEF OnePermit

\* Whatever ends p gives the permit back if p had it, and only then.
LEMMA ExitPermits ==
    ASSUME TypeOK, OnePermit, NEW p \in Procs, Exit(p)
    PROVE  OnePermit'
<1> USE DEF TypeOK, SemTypeOK, Exit, Goto, exit_undo
<1>1. pc' = [pc EXCEPT ![p] = "dead"] /\ "dead" \notin Critical
    BY DEF Critical, SetLabels, GetLabels
<1>2. CASE Free
    <2>1. Free'
        BY <1>1, <1>2 DEF Free
    <2> QED BY <2>1 DEF OnePermit
<1>3. CASE HeldBy(p)
    <2>1. Free'
        BY <1>1, <1>3 DEF Free, HeldBy
    <2> QED BY <2>1 DEF OnePermit
<1>4. ASSUME NEW h \in Procs \ {p}, HeldBy(h) PROVE OnePermit'
    <2>1. HeldBy(h)'
        BY <1>1, <1>4 DEF HeldBy
    <2> QED BY <2>1 DEF OnePermit
<1> QED BY <1>2, <1>3, <1>4 DEF OnePermit

\* sem_v after a call.
LEMMA ReturnPermits ==
    ASSUME TypeOK, OnePermit, NEW p \in Procs,
           pc[p] \in Critical, sem_v(p), pc' = [pc EXCEPT ![p] = "idle"]
    PROVE  OnePermit'
<1> USE DEF TypeOK, SemTypeOK, sem_v
<1>1. "idle" \notin Critical
    BY DEF Critical, SetLabels, GetLabels
<1>2. HeldBy(p)
    BY DEF OnePermit, Free, HeldBy
<1>3. Free'
    BY <1>1, <1>2 DEF Free, HeldBy
<1> QED BY <1>3 DEF OnePermit

LEMMA PermitStep ==
    ASSUME TypeOK, OnePermit, [Next]_vars
    PROVE  OnePermit'
<1> USE DEF Goto, At
<1>1. ASSUME NEW p \in Procs, CallSet(p) \/ CallGet(p) \/ Respawn(p) PROVE OnePermit'
    <2>1. PICK l \in {"set_p", "get_p", "idle"} : pc' = [pc EXCEPT ![p] = l]
        BY <1>1 DEF CallSet, CallGet, Respawn
    <2>2. pc[p] \notin Critical /\ l \notin Critical
        BY <1>1 DEF CallSet, CallGet, Respawn, Critical, SetLabels, GetLabels
    <2>3. UNCHANGED semVars
        BY <1>1 DEF CallSet, CallGet, Respawn
    <2> QED BY <2>1, <2>2, <2>3, SamePermits
<1>2. ASSUME NEW p \in Procs, Enter(p) PROVE OnePermit'
    <2> USE DEF TypeOK, SemTypeOK
    <2>1. Free
        BY <1>2 DEF Enter, sem_p, OnePermit, HeldBy
    <2>2. pc'[p] \in Critical /\ \A q \in Procs \ {p} : pc'[q] = pc[q]
        BY <1>2 DEF Enter, Critical, SetLabels, GetLabels
    <2>3. HeldBy(p)'
        BY <1>2, <2>1, <2>2 DEF Enter, sem_p, Free, HeldBy
    <2> QED BY <2>3 DEF OnePermit
<1>3. ASSUME NEW p \in Procs,
             \/ SetEmpty(p) \/ SetTotal(p) \/ SetCounts(p) \/ SetNow(p) \/ SetFd(p)
             \/ AddTotal(p) \/ AddFd(p) \/ AddCounts(p) \/ SetSkip(p)
      PROVE  OnePermit'
    <2>1. PICK l \in Critical : pc' = [pc EXCEPT ![p] = l]
        BY <1>3 DEF SetEmpty, SetTotal, SetCounts, SetNow, SetFd, AddTotal, AddFd, AddFdAt,
                    AddCounts, SetSkip, Critical, SetLabels
    <2>2. pc[p] \in Critical /\ UNCHANGED semVars
        BY <1>3 DEF SetEmpty, SetTotal, SetCounts, SetNow, SetFd, AddTotal, AddFd, AddFdAt,
                    AddCounts, SetSkip, Critical, SetLabels
    <2> QED BY <2>1, <2>2, SamePermits
<1>4. ASSUME NEW p \in Procs,
             GetMiss(p) \/ GetHit(p) \/ GetInc(p) \/ GetWrap(p) \/ GetSkip(p)
      PROVE  OnePermit'
    <2>1. PICK l \in Critical : pc' = [pc EXCEPT ![p] = l]
        BY <1>4 DEF GetMiss, GetHit, GetInc, SetCursor, GetWrap, WrapTo, GetSkip, GetSkipTo, Critical, GetLabels
    <2>2. pc[p] \in Critical /\ UNCHANGED semVars
        BY <1>4 DEF GetMiss, GetHit, GetInc, SetCursor, GetWrap, WrapTo, GetSkip, GetSkipTo, Critical, GetLabels
    <2> QED BY <2>1, <2>2, SamePermits
<1>5. ASSUME NEW p \in Procs, SetReturn(p) \/ GetReturn(p) PROVE OnePermit'
    <2>1. pc[p] \in Critical /\ sem_v(p) /\ pc' = [pc EXCEPT ![p] = "idle"]
        BY <1>5 DEF SetReturn, GetReturn, Critical, SetLabels, GetLabels
    <2> QED BY <2>1, ReturnPermits
<1>6. ASSUME NEW p \in Procs, Fault(p) \/ Kill(p) PROVE OnePermit'
    BY <1>6, ExitPermits DEF Fault, Kill
<1>7. CASE UNCHANGED vars
    BY <1>7 DEF vars, semVars, OnePermit, Free, HeldBy
<1> QED BY <1>1, <1>2, <1>3, <1>4, <1>5, <1>6, <1>7 DEF Next, Set, Get

\* The permit is exclusive.
LEMMA OneInside == OnePermit => MutualExclusion
BY DEF OnePermit, Free, HeldBy, MutualExclusion

\* While the semaphore has its permit, nobody is inside.
LEMMA FreeWhenFree ==
    ASSUME OnePermit, semval = 1
    PROVE  \A p \in Procs : pc[p] \notin Critical
<1>1. \A h \in Procs : ~HeldBy(h)
    BY DEF HeldBy
<1> QED BY <1>1 DEF OnePermit, Free

-----------------------------------------------------------------------------
(* What a process knows of its call and of its slot. *)

Step(p) == \/ CallSet(p) \/ CallGet(p) \/ Enter(p) \/ Set(p) \/ Get(p)
           \/ Fault(p) \/ Kill(p) \/ Respawn(p)

\* A step of p touches p's call only, and the table only from inside.
LEMMA Frame ==
    ASSUME TypeOK, NEW p \in Procs, Step(p), NEW q \in Procs, q # p
    PROVE  /\ pc'[q] = pc[q]
           /\ key'[q] = key[q] /\ conn'[q] = conn[q]
           /\ index'[q] = index[q] /\ sock'[q] = sock[q]
           /\ pc[p] \in Critical \/ UNCHANGED table
<1> USE DEF TypeOK, Goto, At, call, table, EndCall, Critical
<1>1. CASE CallSet(p) \/ CallGet(p) \/ Enter(p) \/ Respawn(p)
    BY <1>1 DEF CallSet, CallGet, Enter, Respawn
<1>2. CASE SetEmpty(p) \/ SetTotal(p) \/ SetCounts(p) \/ SetNow(p) \/ SetFd(p)
    BY <1>2 DEF SetEmpty, SetTotal, SetCounts, SetNow, SetFd, SetLabels
<1>3. CASE AddTotal(p) \/ AddFd(p) \/ AddCounts(p) \/ SetSkip(p) \/ SetReturn(p)
    BY <1>3 DEF AddTotal, AddFd, AddFdAt, AddCounts, SetSkip, SetReturn, SetLabels
<1>4. CASE Get(p)
    BY <1>4 DEF Get, GetMiss, GetHit, GetInc, SetCursor, GetWrap, WrapTo, GetSkip, GetSkipTo, GetReturn, GetLabels
<1>5. CASE Fault(p) \/ Kill(p)
    BY <1>5 DEF Fault, Kill, Exit
<1> QED BY <1>1, <1>2, <1>3, <1>4, <1>5 DEF Step, Set

\* So what another process knows stays true.
LEMMA OthersKnow ==
    ASSUME Inv, NEW p \in Procs, Step(p), NEW q \in Procs, q # p
    PROVE  RolesOf(q)' /\ SlotOf(q)' /\ ResultOf(q)'
<1>1. RolesOf(q) /\ SlotOf(q) /\ ResultOf(q) /\ TypeOK /\ OnePermit
    BY DEF Inv
<1>2. /\ pc'[q] = pc[q]
      /\ key'[q] = key[q] /\ conn'[q] = conn[q]
      /\ index'[q] = index[q] /\ sock'[q] = sock[q]
      /\ pc[p] \in Critical \/ UNCHANGED table
    BY <1>1, Frame
<1>3. RolesOf(q)' /\ ResultOf(q)'
    BY <1>1, <1>2 DEF RolesOf, ResultOf
<1>4. CASE UNCHANGED table
    BY <1>1, <1>2, <1>3, <1>4 DEF SlotOf, table
<1>5. CASE pc[p] \in Critical
    <2>1. pc[q] \notin Critical
        BY <1>1, <1>5, OneInside DEF MutualExclusion
    <2>2. pc[q] \notin HalfWritten \cup {"get_inc", "add_fd", "add_counts"}
        BY <2>1 DEF HalfWritten, Critical, SetLabels, GetLabels
    <2> QED BY <1>2, <1>3, <2>2 DEF SlotOf
<1> QED BY <1>2, <1>4, <1>5

LEMMA RolesStep ==
    ASSUME Inv, NEW p \in Procs, Step(p)
    PROVE  RolesOf(p)'
<1> USE DEF Inv, TypeOK, RolesOf, Goto, At, SetLabels, GetLabels, call
<1>1. CASE CallSet(p) \/ CallGet(p) \/ Enter(p) \/ Respawn(p)
    BY <1>1 DEF CallSet, CallGet, Enter, Respawn
<1>2. CASE SetEmpty(p) \/ SetTotal(p) \/ SetCounts(p) \/ SetNow(p) \/ SetFd(p)
    BY <1>2 DEF SetEmpty, SetTotal, SetCounts, SetNow, SetFd
<1>3. CASE AddTotal(p) \/ AddFd(p) \/ AddCounts(p) \/ SetSkip(p) \/ SetReturn(p)
    BY <1>3 DEF AddTotal, AddFd, AddFdAt, AddCounts, SetSkip, SetReturn
<1>4. CASE Get(p)
    BY <1>4 DEF Get, GetMiss, GetHit, GetInc, SetCursor, GetWrap, WrapTo, GetSkip, GetSkipTo, GetReturn
<1>5. CASE Fault(p) \/ Kill(p)
    BY <1>5 DEF Fault, Kill, Exit
<1> QED BY <1>1, <1>2, <1>3, <1>4, <1>5 DEF Step, Set

LEMMA SlotStep ==
    ASSUME Inv, NEW p \in Procs, Step(p)
    PROVE  SlotOf(p)'
<1> USE DEF Inv, TypeOK, SlotOf, HalfWritten, Goto, At, call, table
<1>1. CASE CallSet(p) \/ CallGet(p) \/ Enter(p) \/ Respawn(p)
    BY <1>1 DEF CallSet, CallGet, Enter, Respawn
<1>2. CASE SetEmpty(p)
    BY <1>2, NameAssumption DEF SetEmpty
<1>3. CASE SetTotal(p) \/ SetCounts(p) \/ SetNow(p) \/ SetFd(p)
    BY <1>3 DEF SetTotal, SetCounts, SetNow, SetFd
<1>4. CASE AddTotal(p)
    <2>1. subdomain[index[p]] = Stored[key[p]] /\ nowcounts[index[p]] <= S1MaxListen
        BY <1>4, NameAssumption DEF AddTotal, Joins, Matches
    <2> QED BY <1>4, <2>1 DEF AddTotal
<1>5. CASE AddFd(p) \/ AddCounts(p) \/ SetSkip(p) \/ SetReturn(p)
    BY <1>5 DEF AddFd, AddFdAt, AddCounts, SetSkip, SetReturn
<1>6. CASE Get(p)
    BY <1>6 DEF Get, GetMiss, GetHit, GetInc, SetCursor, GetWrap, WrapTo, GetSkip, GetSkipTo, GetReturn
<1>7. CASE Fault(p) \/ Kill(p)
    BY <1>7 DEF Fault, Kill, Exit
<1> QED BY <1>1, <1>2, <1>3, <1>4, <1>5, <1>6, <1>7 DEF Step, Set

\* A lookup has a result only between its reading and its return.
LEMMA ResultStep ==
    ASSUME Inv, NEW p \in Procs, Step(p)
    PROVE  ResultOf(p)'
<1> USE DEF Inv, TypeOK, ResultOf, Goto, At, call, EndCall
<1>1. CASE CallSet(p) \/ CallGet(p) \/ Enter(p) \/ Respawn(p)
    BY <1>1 DEF CallSet, CallGet, Enter, Respawn
<1>2. CASE SetEmpty(p) \/ SetTotal(p) \/ SetCounts(p) \/ SetNow(p) \/ SetFd(p)
    BY <1>2 DEF SetEmpty, SetTotal, SetCounts, SetNow, SetFd
<1>3. CASE AddTotal(p) \/ AddFd(p) \/ AddCounts(p) \/ SetSkip(p)
    BY <1>3 DEF AddTotal, AddFd, AddFdAt, AddCounts, SetSkip
<1>4. CASE SetReturn(p) \/ GetReturn(p)
    BY <1>4, ConnAssumption DEF SetReturn, GetReturn
<1>5. CASE GetHit(p)
    BY <1>5 DEF GetHit
<1>6. CASE GetMiss(p) \/ GetInc(p) \/ GetWrap(p) \/ GetSkip(p)
    BY <1>6 DEF GetMiss, GetInc, SetCursor, GetWrap, WrapTo, GetSkip, GetSkipTo
<1>7. CASE Fault(p) \/ Kill(p)
    BY <1>7, ConnAssumption DEF Fault, Kill, Exit
<1> QED BY <1>1, <1>2, <1>3, <1>4, <1>5, <1>6, <1>7 DEF Step, Set, Get

\* A handle is written under the name of its slot, and only an empty slot, which
\* has no handles, is given a name.
LEMMA OwnedStep ==
    ASSUME Inv, NEW p \in Procs, Step(p)
    PROVE  HandlesOwned'
<1> USE DEF Inv, TypeOK, HandlesOwned, At, table
<1>1. CASE SetEmpty(p)
    <2>1. \A j \in Handles : fd[index[p]][j] \notin Conns
        BY <1>1, NameAssumption, ConnAssumption DEF SetEmpty
    <2> QED BY <1>1, <2>1 DEF SetEmpty
<1>2. CASE SetFd(p) \/ AddFd(p)
    <2>1. /\ index[p] \in Slots /\ conn[p] \in Conns
          /\ subdomain[index[p]] = Stored[Sub[conn[p]]]
        BY <1>2 DEF SetFd, AddFd, AddFdAt, RolesOf, SlotOf, HalfWritten, SetLabels
    <2>2. PICK n : fd' = [fd EXCEPT ![index[p]][n] = conn[p]]
        BY <1>2 DEF SetFd, AddFd, AddFdAt
    <2>3. UNCHANGED subdomain
        BY <1>2 DEF SetFd, AddFd, AddFdAt
    <2> QED BY <2>1, <2>2, <2>3
<1>3. CASE ~SetEmpty(p) /\ ~SetFd(p) /\ ~AddFd(p)
    <2>1. UNCHANGED <<subdomain, fd>>
        BY <1>3 DEF Step, Set, Get, CallSet, CallGet, Enter, Respawn, SetTotal,
                    SetCounts, SetNow, AddTotal, AddCounts, SetSkip, SetReturn, GetMiss,
                    GetHit, GetInc, SetCursor, GetWrap, WrapTo, GetSkip, GetSkipTo, GetReturn, Fault, Kill, Exit
    <2> QED BY <2>1
<1> QED BY <1>1, <1>2, <1>3

-----------------------------------------------------------------------------
LEMMA InvHolds == Spec => []Inv
<1>1. Inv /\ [Next]_vars => Inv'
    <2> SUFFICES ASSUME Inv, [Next]_vars PROVE Inv'
        OBVIOUS
    <2>1. TypeOK' /\ OnePermit'
        BY TypeStep, PermitStep DEF Inv
    <2>2. CASE UNCHANGED vars
        <3>1. HandlesOwned' /\ \A p \in Procs : (RolesOf(p) /\ SlotOf(p) /\ ResultOf(p))'
            BY <2>2 DEF Inv, vars, table, call, RolesOf, SlotOf, ResultOf, HandlesOwned
        <3> QED BY <2>1, <3>1 DEF Inv
    <2>3. ASSUME NEW p \in Procs, Step(p) PROVE Inv'
        <3>1. \A q \in Procs : (RolesOf(q) /\ SlotOf(q) /\ ResultOf(q))'
            BY <2>3, OthersKnow, RolesStep, SlotStep, ResultStep
        <3> QED BY <2>1, <2>3, <3>1, OwnedStep DEF Inv
    <2> QED BY <2>2, <2>3 DEF Next, Step
<1> QED BY <1>1, InitInv, PTL DEF Spec

\* Every variable of the table and of its users keeps its type.
THEOREM TypeCorrect == Spec => []TypeOK
<1>1. Inv => TypeOK
    BY DEF Inv
<1> QED BY <1>1, InvHolds, PTL

\* SetFLRoute and GetFLRoute exclude each other, whichever process dies or
\* faults inside, for any number of workers.
THEOREM Exclusion == Spec => []MutualExclusion
<1>1. Inv => MutualExclusion
    BY OneInside DEF Inv
<1> QED BY <1>1, InvHolds, PTL

-----------------------------------------------------------------------------
(* Where names settle and probes go. *)

\* Only a slot of the two regions has a name.
Named == \A i \in Slots : subdomain[i] # EMPTY => i < MAXSUBDOMAIN \/ i >= MAXROUTE - 2

\* A probe is in its name's region from the call on, and stays there.
ProbeOf(p) == pc[p] \in Critical \cup {"set_p", "get_p"} =>
                 IF Low(key[p]) THEN index[p] < MAXSUBDOMAIN ELSE index[p] >= MAXROUTE - 2

Regions == Named /\ \A p \in Procs : ProbeOf(p)

\* One step of a probe does not leave the region.
LEMMA AfterStays ==
    ASSUME NEW k \in Subdomains, NEW i \in Nat,
           IF Low(k) THEN i < MAXSUBDOMAIN ELSE i >= MAXROUTE - 2
    PROVE  IF Low(k) THEN After(i) < MAXSUBDOMAIN ELSE After(i) >= MAXROUTE - 2
BY Sizes DEF After

\* It starts there.
LEMMA HomeInRegion ==
    ASSUME NEW k \in Subdomains
    PROVE  IF Low(k) THEN Home[k] < MAXSUBDOMAIN ELSE Home[k] >= MAXROUTE - 2
BY Sizes, HomeAssumption DEF Low

\* A call starts at its home, and After moves on.
LEMMA ProbeStep ==
    ASSUME Inv, NEW p \in Procs, ProbeOf(p), Step(p)
    PROVE  ProbeOf(p)'
<1> USE DEF Inv, TypeOK, ProbeOf, RolesOf, Goto, At, Critical, SetLabels, GetLabels, call
<1>1. CASE CallSet(p)
    <2>1. PICK c \in Conns : key' = [key EXCEPT ![p] = Sub[c]] /\ index' = [index EXCEPT ![p] = Home[Sub[c]]]
        BY <1>1 DEF CallSet
    <2>2. Sub[c] \in Subdomains
        BY ConnAssumption
    <2> QED BY <2>1, <2>2, HomeInRegion DEF Low
<1>2. CASE CallGet(p)
    <2>1. PICK k \in Subdomains : key' = [key EXCEPT ![p] = k] /\ index' = [index EXCEPT ![p] = Home[k]]
        BY <1>2 DEF CallGet
    <2> QED BY <2>1, HomeInRegion DEF Low
<1>3. CASE SetSkip(p) \/ GetSkip(p)
    <2>1. key[p] \in Subdomains
        BY <1>3, ConnAssumption DEF SetSkip, GetSkip, GetSkipTo
    <2>2. pc[p] \in Critical /\ UNCHANGED key /\ index' = [index EXCEPT ![p] = After(index[p])]
        BY <1>3 DEF SetSkip, GetSkip, GetSkipTo
    <2> QED BY <2>1, <2>2, AfterStays DEF Low
<1>4. CASE Enter(p) \/ Respawn(p)
    BY <1>4 DEF Enter, Respawn, Low
<1>5. CASE SetEmpty(p) \/ SetTotal(p) \/ SetCounts(p) \/ SetNow(p) \/ SetFd(p)
    BY <1>5 DEF SetEmpty, SetTotal, SetCounts, SetNow, SetFd, Low
<1>6. CASE AddTotal(p) \/ AddFd(p) \/ AddCounts(p)
    BY <1>6 DEF AddTotal, AddFd, AddFdAt, AddCounts, Low
<1>7. CASE GetMiss(p) \/ GetHit(p) \/ GetInc(p) \/ GetWrap(p)
    BY <1>7 DEF GetMiss, GetHit, GetInc, SetCursor, GetWrap, WrapTo, Low
<1>8. CASE SetReturn(p) \/ GetReturn(p) \/ Fault(p) \/ Kill(p)
    BY <1>8 DEF SetReturn, GetReturn, Fault, Kill, Exit
<1> QED BY <1>1, <1>2, <1>3, <1>4, <1>5, <1>6, <1>7, <1>8 DEF Step, Set, Get

\* Only an empty slot is given a name, the one its probe stands at.
LEMMA NamesWritten ==
    ASSUME Inv, NEW p \in Procs, Step(p)
    PROVE  UNCHANGED subdomain \/ SetEmpty(p)
BY DEF table, call, Step, Set, Get, CallSet, CallGet, Enter, Respawn, SetTotal, SetCounts, SetNow,
       SetFd, AddTotal, AddFd, AddFdAt, AddCounts, SetSkip, SetReturn, GetMiss, GetHit,
       GetInc, SetCursor, GetWrap, WrapTo, GetSkip, GetSkipTo, GetReturn, Fault, Kill, Exit

\* Every step keeps names and probes in their regions.
LEMMA RegionsStep ==
    ASSUME Inv, Regions, [Next]_vars
    PROVE  Regions'
<1>1. CASE UNCHANGED vars
    BY <1>1 DEF vars, table, call, Regions, Named, ProbeOf, Low
<1>2. ASSUME NEW p \in Procs, Step(p) PROVE Regions'
    <2>1. ASSUME NEW q \in Procs PROVE ProbeOf(q)'
        <3>1. CASE q = p
            BY <1>2, <3>1, ProbeStep DEF Regions
        <3>2. CASE q # p
            <4>1. pc'[q] = pc[q] /\ key'[q] = key[q] /\ index'[q] = index[q]
                BY <1>2, <3>2, Frame DEF Inv
            <4> QED BY <4>1 DEF Regions, ProbeOf, Low
        <3> QED BY <3>1, <3>2
    <2>2. Named'
        <3>1. CASE UNCHANGED subdomain
            BY <3>1 DEF Regions, Named
        <3>2. CASE SetEmpty(p)
            <4>1. index[p] < MAXSUBDOMAIN \/ index[p] >= MAXROUTE - 2
                BY <3>2 DEF SetEmpty, At, Regions, ProbeOf, Critical, SetLabels
            <4> QED BY <3>2, <4>1 DEF SetEmpty, Regions, Named
        <3> QED BY <1>2, <3>1, <3>2, NamesWritten
    <2> QED BY <2>1, <2>2 DEF Regions
<1> QED BY <1>1, <1>2 DEF Next, Step

\* Names and probes stay in the two regions keyToIndex and After leave them, for a
\* table of any size: the slots between are never used.
THEOREM ProbesConfined == Spec => []ProbeRegions
<1>1. Init => Regions
    BY DEF Init, Regions, Named, ProbeOf, Critical, SetLabels, GetLabels
<1>2. Spec => []Regions
    BY <1>1, RegionsStep, InvHolds, PTL DEF Spec
<1>3. Regions => ProbeRegions
    BY DEF Regions, Named, ProbeOf, ProbeRegions
<1> QED BY <1>2, <1>3, PTL

-----------------------------------------------------------------------------
(* The cursors, in the slots whose clients announce one total: without     *)
(* that a slot's total may fall below its cursor.                          *)

\* The total of a slot is that of the clients of its name, and it has one.
TotalsAgree(i) == /\ \A c \in Conns : Stored[Sub[c]] = subdomain[i] => total[i] = Total[c]
                  /\ \E c \in Conns : Stored[Sub[c]] = subdomain[i]

\* The statements before which a slot's cursor may stand at its total, or its
\* total not be given yet.
Moving == {"set_total", "set_counts", "set_now", "get_wrap"}

Settled(i) == subdomain[i] # EMPTY /\ \A p \in Procs : pc[p] \in Moving => index[p] # i

TurnOf(i) == i \notin torn /\ Settled(i) /\ OneTotal(subdomain[i]) =>
                now[i] < total[i] /\ TotalsAgree(i)

\* What p knows of the cursor it is moving.
CursorOf(p) ==
    /\ pc[p] \in {"set_counts", "set_now"} /\ OneTotal(subdomain[index[p]]) =>
          TotalsAgree(index[p])
    /\ pc[p] \in {"get_inc", "get_wrap"} => subdomain[index[p]] # EMPTY
    /\ pc[p] = "get_wrap" /\ index[p] \notin torn /\ OneTotal(subdomain[index[p]]) =>
          /\ TotalsAgree(index[p])
          /\ now[index[p]] <= total[index[p]] /\ 0 < total[index[p]]

Cursors == /\ \A i \in Slots : TurnOf(i)
           /\ \A p \in Procs : CursorOf(p)

\* Nobody else is between sem_p and sem_v while p is.
LEMMA Alone ==
    ASSUME Inv, NEW p \in Procs, pc[p] \in Critical, NEW q \in Procs, q # p
    PROVE  pc[q] \notin Critical
BY OneInside DEF Inv, MutualExclusion

\* The cursor after its reset.
LEMMA WrapsBelow ==
    ASSUME NEW n \in Int, NEW t \in Int, n <= t, 0 < t
    PROVE  (IF n = t THEN 0 ELSE n) < t
OBVIOUS

LEMMA MovingCritical == Moving \subseteq Critical
BY DEF Moving, Critical, SetLabels, GetLabels

\* p's step moves no cursor and gives no total: it is at none of the statements
\* that do, before and after.
LEMMA CursorsKept ==
    ASSUME Inv, Cursors, NEW p \in Procs, Step(p),
           UNCHANGED <<subdomain, total, now, torn>>,
           pc[p] \notin Moving, pc'[p] \notin Moving
    PROVE  \A i \in Slots : TurnOf(i)'
<1>1. \A q \in Procs : pc'[q] \in Moving => pc[q] \in Moving /\ index'[q] = index[q]
    BY Frame DEF Inv
<1>2. \A q \in Procs : pc[q] \in Moving => pc'[q] \in Moving /\ index'[q] = index[q]
    BY Frame DEF Inv
<1> QED BY <1>1, <1>2 DEF Cursors, TurnOf, Settled, TotalsAgree

\* A death leaves the cursors, and marks the slot whose cursor it may have torn.
LEMMA ExitTurns ==
    ASSUME Inv, Cursors, NEW p \in Procs, Exit(p)
    PROVE  \A i \in Slots : TurnOf(i)'
<1> SUFFICES ASSUME NEW i \in Slots, i \notin torn', Settled(i)', OneTotal(subdomain'[i])
             PROVE  (now[i] < total[i] /\ TotalsAgree(i))'
    BY DEF TurnOf
<1>1. UNCHANGED table /\ i \notin torn
    BY DEF Exit
<1>2. \A q \in Procs : pc[q] \in Moving => index[q] # i
    <2>1. ASSUME NEW q \in Procs, q # p, pc[q] \in Moving PROVE index[q] # i
        BY <2>1 DEF Exit, Goto, EndCall, Settled, Inv, TypeOK
    <2>2. pc[p] \in Moving => index[p] # i
        BY DEF Exit, Moving, HalfWritten
    <2> QED BY <2>1, <2>2
<1> QED BY <1>1, <1>2 DEF table, Cursors, TurnOf, Settled, TotalsAgree

\* Every step leaves the settled cursors below their totals.
LEMMA TurnStep ==
    ASSUME Inv, Cursors, NEW p \in Procs, Step(p)
    PROVE  \A i \in Slots : TurnOf(i)'
<1> USE DEF Inv, TypeOK, Goto, At, call, table
<1>1. CASE CallSet(p) \/ CallGet(p) \/ Enter(p) \/ Respawn(p)
    BY <1>1, CursorsKept DEF CallSet, CallGet, Enter, Respawn, Moving
<1>2. CASE SetFd(p) \/ AddFd(p) \/ AddCounts(p) \/ SetSkip(p) \/ SetReturn(p)
    BY <1>2, CursorsKept DEF SetFd, AddFd, AddFdAt, AddCounts, SetSkip, SetReturn, Moving
<1>3. CASE GetMiss(p) \/ GetHit(p) \/ GetSkip(p) \/ GetReturn(p)
    BY <1>3, CursorsKept DEF GetMiss, GetHit, GetSkip, GetSkipTo, GetReturn, Moving
<1>4. CASE Fault(p) \/ Kill(p)
    BY <1>4, ExitTurns DEF Fault, Kill
<1>5. ASSUME pc[p] \in Critical, NEW i \in Slots, i \notin torn, UNCHANGED torn, Settled(i)',
             index' = index
      PROVE  \/ i = index[p] /\ pc'[p] \notin Moving /\ \A q \in Procs \ {p} : pc[q] \notin Moving
             \/ i # index[p] /\ (subdomain[i] = subdomain'[i] => Settled(i))
    <2>1. \A q \in Procs \ {p} : pc[q] \notin Moving /\ pc'[q] = pc[q]
        BY <1>5, Alone, MovingCritical, Frame
    <2> QED BY <1>5, <2>1 DEF Settled
<1>6. CASE SetEmpty(p)
    <2> SUFFICES ASSUME NEW i \in Slots, i \notin torn', Settled(i)', OneTotal(subdomain'[i])
                 PROVE  (now[i] < total[i] /\ TotalsAgree(i))'
        BY DEF TurnOf
    <2>1. pc[p] \in Critical /\ pc'[p] \in Moving /\ index' = index /\ UNCHANGED <<torn, now, total>>
        BY <1>6 DEF SetEmpty, Critical, SetLabels, Moving
    <2>2. i # index[p] /\ (subdomain[i] = subdomain'[i] => Settled(i)) /\ i \notin torn
        BY <1>5, <2>1
    <2>3. subdomain'[i] = subdomain[i]
        BY <1>6, <2>2 DEF SetEmpty
    <2> QED BY <2>1, <2>2, <2>3 DEF Cursors, TurnOf, TotalsAgree
<1>7. CASE SetTotal(p) \/ SetCounts(p) \/ GetInc(p)
    <2> SUFFICES ASSUME NEW i \in Slots, i \notin torn', Settled(i)', OneTotal(subdomain'[i])
                 PROVE  (now[i] < total[i] /\ TotalsAgree(i))'
        BY DEF TurnOf
    <2>1. pc[p] \in Critical /\ pc'[p] \in Moving /\ index' = index /\ UNCHANGED <<torn, subdomain>>
        BY <1>7 DEF SetTotal, SetCounts, GetInc, SetCursor, Critical, SetLabels, GetLabels, Moving
    <2>2. i # index[p] /\ Settled(i) /\ i \notin torn
        BY <1>5, <2>1
    <2>3. now'[i] = now[i] /\ total'[i] = total[i]
        BY <1>7, <2>2 DEF SetTotal, SetCounts, GetInc, SetCursor
    <2> QED BY <2>1, <2>2, <2>3 DEF Cursors, TurnOf, TotalsAgree
<1>8. CASE SetNow(p) \/ GetWrap(p)
    <2> SUFFICES ASSUME NEW i \in Slots, i \notin torn', Settled(i)', OneTotal(subdomain'[i])
                 PROVE  (now[i] < total[i] /\ TotalsAgree(i))'
        BY DEF TurnOf
    <2>1. pc[p] \in Critical /\ index' = index /\ UNCHANGED <<torn, subdomain, total>>
        BY <1>8 DEF SetNow, GetWrap, WrapTo, SetCursor, Critical, SetLabels, GetLabels
    <2>2. CASE i # index[p]
        <3>1. Settled(i) /\ i \notin torn
            BY <1>5, <2>1, <2>2
        <3>2. now'[i] = now[i]
            BY <1>8, <2>2 DEF SetNow, GetWrap, WrapTo, SetCursor
        <3> QED BY <2>1, <3>1, <3>2 DEF Cursors, TurnOf, TotalsAgree
    <2>3. CASE i = index[p] /\ SetNow(p)
        <3>1. /\ TotalsAgree(i) /\ conn[p] \in Conns /\ key[p] = Sub[conn[p]]
              /\ subdomain[i] = Stored[key[p]]
            BY <2>3 DEF SetNow, Cursors, CursorOf, RolesOf, SlotOf, HalfWritten, SetLabels
        <3>2. total[i] = Total[conn[p]] /\ Total[conn[p]] > 0
            BY <3>1, ConnAssumption DEF TotalsAgree
        <3>3. now'[i] = 0
            BY <2>3 DEF SetNow
        <3> QED BY <2>1, <3>1, <3>2, <3>3 DEF TotalsAgree
    <2>4. CASE i = index[p] /\ GetWrap(p)
        <3>1. TotalsAgree(i) /\ now[i] <= total[i] /\ 0 < total[i]
            BY <2>4 DEF GetWrap, WrapTo, SetCursor, Cursors, CursorOf
        <3>2. now'[i] = IF now[i] = total[i] THEN 0 ELSE now[i]
            BY <2>4 DEF GetWrap, WrapTo, SetCursor
        <3>3. now[i] \in Int /\ total[i] \in Int
            BY Sizes
        <3>4. now'[i] < total[i]
            BY <3>1, <3>2, <3>3, WrapsBelow
        <3>5. total' = total /\ subdomain' = subdomain
            BY <2>1
        <3> QED BY <3>1, <3>4, <3>5 DEF TotalsAgree
    <2> QED BY <1>8, <2>2, <2>3, <2>4
<1>9. CASE AddTotal(p)
    <2> SUFFICES ASSUME NEW i \in Slots, i \notin torn', Settled(i)', OneTotal(subdomain'[i])
                 PROVE  (now[i] < total[i] /\ TotalsAgree(i))'
        BY DEF TurnOf
    <2>1. pc[p] \in Critical /\ pc[p] \notin Moving /\ index' = index /\ UNCHANGED <<torn, subdomain, now>>
        BY <1>9 DEF AddTotal, Critical, SetLabels, Moving
    <2>2. Settled(i) /\ i \notin torn
        BY <1>5, <2>1 DEF Settled
    <2>3. now[i] < total[i] /\ TotalsAgree(i)
        <3>1. OneTotal(subdomain[i])
            BY <2>1
        <3> QED BY <2>2, <3>1 DEF Cursors, TurnOf
    <2>4. total'[i] = total[i]
        <3>1. CASE i # index[p]
            BY <1>9, <3>1 DEF AddTotal
        <3>2. CASE i = index[p]
            <4>1. conn[p] \in Conns /\ subdomain[i] = Stored[Sub[conn[p]]]
                BY <1>9, <3>2, NameAssumption DEF AddTotal, Joins, Matches, RolesOf, SetLabels
            <4>2. total'[i] = Total[conn[p]]
                BY <1>9, <3>2 DEF AddTotal
            <4> QED BY <2>3, <4>1, <4>2 DEF TotalsAgree
        <3> QED BY <3>1, <3>2
    <2> QED BY <2>1, <2>3, <2>4 DEF TotalsAgree
<1> QED BY <1>1, <1>2, <1>3, <1>4, <1>6, <1>7, <1>8, <1>9 DEF Step, Set, Get

\* What p needs to know when it resets a cursor, or gives a slot its first one.
LEMMA CursorStep ==
    ASSUME Inv, Cursors, NEW p \in Procs, Step(p)
    PROVE  CursorOf(p)'
<1> USE DEF Inv, TypeOK, Goto, At, call, table, CursorOf, Cursors
<1>1. CASE CallSet(p) \/ CallGet(p) \/ Enter(p) \/ Respawn(p)
    BY <1>1 DEF CallSet, CallGet, Enter, Respawn
<1>2. CASE SetEmpty(p) \/ SetNow(p) \/ SetFd(p) \/ AddTotal(p) \/ AddFd(p)
           \/ AddCounts(p) \/ SetSkip(p) \/ SetReturn(p)
    BY <1>2 DEF SetEmpty, SetNow, SetFd, AddTotal, AddFd, AddFdAt, AddCounts, SetSkip, SetReturn
<1>3. CASE SetTotal(p)
    <2>1. /\ conn[p] \in Conns /\ subdomain[index[p]] = Stored[Sub[conn[p]]]
          /\ index[p] \in Slots
        BY <1>3 DEF SetTotal, RolesOf, SlotOf, HalfWritten, SetLabels
    <2>2. total'[index[p]] = Total[conn[p]]
        BY <1>3, <2>1 DEF SetTotal
    <2>3. UNCHANGED <<index, subdomain>> /\ pc'[p] = "set_counts"
        BY <1>3 DEF SetTotal
    <2> QED BY <2>1, <2>2, <2>3 DEF TotalsAgree, OneTotal
<1>4. CASE SetCounts(p)
    BY <1>4 DEF SetCounts, TotalsAgree
<1>5. CASE GetHit(p)
    BY <1>5, NameAssumption DEF GetHit, Matches
<1>6. CASE GetInc(p)
    <2>1. index[p] \in Slots /\ subdomain[index[p]] # EMPTY
        BY <1>6 DEF GetInc, SetCursor, SlotOf
    <2>2. Settled(index[p])
        <3>1. pc[p] \in Critical /\ pc[p] \notin Moving
            BY <1>6 DEF GetInc, SetCursor, Critical, GetLabels, Moving
        <3> QED BY <2>1, <3>1, Alone, MovingCritical DEF Settled
    <2>3. index[p] \notin torn /\ OneTotal(subdomain[index[p]]) => now[index[p]] < total[index[p]] /\ TotalsAgree(index[p])
        BY <2>1, <2>2 DEF TurnOf
    <2>4. now[index[p]] \in Nat /\ total[index[p]] \in Nat
        BY <2>1, Sizes
    <2>5. now'[index[p]] = now[index[p]] + 1 /\ UNCHANGED <<subdomain, total, torn, index>>
        BY <1>6, <2>1 DEF GetInc, SetCursor
    <2>6. pc'[p] = "get_wrap"
        BY <1>6 DEF GetInc, SetCursor
    <2> QED BY <2>1, <2>3, <2>4, <2>5, <2>6 DEF TotalsAgree
<1>7. CASE GetMiss(p) \/ GetWrap(p) \/ GetSkip(p) \/ GetReturn(p)
    BY <1>7 DEF GetMiss, SetCursor, GetWrap, WrapTo, GetSkip, GetSkipTo, GetReturn
<1>8. CASE Fault(p) \/ Kill(p)
    BY <1>8 DEF Fault, Kill, Exit
<1> QED BY <1>1, <1>2, <1>3, <1>4, <1>5, <1>6, <1>7, <1>8 DEF Step, Set, Get

\* What another process knows of its slot: p is outside, and the slot its own.
LEMMA OthersCursors ==
    ASSUME Inv, Cursors, NEW p \in Procs, Step(p), NEW q \in Procs, q # p
    PROVE  CursorOf(q)'
<1>1. pc'[q] = pc[q] /\ index'[q] = index[q] /\ (pc[p] \in Critical \/ UNCHANGED table)
    BY Frame DEF Inv
<1>2. CASE pc[p] \in Critical
    <2>1. pc[q] \notin Critical
        BY <1>2, Alone
    <2> QED BY <1>1, <2>1 DEF CursorOf, Critical, SetLabels, GetLabels
<1>3. CASE UNCHANGED table
    <2>1. torn \subseteq torn'
        BY DEF Step, Set, Get, CallSet, CallGet, Enter, Respawn, SetEmpty, SetTotal, SetCounts, SetNow,
               SetFd, AddTotal, AddFd, AddFdAt, AddCounts, SetSkip, SetReturn, GetMiss, GetHit,
               GetInc, SetCursor, GetWrap, WrapTo, GetSkip, GetSkipTo, GetReturn, Fault, Kill, Exit
    <2>2. CursorOf(q)
        BY DEF Cursors
    <2> QED BY <1>1, <1>3, <2>1, <2>2 DEF CursorOf, table, TotalsAgree
<1> QED BY <1>1, <1>2, <1>3

\* The cursors' invariant holds.
LEMMA CursorsHold == Spec => []Cursors
<1>1. Init => Cursors
    BY DEF Init, Cursors, TurnOf, Settled, CursorOf
<1>2. Inv /\ Cursors /\ [Next]_vars => Cursors'
    <2> SUFFICES ASSUME Inv, Cursors, [Next]_vars PROVE Cursors'
        OBVIOUS
    <2>1. CASE UNCHANGED vars
        BY <2>1 DEF vars, table, call, Cursors, TurnOf, Settled, CursorOf, TotalsAgree
    <2>2. ASSUME NEW p \in Procs, Step(p) PROVE Cursors'
        <3>1. \A q \in Procs : CursorOf(q)'
            BY <2>2, CursorStep, OthersCursors
        <3>2. \A i \in Slots : TurnOf(i)'
            BY <2>2, TurnStep
        <3> QED BY <3>1, <3>2 DEF Cursors
    <2> QED BY <2>1, <2>2 DEF Next, Step
<1> QED BY <1>1, <1>2, InvHolds, PTL DEF Spec

\* The cursor of every slot that no death tore, and whose clients announce one
\* total, is below it whenever the lock is free, for any number of connections
\* and lookups.
THEOREM CursorComesRound == Spec => []CursorInRange
<1>1. Inv /\ Cursors => CursorInRange
    <2> SUFFICES ASSUME Inv, Cursors, semval = 1, NEW i \in Slots \ torn, subdomain[i] # EMPTY,
                        OneTotal(subdomain[i])
                 PROVE  now[i] < total[i]
        BY DEF CursorInRange
    <2>1. \A p \in Procs : pc[p] \notin Critical
        BY FreeWhenFree DEF Inv
    <2> QED BY <2>1, MovingCritical DEF Cursors, TurnOf, Settled
<1> QED BY <1>1, CursorsHold, InvHolds, PTL

-----------------------------------------------------------------------------
(* Whose handle a lookup reads. *)

\* A handle of another name has been read past a slot's whole length, and the
\* cursor had a reason to be there.
StraysOf(p) ==
    sock[p] \in Conns /\ Stored[Sub[sock[p]]] # key[p] =>
        /\ index[p] \in torn \/ ~OneTotal(key[p]) \/ ~Modest(key[p])
        /\ pc[p] = "get_inc" => now[index[p]] >= Stride

\* A cursor below Stride reads a word of its own slot, a handle of the slot's
\* name among them.
LEMMA OwnWord ==
    ASSUME NEW i \in Slots, now[i] \in Nat, now[i] < Stride
    PROVE  HandleSlot(i) = i /\ HandleWord(i) = now[i]
<1>1. i \in Nat /\ Stride \in Nat
    BY Sizes DEF Slots
<1>2. now[i] \div Stride = 0 /\ now[i] % Stride = now[i]
    BY <1>1
<1> QED BY <1>1, <1>2 DEF HandleSlot, HandleWord

\* The handle a lookup reads.
LEMMA StrayRead ==
    ASSUME Inv, Cursors, NEW p \in Procs, GetHit(p),
           Handle(index[p]) \in Conns, Stored[Sub[Handle(index[p])]] # key[p]
    PROVE  /\ index[p] \in torn \/ ~OneTotal(key[p]) \/ ~Modest(key[p])
           /\ now[index[p]] >= Stride
<1>1. /\ index[p] \in Slots /\ subdomain[index[p]] = key[p] /\ key[p] # EMPTY
      /\ pc[p] \in Critical /\ pc[p] \notin Moving
    BY NameAssumption DEF GetHit, At, Matches, Critical, GetLabels, Moving
<1>2. now[index[p]] \in Nat /\ Stride \in Nat
    BY <1>1, Sizes DEF Inv, TypeOK
<1>3. now[index[p]] >= Stride
    <2> SUFFICES ASSUME now[index[p]] < Stride PROVE FALSE
        BY <1>2
    <2>1. HandleSlot(index[p]) = index[p]
        BY <1>1, <1>2, OwnWord
    <2>2. HandleWord(index[p]) \in Handles /\ Handle(index[p]) = fd[index[p]][HandleWord(index[p])]
        BY <2>1, ConnAssumption DEF Handle
    <2> QED BY <1>1, <2>2 DEF Inv, HandlesOwned
<1>4. SUFFICES ASSUME index[p] \notin torn, OneTotal(key[p]), Modest(key[p]) PROVE FALSE
    BY <1>3
<1>5. Settled(index[p])
    BY <1>1, Alone, MovingCritical DEF Settled
<1>6. now[index[p]] < total[index[p]] /\ TotalsAgree(index[p])
    BY <1>1, <1>4, <1>5 DEF Cursors, TurnOf
<1>7. PICK c \in Conns : Stored[Sub[c]] = key[p] /\ total[index[p]] = Total[c]
    BY <1>1, <1>6 DEF TotalsAgree
<1>8. Total[c] <= Stride /\ Total[c] \in Nat
    BY <1>4, <1>7, ConnAssumption DEF Modest
<1> QED BY <1>2, <1>3, <1>6, <1>7, <1>8

\* Every step keeps what is known of the handles read.
LEMMA StraysStep ==
    ASSUME Inv, Cursors, \A p \in Procs : StraysOf(p), NEW p \in Procs, Step(p), NEW q \in Procs
    PROVE  StraysOf(q)'
<1> USE DEF Inv, TypeOK
<1>1. torn \subseteq torn'
    BY DEF Step, Set, Get, CallSet, CallGet, Enter, Respawn, SetEmpty, SetTotal, SetCounts, SetNow,
           SetFd, AddTotal, AddFd, AddFdAt, AddCounts, SetSkip, SetReturn, GetMiss, GetHit,
           GetInc, SetCursor, GetWrap, WrapTo, GetSkip, GetSkipTo, GetReturn, Fault, Kill, Exit
<1>2. CASE q # p
    <2>1. /\ pc'[q] = pc[q] /\ key'[q] = key[q] /\ index'[q] = index[q] /\ sock'[q] = sock[q]
          /\ pc[p] \in Critical \/ UNCHANGED table
        BY <1>2, Frame
    <2>2. pc[q] = "get_inc" => UNCHANGED now
        <3>1. pc[q] = "get_inc" => pc[q] \in Critical
            BY DEF Critical, GetLabels
        <3> QED BY <1>2, <2>1, <3>1, Alone DEF table
    <2> QED BY <1>1, <2>1, <2>2 DEF StraysOf
<1>3. CASE q = p /\ GetHit(p)
    <2>1. /\ sock'[p] = Handle(index[p]) /\ key'[p] = key[p] /\ index'[p] = index[p]
          /\ now' = now /\ torn' = torn
        BY <1>3 DEF GetHit, table
    <2> QED BY <1>3, <2>1, StrayRead DEF StraysOf, OneTotal, Modest
<1>4. CASE q = p /\ (GetInc(p) \/ GetWrap(p))
    <2>1. /\ sock' = sock /\ key' = key /\ index' = index /\ torn' = torn /\ pc'[p] # "get_inc"
        BY <1>4 DEF GetInc, GetWrap, WrapTo, SetCursor, call, Goto
    <2> QED BY <1>4, <2>1 DEF StraysOf
<1>5. CASE q = p /\ ~GetHit(p) /\ ~GetInc(p) /\ ~GetWrap(p)
    <2>1. sock'[p] \notin Conns
        <3>1. CASE pc[p] \in {"get_inc", "get_wrap"}
            <4>1. Fault(p) \/ Kill(p)
                BY <1>5, <3>1 DEF Step, Set, Get, CallSet, CallGet, Enter, Respawn, SetEmpty, SetTotal,
                   SetCounts, SetNow, SetFd, AddTotal, AddFd, AddFdAt, AddCounts, SetSkip, SetReturn,
                   GetMiss, GetSkip, GetSkipTo, GetReturn, At
            <4> QED BY <4>1, ConnAssumption DEF Fault, Kill, Exit, EndCall
        <3>2. CASE pc[p] \notin {"get_inc", "get_wrap"}
            <4>1. ResultOf(p)' /\ (sock'[p] = sock[p] \/ sock'[p] = NULL)
                BY <1>5, ResultStep DEF Step, Set, Get, CallSet, CallGet, Enter, Respawn, SetEmpty, SetTotal,
                   SetCounts, SetNow, SetFd, AddTotal, AddFd, AddFdAt, AddCounts, SetSkip, SetReturn,
                   GetMiss, GetSkip, GetSkipTo, GetReturn, Fault, Kill, Exit, EndCall, call
            <4>2. pc'[p] \in {"get_inc", "get_wrap", "get_v"} => pc'[p] = "get_v" /\ (GetMiss(p) \/ GetSkip(p))
                BY <1>5 DEF Step, Set, Get, CallSet, CallGet, Enter, Respawn, SetEmpty, SetTotal,
                   SetCounts, SetNow, SetFd, AddTotal, AddFd, AddFdAt, AddCounts, SetSkip, SetReturn,
                   GetMiss, GetSkip, GetSkipTo, GetReturn, Fault, Kill, Exit, Goto, At
            <4>3. GetMiss(p) \/ GetSkip(p) => sock[p] \notin Conns
                BY DEF GetMiss, GetSkip, GetSkipTo, At, ResultOf
            <4> QED BY <4>1, <4>2, <4>3, ConnAssumption DEF ResultOf
        <3> QED BY <3>1, <3>2
    <2> QED BY <1>5, <2>1 DEF StraysOf
<1> QED BY <1>2, <1>3, <1>4, <1>5

\* A lookup returns a connection registered under the name asked for, unless the
\* cursor of the slot it found ran past a whole slot: for every table and every
\* order of registrations, lookups, deaths and faults, only a slot that a death
\* tore, or whose clients announce several totals or a huge one, lets it.
THEOREM Isolation == Spec => []RoutedToOwner
<1> DEFINE Strays == \A p \in Procs : StraysOf(p)
<1>1. Init => Strays
    BY ConnAssumption DEF Init, StraysOf
<1>2. Inv /\ Cursors /\ Strays /\ [Next]_vars => Strays'
    <2> SUFFICES ASSUME Inv, Cursors, Strays, [Next]_vars PROVE Strays'
        OBVIOUS
    <2>1. CASE UNCHANGED vars
        BY <2>1 DEF vars, table, call, StraysOf
    <2>2. ASSUME NEW p \in Procs, Step(p) PROVE Strays'
        BY <2>2, StraysStep
    <2> QED BY <2>1, <2>2 DEF Next, Step
<1>3. Strays => RoutedToOwner
    BY DEF StraysOf, RoutedToOwner, At
<1> HIDE DEF Strays
<1> QED BY <1>1, <1>2, <1>3, InvHolds, CursorsHold, PTL DEF Spec

-----------------------------------------------------------------------------
(* Registration. *)

\* c stands in one handle, counted by its slot and under its own name.
Placed(c) == \E h \in Slots \X Handles : /\ Places(c) = {h}
                                         /\ h[2] < nowcounts[h[1]]
                                         /\ subdomain[h[1]] = Stored[Sub[c]]

\* The statements before which CA's connection has a handle and is not yet ok.
Writing == {"add_counts", "set_v"}

\* What CA knows of the connection it registers.
Registering ==
    /\ pc[CA] \in SetLabels \cup {"set_p"} => status[conn[CA]] = "new"
    /\ pc[CA] \in {"set_total", "set_counts", "set_now", "set_fd"} =>
          \A j \in Handles : fd[index[CA]][j] \notin Conns
    /\ pc[CA] \in {"set_now", "set_fd"} => nowcounts[index[CA]] = 1
    /\ pc[CA] = "add_counts" => Places(conn[CA]) = {<<index[CA], nowcounts[index[CA]]>>}
    /\ pc[CA] = "set_v" => Placed(conn[CA])

Registered ==
    /\ \A c \in Conns : status[c] = "ok" => Placed(c)
    /\ pc[CA] # "dead" =>
          \A c \in Conns : status[c] # "ok" /\ ~(pc[CA] \in Writing /\ conn[CA] = c) => Places(c) = {}
    /\ Registering

\* Workers write neither names nor counts nor handles.
LEMMA WorkersRead ==
    ASSUME Inv, NEW p \in Procs, Step(p), p # CA
    PROVE  /\ pc'[CA] = pc[CA] /\ conn'[CA] = conn[CA] /\ index'[CA] = index[CA]
           /\ UNCHANGED <<subdomain, nowcounts, fd, status>>
<1> USE ProcAssumption DEF Inv
<1>1. pc'[CA] = pc[CA] /\ conn'[CA] = conn[CA] /\ index'[CA] = index[CA]
    BY Frame
<1>2. UNCHANGED <<subdomain, nowcounts, fd, status>>
    <2>1. ~SetEmpty(p) /\ ~SetTotal(p) /\ ~SetCounts(p) /\ ~SetNow(p) /\ ~SetFd(p)
        BY DEF SetEmpty, SetTotal, SetCounts, SetNow, SetFd, At, RolesOf, SetLabels
    <2>2. ~AddTotal(p) /\ ~AddFd(p) /\ ~AddCounts(p) /\ ~SetReturn(p) /\ ~CallSet(p)
        BY DEF AddTotal, AddFd, AddFdAt, AddCounts, SetReturn, At, RolesOf, SetLabels, CallSet
    <2> QED BY <2>1, <2>2 DEF table, call, Step, Set, Get, CallGet, Enter, Respawn, SetSkip, GetMiss,
               GetHit, GetInc, SetCursor, GetWrap, WrapTo, GetSkip, GetSkipTo, GetReturn, Fault, Kill, Exit
<1> QED BY <1>1, <1>2

\* So they leave every connection where it stands.
LEMMA WorkersKeep ==
    ASSUME Inv, Registered, NEW p \in Procs, Step(p), p # CA
    PROVE  Registered'
BY WorkersRead DEF Registered, Registering, Placed, Places

\* A handle that held no connection is given one.
LEMMA Overwritten ==
    ASSUME TypeOK, NEW i \in Slots, NEW j \in Handles, NEW c \in Conns,
           fd' = [fd EXCEPT ![i][j] = c], Places(c) = {}, \A d \in Conns : fd[i][j] # d
    PROVE  /\ Places(c)' = {<<i, j>>}
           /\ \A d \in Conns \ {c} : Places(d)' = Places(d)
<1>1. \A h \in Slots \X Handles : fd'[h[1]][h[2]] = IF h = <<i, j>> THEN c ELSE fd[h[1]][h[2]]
    BY DEF TypeOK
<1>2. Places(c)' = {<<i, j>>}
    BY <1>1 DEF Places
<1>3. ASSUME NEW d \in Conns \ {c} PROVE Places(d)' = Places(d)
    BY <1>1 DEF Places
<1> QED BY <1>2, <1>3

\* A connection that is placed stays so while its slot keeps its name, and the
\* slot's count does not fall.
LEMMA PlacedKept ==
    ASSUME TypeOK, NEW c \in Conns, Placed(c), Places(c)' = Places(c),
           \A i \in Slots, j \in Handles : fd[i][j] = c =>
               nowcounts[i] <= nowcounts'[i] /\ subdomain'[i] = subdomain[i],
           \A i \in Slots : nowcounts'[i] \in Int
    PROVE  Placed(c)'
<1>1. PICK h \in Slots \X Handles : /\ Places(c) = {h} /\ h[2] < nowcounts[h[1]]
                                    /\ subdomain[h[1]] = Stored[Sub[c]]
    BY DEF Placed
<1>2. h[1] \in Slots /\ h[2] \in Handles /\ fd[h[1]][h[2]] = c
    BY <1>1 DEF Places
<1>3. nowcounts[h[1]] <= nowcounts'[h[1]] /\ subdomain'[h[1]] = subdomain[h[1]]
    BY <1>2
<1>4. h[2] \in Int /\ nowcounts[h[1]] \in Int /\ nowcounts'[h[1]] \in Int
    BY <1>2, Sizes DEF TypeOK, Handles
<1>5. h[2] < nowcounts'[h[1]]
    BY <1>1, <1>3, <1>4
<1> QED BY <1>1, <1>3, <1>5 DEF Placed

\* The statements that touch neither handles nor counts nor names.
LEMMA QuietStep ==
    ASSUME Inv, Registered, Step(CA),
           \/ CallSet(CA) \/ Enter(CA) \/ SetTotal(CA) \/ SetNow(CA) \/ AddTotal(CA)
           \/ SetSkip(CA) \/ Exit(CA)
    PROVE  Registered'
<1> USE ProcAssumption DEF Inv, TypeOK, Goto, At, call, table
<1>1. UNCHANGED <<subdomain, nowcounts, fd, status>>
    BY DEF CallSet, Enter, SetTotal, SetNow, AddTotal, SetSkip, Exit
<1>2. (\A c \in Conns : Places(c)' = Places(c)) /\ (\A c \in Conns : Placed(c) => Placed(c)')
    BY <1>1 DEF Placed, Places
<1>3. pc'[CA] \notin Writing
    BY DEF CallSet, Enter, SetTotal, SetNow, AddTotal, SetSkip, Exit, Writing
<1>4. pc[CA] \notin Writing \/ pc'[CA] = "dead"
    BY DEF CallSet, Enter, SetTotal, SetNow, AddTotal, SetSkip, Exit, Writing
<1>5. pc'[CA] # "dead" => pc[CA] # "dead"
    BY DEF CallSet, Enter, SetTotal, SetNow, AddTotal, SetSkip, Exit
<1>6. Registering'
    <2>1. CASE CallSet(CA)
        BY <2>1 DEF CallSet, Registering, SetLabels
    <2>2. CASE Enter(CA)
        BY <2>2 DEF Enter, Registered, Registering, SetLabels, RolesOf, GetLabels
    <2>3. CASE SetTotal(CA) \/ SetNow(CA)
        BY <2>3 DEF SetTotal, SetNow, Registered, Registering, SetLabels
    <2>4. CASE AddTotal(CA) \/ SetSkip(CA)
        BY <2>4 DEF AddTotal, SetSkip, Registered, Registering, SetLabels
    <2>5. CASE Exit(CA)
        BY <2>5 DEF Exit, Registering, SetLabels
    <2> QED BY <2>1, <2>2, <2>3, <2>4, <2>5
<1> QED BY <1>1, <1>2, <1>3, <1>4, <1>5, <1>6 DEF Registered

\* A name is given to a slot without connections.
LEMMA NameStep ==
    ASSUME Inv, Registered, SetEmpty(CA)
    PROVE  Registered'
<1> USE ProcAssumption DEF Inv, TypeOK, Goto, At, call, table
<1>1. \A j \in Handles : fd[index[CA]][j] \notin Conns
    BY NameAssumption, ConnAssumption DEF SetEmpty, HandlesOwned
<1>2. UNCHANGED <<nowcounts, fd, status, conn, index>> /\ index[CA] \in Slots
    BY DEF SetEmpty
<1>3. \A i \in Slots : i # index[CA] => subdomain'[i] = subdomain[i]
    BY DEF SetEmpty
<1>4. \A c \in Conns : Places(c)' = Places(c)
    BY <1>2 DEF Places
<1>5. ASSUME NEW c \in Conns, Placed(c) PROVE Placed(c)'
    <2>1. \A i \in Slots, j \in Handles : fd[i][j] = c =>
              nowcounts[i] <= nowcounts'[i] /\ subdomain'[i] = subdomain[i]
        BY <1>1, <1>2, <1>3, Sizes
    <2> QED BY <1>2, <1>4, <1>5, <2>1, PlacedKept, Sizes
<1>6. Registering'
    BY <1>1, <1>2 DEF SetEmpty, Registered, Registering, SetLabels
<1>7. pc[CA] = "set_probe" /\ pc'[CA] = "set_total"
    BY DEF SetEmpty
<1> QED BY <1>2, <1>4, <1>5, <1>6, <1>7 DEF Registered, Writing

\* So is a count.
LEMMA CountStep ==
    ASSUME Inv, Registered, SetCounts(CA)
    PROVE  Registered'
<1> USE ProcAssumption DEF Inv, TypeOK, Goto, At, call, table
<1>1. \A j \in Handles : fd[index[CA]][j] \notin Conns
    BY DEF SetCounts, Registered, Registering
<1>2. UNCHANGED <<subdomain, fd, status, conn, index>> /\ index[CA] \in Slots
    BY DEF SetCounts, SlotOf, HalfWritten
<1>3. nowcounts' = [nowcounts EXCEPT ![index[CA]] = 1]
    BY DEF SetCounts
<1>4. \A c \in Conns : Places(c)' = Places(c)
    BY <1>2 DEF Places
<1>5. ASSUME NEW c \in Conns, Placed(c) PROVE Placed(c)'
    <2>1. \A i \in Slots, j \in Handles : fd[i][j] = c =>
              nowcounts[i] <= nowcounts'[i] /\ subdomain'[i] = subdomain[i]
        BY <1>1, <1>2, <1>3, Sizes
    <2>2. \A i \in Slots : nowcounts'[i] \in Int
        BY <1>3, Sizes
    <2> QED BY <1>2, <1>4, <1>5, <2>1, <2>2, PlacedKept
<1>6. pc[CA] = "set_counts" /\ pc'[CA] = "set_now"
    BY DEF SetCounts
<1>7. Registering'
    BY <1>1, <1>2, <1>3, <1>6 DEF Registered, Registering, SetLabels
<1> QED BY <1>2, <1>4, <1>5, <1>6, <1>7 DEF Registered, Writing

\* The slot and the connection of a call that has found its slot.
LEMMA CallOf ==
    ASSUME Inv, pc[CA] \in {"set_fd", "add_fd", "add_counts"}
    PROVE  /\ index[CA] \in Slots /\ conn[CA] \in Conns
           /\ subdomain[index[CA]] = Stored[Sub[conn[CA]]]
           /\ nowcounts[index[CA]] \in Int
           /\ pc[CA] # "set_fd" => nowcounts[index[CA]] \in Handles
<1> USE ProcAssumption
<1>1. /\ index[CA] \in Slots /\ conn[CA] \in Conns
      /\ subdomain[index[CA]] = Stored[Sub[conn[CA]]]
    BY DEF Inv, RolesOf, SlotOf, HalfWritten, SetLabels
<1>2. nowcounts[index[CA]] \in 0 .. S1MaxListen + 1
    BY <1>1 DEF Inv, TypeOK
<1>3. pc[CA] # "set_fd" => nowcounts[index[CA]] <= S1MaxListen
    BY DEF Inv, SlotOf
<1> QED BY <1>1, <1>2, <1>3, Sizes DEF Handles

\* The handle that CA writes: the first of its slot, or the one it counts next.
Writes(i, j, c) ==
    /\ i = index[CA] /\ c = conn[CA]
    /\ subdomain[i] = Stored[Sub[c]]
    /\ fd' = [fd EXCEPT ![i][j] = c]
    /\ \/ pc[CA] = "set_fd" /\ pc'[CA] = "set_v" /\ j = 0
       \/ pc[CA] = "add_fd" /\ pc'[CA] = "add_counts" /\ j = nowcounts[i]

\* It is written where no connection stands, and its connection stands nowhere yet.
LEMMA HandleWritten ==
    ASSUME Inv, Registered, SetFd(CA) \/ AddFd(CA)
    PROVE  \E i \in Slots, j \in Handles, c \in Conns :
              /\ Writes(i, j, c)
              /\ status[c] = "new" /\ Places(c) = {}
              /\ \A d \in Conns : fd[i][j] # d
<1> USE ProcAssumption DEF Goto, At, call, table
<1>1. PICK i \in Slots, c \in Conns : /\ i = index[CA] /\ c = conn[CA]
                                      /\ subdomain[i] = Stored[Sub[c]]
    BY CallOf DEF SetFd, AddFd, AddFdAt
<1>2. PICK j \in Handles : Writes(i, j, c)
    <2>1. CASE SetFd(CA)
        <3>1. 0 \in Handles
            BY Sizes DEF Handles
        <3> QED BY <1>1, <2>1, <3>1 DEF SetFd, Inv, TypeOK, Writes
    <2>2. CASE AddFd(CA)
        <3>1. nowcounts[i] \in Handles
            BY <1>1, <2>2, CallOf DEF AddFd, AddFdAt
        <3> QED BY <1>1, <2>2, <3>1 DEF AddFd, AddFdAt, Inv, TypeOK, Writes
    <2> QED BY <2>1, <2>2
<1>3. status[c] = "new" /\ Places(c) = {}
    BY <1>1, <1>2 DEF Writes, Writing, Registered, Registering, SetLabels
<1>4. \A d \in Conns : fd[i][j] # d
    <2>1. CASE pc[CA] = "set_fd"
        BY <1>1, <2>1 DEF Registered, Registering
    <2>2. CASE pc[CA] = "add_fd" /\ j = nowcounts[i]
        <3> SUFFICES ASSUME NEW d \in Conns, fd[i][j] = d PROVE FALSE
            OBVIOUS
        <3>1. <<i, j>> \in Places(d)
            BY DEF Places
        <3>2. Placed(d)
            BY <2>2, <3>1 DEF Registered, Writing
        <3>3. j < nowcounts[i]
            BY <3>1, <3>2 DEF Placed
        <3>4. nowcounts[i] \in Int
            BY <2>2, Sizes DEF Handles
        <3> QED BY <2>2, <3>3, <3>4
    <2> QED BY <1>2, <2>1, <2>2 DEF Writes
<1> QED BY <1>2, <1>3, <1>4

\* No other connection loses its place by it.
LEMMA HandleStep ==
    ASSUME Inv, Registered, SetFd(CA) \/ AddFd(CA)
    PROVE  Registered'
<1> USE ProcAssumption DEF Goto, At, call, table
<1>1. PICK i \in Slots, j \in Handles, c \in Conns :
          /\ Writes(i, j, c)
          /\ status[c] = "new" /\ Places(c) = {}
          /\ \A d \in Conns : fd[i][j] # d
    BY HandleWritten
<1>2. /\ i = index[CA] /\ c = conn[CA] /\ subdomain[i] = Stored[Sub[c]]
      /\ fd' = [fd EXCEPT ![i][j] = c]
      /\ \/ pc[CA] = "set_fd" /\ pc'[CA] = "set_v" /\ j = 0
         \/ pc[CA] = "add_fd" /\ pc'[CA] = "add_counts" /\ j = nowcounts[i]
    BY <1>1 DEF Writes
<1>3. UNCHANGED <<subdomain, nowcounts, status, conn, index>>
    BY DEF SetFd, AddFd, AddFdAt
<1>4. status[c] = "new" /\ \A d \in Conns : status[d] # "ok" => Places(d) = {}
    BY <1>1, <1>2 DEF Writing, Registered
<1>6. Places(c)' = {<<i, j>>} /\ \A d \in Conns \ {c} : Places(d)' = Places(d)
    BY <1>1, <1>2, Overwritten DEF Inv
<1>7. ASSUME NEW d \in Conns, Placed(d) PROVE Placed(d)'
    <2>1. d # c
        BY <1>4, <1>7 DEF Placed
    <2> QED BY <1>3, <1>6, <1>7, <2>1 DEF Placed
<1>8. pc'[CA] = "set_v" => Placed(c)'
    <2> SUFFICES ASSUME pc'[CA] = "set_v" PROVE Placed(c)'
        OBVIOUS
    <2>1. j = 0 /\ nowcounts[i] = 1
        BY <1>1, <1>2 DEF Registered, Registering
    <2>2. PICK h \in Slots \X Handles : h = <<i, j>>
        OBVIOUS
    <2>3. h[2] < nowcounts'[h[1]] /\ subdomain'[h[1]] = Stored[Sub[c]]
        BY <1>1, <1>2, <1>3, <2>1, <2>2
    <2> QED BY <1>6, <2>2, <2>3 DEF Placed
<1>9. Registering'
    BY <1>1, <1>2, <1>3, <1>4, <1>6, <1>8 DEF Registering, Placed, Places
<1>10. ASSUME NEW d \in Conns, status'[d] # "ok", ~(conn'[CA] = d) PROVE Places(d)' = {}
    BY <1>1, <1>2, <1>3, <1>4, <1>6, <1>10
<1>11. pc'[CA] \in Writing
    BY <1>2 DEF Writing
<1> QED BY <1>3, <1>7, <1>9, <1>10, <1>11 DEF Registered

\* The handle that was written is counted.
LEMMA AddedStep ==
    ASSUME Inv, Registered, AddCounts(CA)
    PROVE  Registered'
<1> USE ProcAssumption DEF Inv, TypeOK, Goto, At, call, table
<1>1. PICK i \in Slots, c \in Conns : /\ i = index[CA] /\ c = conn[CA]
                                      /\ subdomain[i] = Stored[Sub[c]]
                                      /\ nowcounts[i] \in Handles
    BY CallOf DEF AddCounts
<1>2. /\ nowcounts' = [nowcounts EXCEPT ![i] = nowcounts[i] + 1]
      /\ UNCHANGED <<subdomain, fd, status, conn, index>>
    BY <1>1 DEF AddCounts
<1>3. pc[CA] = "add_counts" /\ pc'[CA] = "set_v"
    BY DEF AddCounts
<1>4. \A d \in Conns : Places(d)' = Places(d)
    BY <1>2 DEF Places
<1>5. ASSUME NEW d \in Conns, Placed(d) PROVE Placed(d)'
    <2>1. \A s \in Slots : nowcounts[s] <= nowcounts'[s]
        BY <1>2, Sizes
    <2>2. \A s \in Slots : nowcounts'[s] \in Int
        BY <1>2, Sizes
    <2> QED BY <1>2, <1>4, <1>5, <2>1, <2>2, PlacedKept
<1>6. Placed(c)'
    <2>1. Places(c) = {<<i, nowcounts[i]>>}
        BY <1>1, <1>3 DEF Registered, Registering
    <2>2. nowcounts[i] < nowcounts'[i] /\ subdomain'[i] = Stored[Sub[c]]
        BY <1>1, <1>2, Sizes
    <2>3. PICK h \in Slots \X Handles : h = <<i, nowcounts[i]>>
        BY <1>1
    <2>4. Places(c)' = {h} /\ h[2] < nowcounts'[h[1]] /\ subdomain'[h[1]] = Stored[Sub[c]]
        BY <1>4, <2>1, <2>2, <2>3
    <2> QED BY <2>4 DEF Placed
<1>7. Registering'
    <2>1. status'[conn'[CA]] = "new"
        BY <1>2, <1>3 DEF Registered, Registering, SetLabels
    <2>2. Placed(conn[CA])'
        BY <1>1, <1>2, <1>6 DEF Placed, Places
    <2> QED BY <1>3, <2>1, <2>2 DEF Registering
<1> QED BY <1>2, <1>3, <1>4, <1>5, <1>7 DEF Registered, Writing

\* SetFLRoute returns: 0 with its connection placed, or not with none.
LEMMA ReturnStep ==
    ASSUME Inv, Registered, SetReturn(CA)
    PROVE  Registered'
<1> USE ProcAssumption DEF Inv, TypeOK, Goto, At, call, table
<1>1. conn[CA] \in Conns /\ UNCHANGED <<subdomain, nowcounts, fd>> /\ pc'[CA] = "idle"
    BY DEF SetReturn, RolesOf, SetLabels
<1>2. (\A c \in Conns : Places(c)' = Places(c)) /\ (\A c \in Conns : Placed(c) => Placed(c)')
    BY <1>1 DEF Placed, Places
<1>3. /\ \A c \in Conns : c # conn[CA] => status'[c] = status[c]
      /\ status'[conn[CA]] = IF pc[CA] = "set_v" THEN "ok" ELSE "full"
    BY <1>1 DEF SetReturn
<1>4. pc[CA] = "set_v" => Placed(conn[CA])
    BY DEF Registered, Registering
<1>5. pc[CA] # "set_v" => Places(conn[CA]) = {}
    BY <1>1 DEF SetReturn, Registered, Registering, Writing, SetLabels
<1>6. Registering'
    BY <1>1 DEF Registering, SetLabels
<1>7. \A c \in Conns : status[c] # "ok" /\ c # conn[CA] => Places(c) = {}
    BY DEF SetReturn, Registered, Writing
<1> QED BY <1>1, <1>2, <1>3, <1>4, <1>5, <1>6, <1>7 DEF Registered, Writing

\* One case for each statement of SetFLRoute; lookups change none of it.
LEMMA RegisteredStep ==
    ASSUME Inv, Registered, NEW p \in Procs, Step(p)
    PROVE  Registered'
<1>1. CASE p # CA
    BY <1>1, WorkersKeep
<1>2. CASE p = CA
    <2>1. ~CallGet(CA) /\ ~Respawn(CA) /\ ~Get(CA)
        BY ProcAssumption DEF CallGet, Respawn, Get, GetMiss, GetHit, GetInc, SetCursor, GetWrap,
           WrapTo, GetSkip, GetSkipTo, GetReturn, At, Inv, RolesOf, GetLabels
    <2> QED BY <1>2, <2>1, QuietStep, NameStep, CountStep, HandleStep, AddedStep, ReturnStep
            DEF Step, Set, Fault, Kill
<1> QED BY <1>1, <1>2

\* So it is of every reachable state.
LEMMA RegisteredHolds == Spec => []Registered
<1>1. Init => Registered
    BY ConnAssumption, ProcAssumption DEF Init, Registered, Registering, Places, SetLabels
<1>2. Inv /\ Registered /\ [Next]_vars => Registered'
    <2>1. ASSUME Inv, Registered, UNCHANGED vars PROVE Registered'
        BY <2>1 DEF vars, table, call, Registered, Registering, Placed, Places
    <2> QED BY <2>1, RegisteredStep DEF Next, Step
<1> QED BY <1>1, <1>2, InvHolds, PTL DEF Spec

\* A connection SetFLRoute has accepted stands in one handle of its own name's slot,
\* and another in none, whatever the workers do and whoever of them dies.
THEOREM RegistersOnce == Spec => []RegisteredOnce
<1>1. Inv /\ Registered => RegisteredOnce
    <2> SUFFICES ASSUME Inv, Registered, semval = 1, NEW c \in Conns
                 PROVE  /\ status[c] = "ok" =>
                               /\ Cardinality(Places(c)) = 1
                               /\ \A h \in Places(c) : /\ h[2] < nowcounts[h[1]]
                                                       /\ subdomain[h[1]] = Stored[Sub[c]]
                        /\ status[c] # "ok" => Places(c) = {} \/ At(CA, "dead")
        BY DEF RegisteredOnce
    <2>1. pc[CA] \notin Writing
        BY FreeWhenFree, ProcAssumption DEF Inv, Writing, Critical, SetLabels
    <2>2. CASE status[c] = "ok"
        <3>1. Placed(c)
            BY <2>2 DEF Registered
        <3> QED BY <2>2, <3>1, FS_Singleton DEF Placed
    <2>3. CASE status[c] # "ok"
        BY <2>1, <2>3 DEF Registered, At
    <2> QED BY <2>2, <2>3
<1> QED BY <1>1, RegisteredHolds, InvHolds, PTL

-----------------------------------------------------------------------------
(* The table implements the registry, step by step, while no death tears a *)
(* slot: a worker that dies between the increment and the reset of a       *)
(* cursor leaves it beyond the handles, where a lookup finds none for ever.*)

\* What the refinement needs of the constants beyond their assumptions: totals
\* that agree and fit a slot, as a cursor that runs beyond the handles reads the
\* next slot's memory, and no name that is cut, as none is ever found.
SameTotals == \A k \in Fits : OneTotal(k)

Orderly == /\ SameTotals
           /\ \A c \in Conns : Total[c] <= MAXCLIENTCONN
           /\ Fits = Subdomains

\* i is a place of the probe for k, if it goes far enough.
On(k, i) == IF Low(k) THEN i < MAXSUBDOMAIN ELSE i >= Home[k]

\* The slots the probe for k has passed when it comes to i.
Passed(k, i) == IF i >= Home[k] THEN Home[k] .. i - 1
                                ELSE (Home[k] .. MAXSUBDOMAIN - 1) \cup (0 .. i - 1)

\* Every handle a slot may hold is a connection.
Full(i) == \A j \in Handles : j <= S1MaxListen => fd[i][j] \in Conns

\* A name stands where its probe comes, every slot before is taken, and one that
\* has the same name is full.
Reached(i) ==
    subdomain[i] # EMPTY =>
        /\ \E c \in Conns : Sub[c] = subdomain[i]
        /\ On(subdomain[i], i)
        /\ \A j \in Slots : j \in Passed(subdomain[i], i) =>
               subdomain[j] # EMPTY /\ (subdomain[j] = subdomain[i] => Full(j))

\* Handles are filled from the front.
Front(i) == \A h, g \in Handles : g < h /\ fd[i][h] \in Conns => fd[i][g] \in Conns

\* Those that are counted hold connections, a count written before its handle aside.
CountTrue(i) == ~(pc[CA] \in {"set_now", "set_fd"} /\ index[CA] = i) =>
                   \A h \in Handles : h < nowcounts[i] => fd[i][h] \in Conns

\* What p has learnt of the slots it has passed.
ProbeTrue(p) ==
    /\ pc[p] \in {"set_p", "get_p"} => index[p] = Home[key[p]]
    /\ pc[p] \in {"set_probe", "get_probe"} =>
          /\ On(key[p], index[p])
          /\ \A j \in Slots : j \in Passed(key[p], index[p]) =>
                /\ subdomain[j] # EMPTY
                /\ subdomain[j] = key[p] => pc[p] = "set_probe" /\ Full(j)
    /\ ~Answered(p) => sock[p] = NULL

Chains == /\ \A i \in Slots : Reached(i) /\ Front(i) /\ CountTrue(i)
          /\ \A p \in Procs : ProbeTrue(p)

-----------------------------------------------------------------------------
\* A probe begins at its home, with nothing passed.
LEMMA HomeFirst ==
    ASSUME NEW k \in Subdomains
    PROVE  Home[k] \in Nat /\ On(k, Home[k]) /\ Passed(k, Home[k]) = {}
BY Sizes, HomeAssumption DEF On, Passed, Low

\* It passes the slot it leaves, and no other, unless it is home again.
LEMMA PassesOne ==
    ASSUME NEW k \in Subdomains, NEW i \in Nat, On(k, i), After(i) # Home[k]
    PROVE  On(k, After(i)) /\ Passed(k, After(i)) \subseteq Passed(k, i) \cup {i}
<1>1. CASE Low(k)
    <2>1. Home[k] \in {0, 1} /\ i < MAXSUBDOMAIN
        BY <1>1, Sizes, HomeAssumption DEF On, Low
    <2> QED BY <1>1, <2>1, Sizes DEF On, Passed, After
<1>2. CASE ~Low(k)
    <2>1. Home[k] \in Nat /\ Home[k] > MAXSUBDOMAIN /\ i >= Home[k]
        BY <1>2, Sizes, HomeAssumption DEF On, Low
    <2> QED BY <1>2, <2>1, Sizes DEF On, Passed, After
<1> QED BY <1>1, <1>2

\* Home again, it has passed every place it comes to.
LEMMA PassesAll ==
    ASSUME NEW k \in Subdomains, NEW i \in Nat, On(k, i), After(i) = Home[k],
           NEW j \in Nat, On(k, j), j # i
    PROVE  j \in Passed(k, i)
<1>1. CASE Low(k)
    <2>1. Home[k] \in {0, 1} /\ i < MAXSUBDOMAIN /\ j < MAXSUBDOMAIN
        BY <1>1, Sizes, HomeAssumption DEF On, Low
    <2> QED BY <1>1, <2>1, Sizes DEF Passed, After
<1>2. CASE ~Low(k)
    <2>1. Home[k] \in Nat /\ Home[k] > MAXSUBDOMAIN /\ i >= Home[k]
        BY <1>2, Sizes, HomeAssumption DEF On, Low
    <2> QED BY <2>1, Sizes DEF After
<1> QED BY <1>1, <1>2

\* Of two places one is passed on the way to the other.
LEMMA PassedInOrder ==
    ASSUME NEW k \in Subdomains, NEW i \in Nat, NEW j \in Nat, On(k, i), On(k, j), i # j
    PROVE  i \in Passed(k, j) \/ j \in Passed(k, i)
<1>1. CASE Low(k)
    <2>1. Home[k] \in {0, 1} /\ i < MAXSUBDOMAIN /\ j < MAXSUBDOMAIN
        BY <1>1, Sizes, HomeAssumption DEF On, Low
    <2> QED BY <1>1, <2>1, Sizes DEF Passed
<1>2. CASE ~Low(k)
    <2>1. Home[k] \in Nat /\ i >= Home[k] /\ j >= Home[k]
        BY <1>2, Sizes, HomeAssumption DEF On, Low
    <2> QED BY <2>1 DEF Passed
<1> QED BY <1>1, <1>2

\* A slot is a natural number.
LEMMA SlotsNat == Slots \subseteq Nat
BY Sizes DEF Slots

-----------------------------------------------------------------------------
\* Only CA writes handles, and takes none from a connection.
LEMMA HandlesStay ==
    ASSUME Inv, Registered, NEW p \in Procs, Step(p)
    PROVE  /\ UNCHANGED fd \/ (p = CA /\ (SetFd(CA) \/ AddFd(CA)))
           /\ \A i \in Slots, j \in Handles : fd[i][j] \in Conns => fd'[i][j] \in Conns
<1>1. UNCHANGED fd \/ SetFd(p) \/ AddFd(p)
    BY DEF table, call, Step, Set, Get, CallSet, CallGet, Enter, Respawn, SetEmpty, SetTotal,
       SetCounts, SetNow, AddTotal, AddCounts, SetSkip, SetReturn, GetMiss, GetHit,
       GetInc, SetCursor, GetWrap, WrapTo, GetSkip, GetSkipTo, GetReturn, Fault, Kill, Exit
<1>2. ASSUME SetFd(p) \/ AddFd(p) PROVE p = CA
    BY <1>2 DEF SetFd, AddFd, AddFdAt, At, Inv, RolesOf, SetLabels
<1>3. ASSUME SetFd(CA) \/ AddFd(CA)
      PROVE  \A i \in Slots, j \in Handles : fd[i][j] \in Conns => fd'[i][j] \in Conns
    <2>1. PICK s \in Slots, n \in Handles, c \in Conns : fd' = [fd EXCEPT ![s][n] = c]
        BY <1>3, HandleWritten DEF Writes
    <2> QED BY <2>1 DEF Inv, TypeOK
<1> QED BY <1>1, <1>2, <1>3

\* Names stay reachable: one is given to an empty slot, after its probe has passed
\* those before, and handles are only filled.
LEMMA ReachedStep ==
    ASSUME Orderly, Inv, Registered, Chains, NEW p \in Procs, Step(p)
    PROVE  \A i \in Slots : Reached(i)'
<1>1. ASSUME NEW j \in Slots, Full(j) PROVE Full(j)'
    BY <1>1, HandlesStay DEF Full
<1>2. CASE UNCHANGED subdomain
    BY <1>1, <1>2 DEF Chains, Reached, On, Passed, Low
<1>3. CASE SetEmpty(p)
    <2>1. PICK s \in Slots : s = index[p] /\ subdomain[s] = EMPTY /\ pc[p] = "set_probe"
        BY <1>3 DEF SetEmpty, At
    <2>2. conn[p] \in Conns /\ key[p] = Sub[conn[p]] /\ key[p] \in Subdomains /\ Stored[key[p]] = key[p]
        BY <2>1, ConnAssumption, NameAssumption DEF Orderly, Inv, RolesOf, SetLabels
    <2>3. subdomain' = [subdomain EXCEPT ![s] = key[p]] /\ key[p] # EMPTY
        BY <1>3, <2>1, <2>2, NameAssumption DEF SetEmpty
    <2>4. \A i \in Slots : subdomain'[i] = IF i = s THEN key[p] ELSE subdomain[i]
        BY <2>1, <2>3 DEF Inv, TypeOK
    <2>5. /\ On(key[p], s)
          /\ \A j \in Slots : j \in Passed(key[p], s) =>
                subdomain[j] # EMPTY /\ (subdomain[j] = key[p] => Full(j))
        BY <2>1 DEF Chains, ProbeTrue
    <2>6. Reached(s)'
        <3>1. \A j \in Slots : j \in Passed(key[p], s) =>
                  subdomain'[j] # EMPTY /\ (subdomain'[j] = key[p] => Full(j)')
            BY <1>1, <2>1, <2>4, <2>5
        <3>2. subdomain'[s] = key[p]
            BY <2>1, <2>4
        <3> QED BY <2>2, <2>5, <3>1, <3>2 DEF Reached, On, Passed, Low
    <2>7. ASSUME NEW i \in Slots, i # s PROVE Reached(i)'
        <3> SUFFICES ASSUME subdomain[i] # EMPTY
                     PROVE  /\ \E c \in Conns : Sub[c] = subdomain[i]
                            /\ On(subdomain[i], i)
                            /\ \A j \in Slots : j \in Passed(subdomain[i], i) =>
                                 subdomain'[j] # EMPTY /\ (subdomain'[j] = subdomain[i] => Full(j)')
            BY <2>1, <2>4, <2>7 DEF Reached, On, Passed, Low
        <3>1. Reached(i)
            BY DEF Chains
        <3>2. \A j \in Slots : j \in Passed(subdomain[i], i) => j # s /\ subdomain'[j] = subdomain[j]
            BY <2>1, <2>4, <3>1 DEF Reached
        <3> QED BY <1>1, <3>1, <3>2 DEF Reached
    <2> QED BY <2>6, <2>7
<1> QED BY <1>2, <1>3, NamesWritten

\* Handles are written in order.
LEMMA FrontStep ==
    ASSUME Inv, Registered, Chains, NEW p \in Procs, Step(p)
    PROVE  \A i \in Slots : Front(i)'
<1>1. CASE UNCHANGED fd
    BY <1>1 DEF Chains, Front
<1>2. CASE SetFd(CA) \/ AddFd(CA)
    <2>1. PICK s \in Slots, n \in Handles, c \in Conns : Writes(s, n, c)
        BY <1>2, HandleWritten
    <2>2. \A i \in Slots, j \in Handles :
              fd'[i][j] = IF i = s /\ j = n THEN c ELSE fd[i][j]
        BY <2>1 DEF Writes, Inv, TypeOK
    <2>3. \A g \in Handles : g < n => fd[s][g] \in Conns
        <3>1. CASE n = 0
            BY <3>1 DEF Handles
        <3>2. CASE pc[CA] = "add_fd" /\ n = nowcounts[s]
            BY <3>2 DEF Chains, CountTrue
        <3> QED BY <2>1, <3>1, <3>2 DEF Writes
    <2>4. \A i \in Slots : Front(i)
        BY DEF Chains
    <2> QED BY <2>2, <2>3, <2>4 DEF Front
<1> QED BY <1>1, <1>2, HandlesStay

\* A count follows its handle, except in a slot that is new.
LEMMA CountedStep ==
    ASSUME Inv, Registered, Chains, NEW p \in Procs, Step(p), torn' = {}
    PROVE  \A i \in Slots : CountTrue(i)'
<1> SUFFICES ASSUME NEW i \in Slots, ~(pc[CA] \in {"set_now", "set_fd"} /\ index[CA] = i)',
                    NEW h \in Handles, h < nowcounts'[i]
             PROVE  fd'[i][h] \in Conns
    BY DEF CountTrue
<1>1. CASE /\ nowcounts'[i] = nowcounts[i]
           /\ ~(pc[CA] \in {"set_now", "set_fd"} /\ index[CA] = i)
    <2>1. fd[i][h] \in Conns
        BY <1>1 DEF Chains, CountTrue
    <2> QED BY <2>1, HandlesStay
<1>2. CASE p # CA
    BY <1>1, <1>2, WorkersRead
<1>3. CASE p = CA
    <2> USE <1>3, ProcAssumption DEF Goto, At, call, table
    <2>1. CASE CallSet(CA) \/ Enter(CA) \/ SetEmpty(CA) \/ SetTotal(CA) \/ AddTotal(CA)
        BY <1>1, <2>1 DEF CallSet, Enter, SetEmpty, SetTotal, AddTotal
    <2>2. CASE SetSkip(CA) \/ SetReturn(CA) \/ AddFd(CA)
        BY <1>1, <2>2 DEF SetSkip, SetReturn, AddFd, AddFdAt
    <2>3. CASE SetNow(CA)
        <3>1. nowcounts'[i] = nowcounts[i] /\ index[CA] # i
            BY <2>3 DEF SetNow, Inv, TypeOK
        <3> QED BY <1>1, <3>1
    <2>4. CASE SetCounts(CA)
        <3>1. nowcounts'[i] = nowcounts[i] /\ index[CA] # i
            BY <2>4 DEF SetCounts, Inv, TypeOK
        <3> QED BY <1>1, <3>1
    <2>5. CASE SetFd(CA)
        <3>1. CASE i # index[CA]
            BY <1>1, <2>5, <3>1 DEF SetFd
        <3>2. CASE i = index[CA]
            <4>1. nowcounts'[i] = 1
                BY <2>5, <3>2 DEF SetFd, Registered, Registering
            <4>2. h = 0
                BY <4>1, Sizes DEF Handles
            <4>3. conn[CA] \in Conns /\ fd' = [fd EXCEPT ![i][0] = conn[CA]]
                BY <2>5, <3>2, CallOf DEF SetFd
            <4> QED BY <4>2, <4>3 DEF Inv, TypeOK
        <3> QED BY <3>1, <3>2
    <2>6. CASE AddCounts(CA)
        <3>1. pc[CA] = "add_counts" /\ fd' = fd
            BY <2>6 DEF AddCounts
        <3>2. CASE i # index[CA]
            BY <1>1, <2>6, <3>2 DEF AddCounts, Inv, TypeOK
        <3>3. CASE i = index[CA]
            <4>1. nowcounts'[i] = nowcounts[i] + 1 /\ nowcounts[i] \in Int
                BY <2>6, <3>1, <3>3, CallOf DEF AddCounts, Inv, TypeOK
            <4>2. Places(conn[CA]) = {<<i, nowcounts[i]>>} /\ conn[CA] \in Conns
                BY <3>1, <3>3, CallOf DEF Registered, Registering
            <4>3. fd[i][nowcounts[i]] \in Conns
                <5>1. <<i, nowcounts[i]>> \in Places(conn[CA])
                    BY <4>2
                <5> QED BY <4>2, <5>1 DEF Places
            <4>4. h \in Int
                BY Sizes DEF Handles
            <4>5. h < nowcounts[i] \/ h = nowcounts[i]
                BY <4>1, <4>4
            <4>6. h < nowcounts[i] => fd[i][h] \in Conns
                BY <3>1 DEF Chains, CountTrue
            <4> QED BY <3>1, <4>3, <4>5, <4>6
        <3> QED BY <3>2, <3>3
    <2>7. CASE Exit(CA)
        <3>1. pc[CA] \notin {"set_now", "set_fd"}
            BY <2>7 DEF Exit, HalfWritten
        <3> QED BY <1>1, <2>7, <3>1 DEF Exit
    <2>8. ~CallGet(CA) /\ ~Respawn(CA) /\ ~Get(CA)
        BY DEF CallGet, Respawn, Get, GetMiss, GetHit, GetInc, SetCursor, GetWrap,
           WrapTo, GetSkip, GetSkipTo, GetReturn, Inv, RolesOf, GetLabels
    <2> QED BY <2>1, <2>2, <2>3, <2>4, <2>5, <2>6, <2>7, <2>8 DEF Step, Set, Fault, Kill
<1> QED BY <1>2, <1>3

\* What another process has learnt stays so: the lock is its own.
LEMMA OthersProbes ==
    ASSUME Inv, Chains, NEW p \in Procs, Step(p), NEW q \in Procs, q # p
    PROVE  ProbeTrue(q)'
<1>1. /\ pc'[q] = pc[q] /\ key'[q] = key[q] /\ index'[q] = index[q] /\ sock'[q] = sock[q]
      /\ pc[p] \in Critical \/ UNCHANGED table
    BY Frame DEF Inv
<1>2. ProbeTrue(q)
    BY DEF Chains
<1>3. CASE UNCHANGED table
    BY <1>1, <1>2, <1>3 DEF ProbeTrue, On, Passed, Low, Full, Answered, table
<1>4. CASE pc[p] \in Critical
    <2>1. pc[q] \notin {"set_probe", "get_probe"}
        BY <1>4, Alone DEF Critical, SetLabels, GetLabels
    <2> QED BY <1>1, <1>2, <2>1 DEF ProbeTrue, Answered
<1> QED BY <1>1, <1>3, <1>4

\* A probe that goes on has seen its slot taken, by another name or fully.
LEMMA LearntStep ==
    ASSUME Orderly, Inv, Registered, Chains, NEW p \in Procs, Step(p)
    PROVE  ProbeTrue(p)'
<1> USE DEF Inv, TypeOK, Goto, At, call, table
<1>1. CASE CallSet(p)
    <2>1. PICK c \in Conns : key' = [key EXCEPT ![p] = Sub[c]] /\ index' = [index EXCEPT ![p] = Home[Sub[c]]]
        BY <1>1 DEF CallSet
    <2> QED BY <1>1, <2>1 DEF CallSet, Chains, ProbeTrue, Answered
<1>2. CASE CallGet(p)
    BY <1>2 DEF CallGet, Chains, ProbeTrue, Answered
<1>3. CASE Enter(p)
    <2>1. key[p] \in Subdomains /\ index[p] = Home[key[p]]
        BY <1>3, ConnAssumption DEF Enter, RolesOf, Chains, ProbeTrue
    <2>2. On(key[p], index[p]) /\ Passed(key[p], index[p]) = {}
        BY <2>1, HomeFirst
    <2>3. key'[p] = key[p] /\ index'[p] = index[p] /\ pc'[p] \in {"set_probe", "get_probe"}
        BY <1>3 DEF Enter
    <2>4. sock'[p] = NULL
        BY <1>3 DEF Enter, Chains, ProbeTrue, Answered
    <2> QED BY <2>2, <2>3, <2>4 DEF ProbeTrue, On, Passed, Low
<1>4. CASE SetEmpty(p) \/ SetTotal(p) \/ SetCounts(p) \/ SetNow(p) \/ SetFd(p)
    BY <1>4 DEF SetEmpty, SetTotal, SetCounts, SetNow, SetFd, Chains, ProbeTrue, Answered
<1>5. CASE AddTotal(p) \/ AddFd(p) \/ AddCounts(p)
    BY <1>5 DEF AddTotal, AddFd, AddFdAt, AddCounts, Chains, ProbeTrue, Answered
<1>6. CASE SetSkip(p) \/ GetSkip(p)
    <2>1. /\ index[p] \in Slots /\ index[p] \in Nat /\ subdomain[index[p]] # EMPTY
          /\ index'[p] = After(index[p])
          /\ UNCHANGED <<key, sock, table>>
          /\ pc[p] \in {"set_probe", "get_probe"}
          /\ pc'[p] \in {"set_probe", "get_probe"} => pc'[p] = pc[p] /\ After(index[p]) # Home[key[p]]
          /\ pc'[p] \notin {"set_p", "get_p"}
        BY <1>6 DEF SetSkip, GetSkip, GetSkipTo
    <2>2. key[p] \in Subdomains
        BY <2>1, ConnAssumption DEF RolesOf, SetLabels, GetLabels
    <2>3. subdomain[index[p]] = key[p] => pc[p] = "set_probe" /\ Full(index[p])
        <3> SUFFICES ASSUME subdomain[index[p]] = key[p] PROVE pc[p] = "set_probe" /\ Full(index[p])
            OBVIOUS
        <3>1. Matches(index[p], key[p])
            BY <2>2 DEF Orderly, Matches
        <3>2. SetSkip(p) /\ pc[p] = "set_probe" /\ ~(nowcounts[index[p]] <= S1MaxListen)
            BY <1>6, <3>1 DEF SetSkip, GetSkip, GetSkipTo, Joins
        <3>3. p = CA
            BY <3>2 DEF RolesOf, SetLabels
        <3>4. \A h \in Handles : h < nowcounts[index[p]] => fd[index[p]][h] \in Conns
            <4>1. CountTrue(index[p])
                BY <2>1 DEF Chains
            <4> QED BY <3>2, <3>3, <4>1 DEF CountTrue
        <3>5. nowcounts[index[p]] = S1MaxListen + 1
            <4>1. nowcounts[index[p]] \in 0 .. S1MaxListen + 1
                BY <2>1
            <4> HIDE DEF Inv, TypeOK
            <4> QED BY <3>2, <4>1, Sizes
        <3> QED BY <3>2, <3>4, <3>5, Sizes DEF Full, Handles
    <2>4. /\ On(key[p], index[p])
          /\ \A j \in Slots : j \in Passed(key[p], index[p]) =>
                subdomain[j] # EMPTY /\ (subdomain[j] = key[p] => pc[p] = "set_probe" /\ Full(j))
        BY <2>1 DEF Chains, ProbeTrue
    <2>5. sock'[p] = NULL
        BY <2>1 DEF Chains, ProbeTrue, Answered
    <2>6. ASSUME pc'[p] \in {"set_probe", "get_probe"}
          PROVE  /\ On(key[p], After(index[p]))
                 /\ \A j \in Slots : j \in Passed(key[p], After(index[p])) =>
                       subdomain[j] # EMPTY /\ (subdomain[j] = key[p] => pc[p] = "set_probe" /\ Full(j))
        BY <2>1, <2>2, <2>3, <2>4, <2>6, PassesOne
    <2> QED BY <2>1, <2>5, <2>6 DEF ProbeTrue, On, Passed, Low, Full
<1>7. CASE GetHit(p)
    BY <1>7 DEF GetHit, ProbeTrue, Answered
<1>8. CASE GetMiss(p) \/ GetInc(p) \/ GetWrap(p)
    BY <1>8 DEF GetMiss, GetInc, SetCursor, GetWrap, WrapTo, Chains, ProbeTrue, Answered
<1>9. CASE SetReturn(p) \/ GetReturn(p) \/ Exit(p)
    BY <1>9 DEF SetReturn, GetReturn, Exit, EndCall, ProbeTrue
<1>10. CASE Respawn(p)
    BY <1>10 DEF Respawn, Chains, ProbeTrue, Answered
<1> QED BY <1>1, <1>2, <1>3, <1>4, <1>5, <1>6, <1>7, <1>8, <1>9, <1>10 DEF Step, Set, Get, Fault, Kill

\* What the handles and probes say at the start, and after every step that tears no slot.
LEMMA ChainsStep ==
    ASSUME Orderly, Inv, Registered, Chains, [Next]_vars, torn' = {}
    PROVE  Chains'
<1>1. CASE UNCHANGED vars
    BY <1>1 DEF vars, table, call, Chains, Reached, Front, CountTrue, ProbeTrue, On, Passed, Low, Full, Answered
<1>2. ASSUME NEW p \in Procs, Step(p) PROVE Chains'
    <2>1. \A i \in Slots : (Reached(i) /\ Front(i) /\ CountTrue(i))'
        BY <1>2, ReachedStep, FrontStep, CountedStep
    <2>2. \A q \in Procs : ProbeTrue(q)'
        BY <1>2, LearntStep, OthersProbes
    <2> QED BY <2>1, <2>2 DEF Chains
<1> QED BY <1>1, <1>2 DEF Next, Step

-----------------------------------------------------------------------------
(* What a lookup is answered. *)

\* The connections that stand in the table, as the registry's routes.
Routes == {c \in Conns : \E i \in Slots, j \in Handles : fd[i][j] = c}

\* A connection of a name stands in a slot of the name, where its probe comes.
LEMMA StandsWhere ==
    ASSUME Orderly, Inv, Chains, NEW k \in Subdomains, NEW c \in Registry!Serving(k)
    PROVE  \E i \in Slots, j \in Handles :
              /\ c \in Conns /\ Sub[c] = k /\ fd[i][j] = c
              /\ subdomain[i] = k /\ On(k, i) /\ k # EMPTY
              /\ \A s \in Slots : s \in Passed(k, i) =>
                    subdomain[s] # EMPTY /\ (subdomain[s] = k => Full(s))
<1>1. PICK i \in Slots, j \in Handles : c \in Conns /\ Sub[c] = k /\ fd[i][j] = c
    BY DEF Registry!Serving
<1>2. Stored[k] = k /\ k # EMPTY
    BY NameAssumption DEF Orderly
<1>3. subdomain[i] = k
    BY <1>1, <1>2 DEF Inv, HandlesOwned
<1>4. Reached(i)
    BY DEF Chains
<1> QED BY <1>1, <1>2, <1>3, <1>4 DEF Reached

\* A lookup that ends without a handle has come to the place where a connection
\* of the name would stand, or round to its home: none is registered.
LEMMA NoneServing ==
    ASSUME Orderly, Inv, Chains, NEW p \in Procs, pc[p] = "get_probe",
           index[p] \in Slots,
           \/ subdomain[index[p]] = EMPTY
           \/ subdomain[index[p]] # key[p] /\ After(index[p]) = Home[key[p]]
    PROVE  Registry!Serving(key[p]) = {}
<1>1. key[p] \in Subdomains /\ index[p] \in Nat
    BY SlotsNat DEF Inv, RolesOf, GetLabels
<1>2. /\ On(key[p], index[p])
      /\ \A j \in Slots : j \in Passed(key[p], index[p]) => subdomain[j] # key[p]
    BY DEF Chains, ProbeTrue
<1> SUFFICES ASSUME NEW c \in Registry!Serving(key[p]) PROVE FALSE
    OBVIOUS
<1>3. PICK i \in Slots : /\ subdomain[i] = key[p] /\ On(key[p], i) /\ key[p] # EMPTY
                         /\ \A s \in Slots : s \in Passed(key[p], i) => subdomain[s] # EMPTY
    BY <1>1, StandsWhere
<1>4. i \in Nat /\ i \notin Passed(key[p], index[p]) /\ i # index[p]
    BY <1>2, <1>3, SlotsNat
<1>5. CASE subdomain[index[p]] = EMPTY
    BY <1>1, <1>2, <1>3, <1>4, <1>5, PassedInOrder
<1>6. CASE After(index[p]) = Home[key[p]]
    BY <1>1, <1>2, <1>3, <1>4, <1>6, PassesAll
<1> QED BY <1>5, <1>6

\* The cursor of the slot a lookup finds is at one of its handles, below the total
\* that the clients of the name announce.
LEMMA CursorAtHandle ==
    ASSUME Orderly, Inv, Cursors, Chains, torn = {}, NEW p \in Procs, GetHit(p)
    PROVE  /\ index[p] \in Slots /\ now[index[p]] \in Handles
           /\ \A c \in Conns : Sub[c] = key[p] => now[index[p]] < Total[c]
           /\ subdomain[index[p]] = key[p] /\ key[p] \in Subdomains
<1>1. index[p] \in Slots /\ subdomain[index[p]] = key[p] /\ pc[p] = "get_probe"
    BY DEF GetHit, At, Matches
<1>2. key[p] \in Subdomains /\ key[p] # EMPTY /\ Stored[key[p]] = key[p]
    BY <1>1, NameAssumption DEF Orderly, Inv, RolesOf, GetLabels
<1>3. pc[p] \in Critical /\ pc[p] \notin Moving
    BY <1>1 DEF Critical, GetLabels, Moving
<1>4. Settled(index[p])
    BY <1>1, <1>2, <1>3, Alone, MovingCritical DEF Settled
<1>5. now[index[p]] < total[index[p]] /\ TotalsAgree(index[p])
    <2>1. OneTotal(subdomain[index[p]])
        BY <1>1, <1>2 DEF Orderly, SameTotals
    <2> QED BY <1>1, <1>4, <2>1 DEF Cursors, TurnOf
<1>6. PICK d \in Conns : Sub[d] = key[p]
    BY <1>1, <1>2 DEF Chains, Reached
<1>7. \A c \in Conns : Sub[c] = key[p] => total[index[p]] = Total[c]
    BY <1>1, <1>2, <1>5 DEF TotalsAgree
<1>8. total[index[p]] = Total[d] /\ Total[d] <= MAXCLIENTCONN /\ Total[d] \in Nat
    BY <1>6, <1>7, ConnAssumption DEF Orderly
<1>9. now[index[p]] \in Nat
    BY <1>1, Sizes DEF Inv, TypeOK
<1>10. now[index[p]] \in Handles
    BY <1>5, <1>8, <1>9, Sizes DEF Handles
<1> QED BY <1>1, <1>2, <1>5, <1>7, <1>10

\* The registry counts as this module does.
LEMMA SameCount == \A S : Registry!Cardinality(S) = Cardinality(S)
BY Zenon DEF Registry!Cardinality, Cardinality

\* When the handle at the cursor is none, the name's connections are those before
\* the cursor: fewer than announced.
LEMMA NotAllRegistered ==
    ASSUME Orderly, Inv, Cursors, Chains, torn = {}, NEW p \in Procs, GetHit(p),
           fd[index[p]][now[index[p]]] \notin Conns
    PROVE  ~Registry!Complete(key[p])
<1> DEFINE i == index[p]
           k == key[p]
           Before == {fd[i][j] : j \in 0 .. now[i] - 1}
<1>1. /\ i \in Slots /\ now[i] \in Handles /\ now[i] \in Nat
      /\ \A c \in Conns : Sub[c] = k => now[i] < Total[c]
      /\ subdomain[i] = k /\ k \in Subdomains
    BY CursorAtHandle DEF Handles
<1>2. On(k, i) /\ \A j \in Slots : j \in Passed(k, i) => subdomain[j] # k
    BY DEF GetHit, At, Chains, ProbeTrue
<1>3. \A h \in Handles : h >= now[i] => fd[i][h] \notin Conns
    <2> SUFFICES ASSUME NEW h \in Handles, h > now[i], fd[i][h] \in Conns PROVE FALSE
        BY <1>1, Sizes DEF Handles
    <2> QED BY <1>1 DEF Chains, Front
<1> SUFFICES ASSUME Registry!Complete(k) PROVE FALSE
    OBVIOUS
<1>4. PICK d \in Registry!Serving(k) : /\ Total[d] <= Cardinality(Registry!Serving(k))
                                       /\ Total[d] <= S1MaxListen + 1
    <2>1. Registry!Serving(k) # {} /\ \A c \in Registry!Serving(k) :
              Total[c] <= Cardinality(Registry!Serving(k)) /\ Total[c] <= S1MaxListen + 1
        BY SameCount, Zenon DEF Registry!Complete
    <2> QED BY <2>1, Zenon
<1>5. d \in Conns /\ Sub[d] = k /\ Total[d] \in Nat /\ now[i] < Total[d]
    BY <1>1, <1>4, ConnAssumption DEF Registry!Serving
<1>6. ~Full(i)
    BY <1>1, <1>4, <1>5, Sizes DEF Full
<1> HIDE DEF i, k
<1>7. Registry!Serving(k) \subseteq Before
    <2> SUFFICES ASSUME NEW c \in Registry!Serving(k) PROVE c \in Before
        OBVIOUS
    <2>1. PICK s \in Slots, h \in Handles :
              /\ c \in Conns /\ fd[s][h] = c
              /\ subdomain[s] = k /\ On(k, s)
              /\ \A t \in Slots : t \in Passed(k, s) => (subdomain[t] = k => Full(t))
        BY <1>1, StandsWhere
    <2>2. s = i
        <3> SUFFICES ASSUME s # i PROVE FALSE
            OBVIOUS
        <3>1. s \notin Passed(k, i) /\ i \notin Passed(k, s)
            BY <1>1, <1>2, <1>6, <2>1
        <3> QED BY <1>1, <1>2, <2>1, <3>1, PassedInOrder, SlotsNat
    <2>3. h \in 0 .. now[i] - 1
        BY <1>1, <1>3, <2>1, <2>2, Sizes DEF Handles
    <2> QED BY <2>1, <2>2, <2>3
<1>8. IsFiniteSet(Before) /\ Cardinality(Before) \in Nat /\ Cardinality(Before) <= now[i]
    <2>1. IsFiniteSet(0 .. now[i] - 1) /\ Cardinality(0 .. now[i] - 1) = now[i]
        <3>1. 0 \in Int /\ now[i] - 1 \in Int /\ (0 > now[i] - 1 => now[i] = 0) /\ now[i] - 1 - 0 + 1 = now[i]
            BY <1>1
        <3> QED BY <3>1, FS_Interval
    <2>2. [j \in 0 .. now[i] - 1 |-> fd[i][j]] \in Surjection(0 .. now[i] - 1, Before)
        BY DEF Surjection
    <2> HIDE DEF Before
    <2> QED BY <2>1, <2>2, FS_Surjection, FS_CardinalityType
<1> HIDE DEF Before
<1>9. Cardinality(Registry!Serving(k)) \in Nat /\ Cardinality(Registry!Serving(k)) <= Cardinality(Before)
    BY <1>7, <1>8, FS_Subset, FS_CardinalityType
<1> QED BY <1>1, <1>4, <1>5, <1>8, <1>9

\* A lookup that finds its slot is answered with a connection of the name, or
\* with none while not all are registered.
LEMMA HandleAnswers ==
    ASSUME Orderly, Inv, Cursors, Chains, torn = {}, NEW p \in Procs, GetHit(p)
    PROVE  Handle(index[p]) \in Registry!Answers(key[p])
<1>1. /\ index[p] \in Slots /\ now[index[p]] \in Handles
      /\ subdomain[index[p]] = key[p] /\ key[p] \in Subdomains
    BY CursorAtHandle
<1> DEFINE a == fd[index[p]][now[index[p]]]
<1>2. Handle(index[p]) = a /\ a \in Conns \cup {NULL}
    <2>1. now[index[p]] \in Nat /\ now[index[p]] < Stride
        BY <1>1, Sizes DEF Handles
    <2>2. HandleSlot(index[p]) = index[p] /\ HandleWord(index[p]) = now[index[p]]
        BY <1>1, <2>1, OwnWord
    <2> QED BY <1>1, <2>2 DEF Handle, Inv, TypeOK
<1>3. CASE a \in Conns
    <2>1. Stored[Sub[a]] = key[p] /\ Sub[a] \in Subdomains
        BY <1>1, <1>3, ConnAssumption DEF Inv, HandlesOwned
    <2>2. Sub[a] = key[p]
        BY <2>1, NameAssumption DEF Orderly
    <2> QED BY <1>1, <1>2, <1>3, <2>2 DEF Registry!Answers, Registry!Serving
<1>4. CASE a \notin Conns
    <2>1. ~Registry!Complete(key[p])
        BY <1>4, NotAllRegistered
    <2> QED BY <1>2, <1>4, <2>1 DEF Registry!Answers
<1> QED BY <1>3, <1>4

-----------------------------------------------------------------------------
(* Each step as a step of the registry. *)

\* What p asks, and what it was told.
AskedBy(p) == IF pc[p] \in Asking THEN key[p] ELSE EMPTY
ToldTo(p) == IF Answered(p) THEN sock[p] ELSE EMPTY

Asked == [p \in Workers |-> AskedBy(p)]
Told == [p \in Workers |-> ToldTo(p)]

\* A step of p changes p's question and answer at most.
LEMMA OneAsks ==
    ASSUME Inv, NEW p \in Procs, Step(p)
    PROVE  /\ Asked' = IF p \in Workers THEN [Asked EXCEPT ![p] = AskedBy(p)'] ELSE Asked
           /\ Told' = IF p \in Workers THEN [Told EXCEPT ![p] = ToldTo(p)'] ELSE Told
<1>1. \A q \in Workers : q # p => AskedBy(q)' = AskedBy(q) /\ ToldTo(q)' = ToldTo(q)
    BY Frame, ProcAssumption DEF Inv, AskedBy, ToldTo, Answered
<1> QED BY <1>1 DEF Asked, Told

\* Where p's question and answer stay, and no handle is written, the registry
\* stands still.
LEMMA StandsStill ==
    ASSUME Inv, NEW p \in Procs, Step(p), UNCHANGED fd,
           p \in Workers => AskedBy(p)' = AskedBy(p) /\ ToldTo(p)' = ToldTo(p)
    PROVE  UNCHANGED Registry!vars
<1>1. Asked' = Asked /\ Told' = Told
    BY OneAsks DEF Asked, Told
<1>2. Routes' = Routes
    BY DEF Routes
<1> QED BY <1>1, <1>2 DEF Registry!vars, Asked, Told, Routes, AskedBy, ToldTo

\* A handle is written: a connection is registered.
LEMMA StepRegisters ==
    ASSUME Inv, Registered, Step(CA), SetFd(CA) \/ AddFd(CA)
    PROVE  Registry!Register
<1>1. CA \in Procs /\ CA \notin Workers
    BY ProcAssumption
<1>2. PICK i \in Slots, j \in Handles, c \in Conns :
          /\ Writes(i, j, c) /\ Places(c) = {} /\ \A d \in Conns : fd[i][j] # d
    BY HandleWritten
<1>3. \A s \in Slots, h \in Handles : fd'[s][h] = IF s = i /\ h = j THEN c ELSE fd[s][h]
    BY <1>2 DEF Writes, Inv, TypeOK
<1>4. c \notin Routes /\ Routes' = Routes \cup {c}
    <2>1. ASSUME NEW s \in Slots, NEW h \in Handles PROVE fd[s][h] # c
        <3>1. <<s, h>> \notin Places(c)
            BY <1>2
        <3> QED BY <3>1 DEF Places
    <2>2. ASSUME NEW d \in Conns PROVE d \in Routes' <=> d \in Routes \/ d = c
        <3>1. CASE d = c
            BY <1>3, <3>1 DEF Routes
        <3>2. CASE d # c
            BY <1>2, <1>3, <3>2 DEF Routes
        <3> QED BY <3>1, <3>2
    <2>3. c \notin Routes /\ Routes \subseteq Conns /\ Routes' \subseteq Conns
        BY <2>1 DEF Routes
    <2> QED BY <2>2, <2>3
<1>5. Asked' = Asked /\ Told' = Told
    BY <1>1, OneAsks
<1> QED BY <1>4, <1>5 DEF Registry!Register, Asked, Told, Routes, AskedBy, ToldTo

\* A worker asks.
LEMMA StepAsks ==
    ASSUME Inv, NEW p \in Workers, Step(p), UNCHANGED fd, AskedBy(p) = EMPTY,
           AskedBy(p)' \in Subdomains, ToldTo(p)' = ToldTo(p)
    PROVE  Registry!Ask(p)
<1>1. p \in Procs
    BY ProcAssumption
<1>2. Asked' = [Asked EXCEPT ![p] = AskedBy(p)'] /\ Told' = Told
    BY <1>1, OneAsks DEF Told
<1>3. Routes' = Routes
    BY DEF Routes
<1> QED BY <1>2, <1>3 DEF Registry!Ask, Asked, Told, Routes, AskedBy, ToldTo

\* It is told, once.
LEMMA StepAnswers ==
    ASSUME Inv, NEW p \in Workers, Step(p), UNCHANGED fd,
           AskedBy(p) \in Subdomains, AskedBy(p)' = AskedBy(p), ToldTo(p) = EMPTY,
           ToldTo(p)' \in Registry!Answers(AskedBy(p))
    PROVE  Registry!Answer(p)
<1>1. p \in Procs /\ EMPTY \notin Subdomains
    BY ProcAssumption, NameAssumption
<1>2. Told' = [Told EXCEPT ![p] = ToldTo(p)'] /\ Asked' = Asked
    BY <1>1, OneAsks DEF Asked
<1>3. Routes' = Routes
    BY DEF Routes
<1> QED BY <1>1, <1>2, <1>3 DEF Registry!Answer, Asked, Told, Routes, AskedBy, ToldTo

\* It takes its answer with it, or ends without one.
LEMMA StepFinishes ==
    ASSUME Inv, NEW p \in Workers, Step(p), UNCHANGED fd,
           AskedBy(p) \in Subdomains, AskedBy(p)' = EMPTY, ToldTo(p)' = EMPTY
    PROVE  Registry!Finish(p)
<1>1. p \in Procs /\ EMPTY \notin Subdomains
    BY ProcAssumption, NameAssumption
<1>2. Told' = [Told EXCEPT ![p] = EMPTY] /\ Asked' = [Asked EXCEPT ![p] = EMPTY]
    BY <1>1, OneAsks
<1>3. Routes' = Routes
    BY DEF Routes
<1> QED BY <1>1, <1>2, <1>3 DEF Registry!Finish, Asked, Told, Routes, AskedBy, ToldTo

\* A worker's step: a question, an answer, the end of a call, or nothing.
LEMMA WorkerStep ==
    ASSUME Orderly, Inv, Cursors, Chains, torn = {}, NEW p \in Workers, Step(p)
    PROVE  Registry!Next \/ UNCHANGED Registry!vars
<1>1. p \in Procs /\ p # CA /\ EMPTY \notin Subdomains
    BY ProcAssumption, NameAssumption
<1>2. UNCHANGED fd
    BY <1>1, WorkersRead
<1>3. pc[p] \notin SetLabels \cup {"set_p"} /\ (pc[p] \in Asking => key[p] \in Subdomains)
    BY <1>1 DEF Inv, RolesOf, Asking
<1> USE DEF Goto, At, call, AskedBy, ToldTo, Asking, Answered, GetLabels
<1>4. CASE CallGet(p)
    <2>1. /\ AskedBy(p) = EMPTY /\ AskedBy(p)' \in Subdomains
          /\ ToldTo(p)' = ToldTo(p)
        BY <1>1, <1>4 DEF CallGet, Inv, TypeOK
    <2> QED BY <1>2, <2>1, StepAsks DEF Registry!Next
<1>5. CASE Enter(p) \/ Respawn(p) \/ GetInc(p) \/ GetWrap(p)
    <2>1. AskedBy(p)' = AskedBy(p) /\ ToldTo(p)' = ToldTo(p)
        BY <1>1, <1>3, <1>5 DEF Enter, Respawn, GetInc, GetWrap, WrapTo, SetCursor, Inv, TypeOK
    <2> QED BY <1>1, <1>2, <2>1, StandsStill
<1>6. ASSUME NEW a, a \in Registry!Answers(key[p]), pc[p] = "get_probe", key'[p] = key[p],
             pc'[p] \in {"get_inc", "get_v"}, sock'[p] = a
      PROVE  Registry!Next
    <2>1. /\ AskedBy(p) = key[p] /\ AskedBy(p)' = key[p] /\ ToldTo(p) = EMPTY
          /\ ToldTo(p)' = a
        BY <1>6
    <2> QED BY <1>2, <1>3, <1>6, <2>1, StepAnswers DEF Registry!Next
<1>7. ASSUME Registry!Serving(key[p]) = {} PROVE NULL \in Registry!Answers(key[p])
    BY <1>7 DEF Registry!Answers, Registry!Complete
<1>8. pc[p] = "get_probe" => sock[p] = NULL
    BY <1>1 DEF Chains, ProbeTrue
<1>9. CASE GetMiss(p)
    <2>1. Registry!Serving(key[p]) = {}
        BY <1>1, <1>9, NoneServing DEF GetMiss
    <2> QED BY <1>1, <1>6, <1>7, <1>8, <1>9, <2>1 DEF GetMiss, Inv, TypeOK
<1>10. CASE GetHit(p)
    <2>1. Handle(index[p]) \in Registry!Answers(key[p])
        BY <1>1, <1>10, HandleAnswers
    <2> QED BY <1>1, <1>6, <1>10, <2>1 DEF GetHit, Inv, TypeOK
<1>11. CASE GetSkip(p)
    <2>1. /\ pc[p] = "get_probe" /\ index[p] \in Slots /\ ~Matches(index[p], key[p])
          /\ UNCHANGED <<key, sock>>
          /\ pc'[p] = IF After(index[p]) = Home[key[p]] THEN "get_v" ELSE "get_probe"
        BY <1>1, <1>11 DEF GetSkip, GetSkipTo, Inv, TypeOK
    <2>2. CASE After(index[p]) = Home[key[p]]
        <3>1. subdomain[index[p]] # key[p]
            BY <1>3, <2>1 DEF Matches, Orderly
        <3>2. Registry!Serving(key[p]) = {}
            BY <1>1, <2>1, <2>2, <3>1, NoneServing
        <3> QED BY <1>6, <1>7, <1>8, <2>1, <2>2, <3>2
    <2>3. CASE After(index[p]) # Home[key[p]]
        <3>1. AskedBy(p)' = AskedBy(p) /\ ToldTo(p)' = ToldTo(p)
            BY <2>1, <2>3
        <3> QED BY <1>1, <1>2, <3>1, StandsStill
    <2> QED BY <2>2, <2>3
<1>12. CASE GetReturn(p)
    <2>1. AskedBy(p) \in Subdomains /\ AskedBy(p)' = EMPTY /\ ToldTo(p)' = EMPTY
        BY <1>1, <1>3, <1>12 DEF GetReturn, Inv, TypeOK
    <2> QED BY <1>2, <2>1, StepFinishes DEF Registry!Next
<1>13. CASE Exit(p)
    <2>1. AskedBy(p)' = EMPTY /\ ToldTo(p)' = EMPTY
        BY <1>1, <1>13 DEF Exit, Inv, TypeOK
    <2>2. CASE pc[p] \in Asking
        <3>1. AskedBy(p) \in Subdomains
            BY <1>3, <2>2
        <3> QED BY <1>2, <2>1, <3>1, StepFinishes DEF Registry!Next
    <2>3. CASE pc[p] \notin Asking
        <3>1. AskedBy(p) = EMPTY /\ ToldTo(p) = EMPTY
            BY <2>3
        <3> QED BY <1>1, <1>2, <2>1, <3>1, StandsStill
    <2> QED BY <2>2, <2>3
<1>14. ~CallSet(p) /\ ~Set(p)
    BY <1>1, <1>3 DEF CallSet, Set, SetEmpty, SetTotal, SetCounts, SetNow, SetFd, AddTotal, AddFd,
       AddFdAt, AddCounts, SetSkip, SetReturn, SetLabels
<1> QED BY <1>4, <1>5, <1>9, <1>10, <1>11, <1>12, <1>13, <1>14 DEF Step, Get, Fault, Kill

\* Every step that tears no slot is one of the registry's, or none.
LEMMA StepOfRegistry ==
    ASSUME Orderly, Inv, Cursors, Registered, Chains, torn = {}, [Next]_vars
    PROVE  [Registry!Next]_(Registry!vars)
<1>1. CASE UNCHANGED vars
    BY <1>1 DEF vars, table, call, Registry!vars, Answered
<1>2. ASSUME NEW p \in Procs, Step(p) PROVE [Registry!Next]_(Registry!vars)
    <2>1. CASE p \in Workers
        BY <1>2, <2>1, WorkerStep
    <2>2. CASE p = CA /\ (SetFd(CA) \/ AddFd(CA))
        BY <1>2, <2>2, StepRegisters DEF Registry!Next
    <2>3. CASE p = CA /\ UNCHANGED fd
        BY <1>2, <2>3, StandsStill, ProcAssumption
    <2> QED BY <1>2, <2>1, <2>2, <2>3, HandlesStay, ProcAssumption
<1> QED BY <1>1, <1>2 DEF Next, Step

\* For tables of any size and any number of processes, names and connections: as
\* long as no death tears a slot, every step of SetFLRoute and GetFLRoute is one of
\* the registry's or none.  A connection is registered when its handle is written;
\* a lookup is answered once, with a connection of that very name, or with none
\* while fewer than the client announced are registered or can be.
THEOREM TableImplements ==
    Orderly => (Spec /\ [](torn = {}) =>
                    Registry!Init /\ [][Registry!Next]_(Registry!vars))
<1> SUFFICES ASSUME Orderly
             PROVE  Spec /\ [](torn = {}) => Registry!Init /\ [][Registry!Next]_(Registry!vars)
    OBVIOUS
<1>1. Init => Registry!Init
    <2> SUFFICES ASSUME Init PROVE Registry!Init
        OBVIOUS
    <2>1. \A i \in Slots, j \in Handles : fd[i][j] \notin Conns
        BY ConnAssumption DEF Init
    <2>2. \A p \in Procs : pc[p] \notin Asking /\ ~Answered(p)
        BY DEF Init, Asking, GetLabels, Answered
    <2> QED BY <2>1, <2>2, ProcAssumption DEF Registry!Init
<1>2. Init => Chains
    <2> SUFFICES ASSUME Init PROVE Chains
        OBVIOUS
    <2>1. \A i \in Slots : Reached(i) /\ Front(i) /\ CountTrue(i)
        BY ConnAssumption DEF Init, Reached, Front, CountTrue, Handles
    <2>2. \A p \in Procs : ProbeTrue(p)
        BY DEF Init, ProbeTrue
    <2> QED BY <2>1, <2>2 DEF Chains
<1>3. Spec => []Inv /\ []Registered /\ []Cursors
    BY InvHolds, RegisteredHolds, CursorsHold
<1>4. Inv /\ Registered /\ Chains /\ [Next]_vars /\ (torn = {})' => Chains'
    BY ChainsStep
<1>5. Spec /\ [](torn = {}) => []Chains
    BY <1>2, <1>3, <1>4, PTL DEF Spec
<1>6. Inv /\ Cursors /\ Registered /\ Chains /\ torn = {} /\ [Next]_vars => [Registry!Next]_(Registry!vars)
    BY StepOfRegistry
<1> QED BY <1>1, <1>3, <1>5, <1>6, PTL DEF Spec

-----------------------------------------------------------------------------
(* The homes of names: what HomeAssumption says, for an int of any width    *)
(* and keys of any length.                                                  *)

\* The shift leaves a number of five bits, sign included.
LEMMA TopBitsRange ==
    ASSUME Index!AnInt
    PROVE  \A w \in Index!Word : Index!TopBits(w) \in -16 .. 15
<1> SUFFICES ASSUME NEW w \in Index!Word PROVE Index!TopBits(w) \in -16 .. 15
    OBVIOUS
<1> DEFINE q == WordSize \div 32
<1>1. q \in Nat \ {0} /\ WordSize = 32 * q /\ WordSize \div 2 = 16 * q
    BY Index!AnInt, SMT DEF Index!AnInt
<1>2. w \in Int /\ -(16 * q) <= w /\ w < 16 * q
    BY <1>1 DEF Index!Word
<1>3. w \div q \in Int /\ -16 <= w \div q /\ w \div q < 16
    <2> HIDE DEF q
    <2>1. PICK d \in Int, r \in Int : w = q * d + r /\ 0 <= r /\ r < q /\ d = w \div q
        BY <1>1, <1>2, SMT
    <2>2. -16 <= d
        BY <1>1, <1>2, <2>1, SMT
    <2>3. d < 16
        BY <1>1, <1>2, <2>1, SMT
    <2> QED BY <2>1, <2>2, <2>3
<1> QED BY <1>3 DEF Index!TopBits

\* Of the five bits the mask keeps the lowest and the sign.
LEMMA MaskOfFiveBits == \A v \in -16 .. 15 : Index!Mask(v) \in {0, 1, 48, 49}
<1> SUFFICES ASSUME NEW v \in -16 .. 15 PROVE Index!Mask(v) \in {0, 1, 48, 49}
    OBVIOUS
<1>1. CASE v >= 0
    <2>1. v \div 16 = 0 /\ v \div 32 = 0 /\ v % 2 \in {0, 1}
        BY <1>1
    <2> QED BY <2>1 DEF Index!Mask
<1>2. CASE v < 0
    <2>1. v \div 16 = -1 /\ v \div 32 = -1 /\ v % 2 \in {0, 1}
        BY <1>2
    <2>2. \A m \in Int : \E d \in Int, r \in {0, 1} : m = 2 * d + r /\ m % 2 = r
        BY SMT
    <2>3. \A d \in Int, r \in {0, 1} : 2 * d + r = -1 => r = 1
        OBVIOUS
    <2>4. \A m \in Int : m = -1 => m % 2 = 1
        <3> TAKE m \in Int
        <3>1. PICK d \in Int, r \in {0, 1} : m = 2 * d + r /\ m % 2 = r
            BY <2>2, Zenon
        <3> QED BY <3>1, <2>3, Zenon
    <2>5. (v \div 16) % 2 = 1 /\ (v \div 32) % 2 = 1
        <3>1. v \div 16 \in Int /\ v \div 32 \in Int
            BY <2>1
        <3> QED BY <3>1, <2>1, <2>4, Zenon
    <2> QED BY <2>1, <2>5 DEF Index!Mask
<1> QED BY <1>1, <1>2

\* The hash of every word is one of the two first or two last slots.
THEOREM HomeOfWord ==
    ASSUME Index!AnInt
    PROVE  \A w \in Index!Word : Index!Home(w) \in {0, 1, Index!MAXROUTE - 2, Index!MAXROUTE - 1}
BY Index!AnInt, TopBitsRange, MaskOfFiveBits DEF Index!Home, Index!MAXROUTE

\* The loop's accumulator stays an int.
THEOREM WordTypes == ASSUME Index!AnInt PROVE Index!Spec => []Index!TypeOK
<1>1. Index!Init => Index!TypeOK
    <2>1. -1 \in Index!Word
        <3> DEFINE h == 16 * (WordSize \div 32)
        <3>1. h \in Nat \ {0} /\ WordSize = 2 * h
            BY Index!AnInt, SMT DEF Index!AnInt
        <3> HIDE DEF h
        <3>2. WordSize \div 2 = h
            BY <3>1, SMT
        <3> QED BY <3>1, <3>2 DEF Index!Word
    <2> QED BY <2>1 DEF Index!Init, Index!TypeOK
<1>2. Index!TypeOK /\ [Index!Next]_(Index!vars) => Index!TypeOK'
    <2> SUFFICES ASSUME Index!TypeOK, [Index!Next]_(Index!vars) PROVE Index!TypeOK'
        OBVIOUS
    <2>1. CASE Index!Consume
        <3>1. PICK c \in KeyChars : word' = Index!Wrap(word * (Mult + c))
            BY <2>1 DEF Index!Consume
        <3> DEFINE x == word * (Mult + c)
        <3>2. x \in Int
            BY Index!AnInt DEF Index!AnInt, Index!TypeOK, Index!Word
        <3>3. Index!Wrap(x) \in Index!Word
            <4> HIDE DEF x
            <4> DEFINE h == 16 * (WordSize \div 32)
            <4>1. h \in Nat \ {0} /\ WordSize = 2 * h
                BY Index!AnInt, SMT DEF Index!AnInt
            <4> HIDE DEF h
            <4>2. WordSize \div 2 = h
                BY <4>1, SMT
            <4>3. (x + h) % (2 * h) \in 0 .. 2 * h - 1
                BY <3>2, <4>1, SMT
            <4> QED BY <4>1, <4>2, <4>3 DEF Index!Wrap, Index!Word
        <3>4. read' \in Nat
            BY <2>1 DEF Index!Consume, Index!TypeOK
        <3> QED BY <3>1, <3>3, <3>4 DEF Index!TypeOK
    <2>2. CASE UNCHANGED Index!vars
        BY <2>2 DEF Index!TypeOK, Index!vars, Index!Word
    <2> QED BY <2>1, <2>2 DEF Index!Next
<1> QED BY <1>1, <1>2, PTL DEF Index!Spec

\* keyToIndex gives every key one of four home slots, and NULL none.
THEOREM FourHomes == ASSUME Index!AnInt PROVE Index!Spec => []Index!HomeSlots
<1> DEFINE NoKey == read = 0 => word = -1
<1>1. Index!TypeOK /\ NoKey => Index!HomeSlots
    BY Index!AnInt, HomeOfWord DEF Index!TypeOK, Index!HomeSlots, Index!Returned
<1>2. Index!Spec => []Index!TypeOK
    BY Index!AnInt, WordTypes
<1>3. Index!Init => NoKey
    BY DEF Index!Init
<1>4. Index!TypeOK /\ NoKey /\ [Index!Next]_(Index!vars) => NoKey'
    BY DEF Index!TypeOK, Index!Next, Index!Consume, Index!vars
<1> QED BY <1>1, <1>2, <1>3, <1>4, PTL DEF Index!Spec
=============================================================================
