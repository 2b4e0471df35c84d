--------------------------- MODULE FenglingRoute ---------------------------
(***************************************************************************)
(* The route table of the server, fenglingShm.c: an open-addressing table  *)
(* in shared memory that maps a subdomain to the tunnel connections (SSL   *)
(* handles) registered for it, and a cursor that deals them out in turn.   *)
(*                                                                         *)
(* The CA process registers the connections it accepts (SetFLRoute); the   *)
(* pool's workers look them up (GetFLRoute).  Both run statement by        *)
(* statement between sem_p and sem_v, because a process may be killed at   *)
(* any statement: the kernel then gives the permit back and the table      *)
(* stays as it is.  One action is one access to shared memory, or a few    *)
(* when only the process itself could tell them apart.                     *)
(***************************************************************************)
EXTENDS FenglingSem, FiniteSets

CONSTANTS
    CA, Workers,        \* the processes
    Killable,           \* those that may be killed
    Subdomains,         \* the names clients register and browsers ask for
    Fits,               \* the names shorter than MAXSUBDOMAIN characters
    Stored,             \* Stored[k]: k cut to MAXSUBDOMAIN - 1 characters
    Home,               \* Home[k]: keyToIndex(k), see KeyToIndex.tla
    Conns,              \* the tunnel connections CA accepts, SSL handles
    Sub,                \* Sub[c]: the subdomain announced on c
    Total,              \* Total[c]: the connection count announced on c
    MAXROUTE,           \* slots of the table
    MAXSUBDOMAIN,       \* size of a name, and where the probe wraps
    MAXCLIENTCONN,      \* handles of a slot
    HEADER,             \* words of a slot before its handles: name, numbers, list
    S1MaxListen,        \* the configured limit of connections
    TailSlots,          \* zero slots between the table and the end of its page
    MaxCursor,          \* bound: how far the cursor of a slot runs
    EMPTY,              \* the empty name
    NULL,               \* no handle
    WILD                \* a word that is no handle, taken for one

\* Words from one slot's first handle to the next slot's.
Stride == MAXCLIENTCONN + HEADER

ASSUME ProcAssumption == /\ Procs = Workers \cup {CA}
                         /\ CA \notin Workers
                         /\ Killable \subseteq Procs
ASSUME NameAssumption == /\ Fits \subseteq Subdomains
                         /\ EMPTY \notin Subdomains
                         /\ Stored \in [Subdomains -> Fits]
                         /\ \A k \in Fits : Stored[k] = k
ASSUME SizeAssumption == /\ {MAXROUTE, MAXSUBDOMAIN, TailSlots, MAXCLIENTCONN,
                             HEADER, S1MaxListen, MaxCursor} \subseteq Nat
                         /\ 1 < MAXSUBDOMAIN
                         /\ MAXSUBDOMAIN < MAXROUTE - 2
                         /\ S1MaxListen < MAXCLIENTCONN
                         /\ Stride <= MaxCursor
ASSUME HomeAssumption == Home \in [Subdomains -> {0, 1, MAXROUTE - 2, MAXROUTE - 1}]
ASSUME ConnAssumption == /\ Sub \in [Conns -> Subdomains]
                         /\ Total \in [Conns -> Nat \ {0}]
                         /\ NULL \notin Conns /\ WILD \notin Conns /\ NULL # WILD

VARIABLES
    subdomain, total, nowcounts, now, fd,   \* the table, one function per field
    pc,                 \* pc[p]: the statement p executes next
    key, conn,          \* the arguments of p's call
    index,              \* p's probe position
    sock,               \* p's cli_sock, the lookup's result
    status,             \* status[c]: new, ok or full, what SetFLRoute returned
    torn                \* slots whose update a death cut in two

table == <<subdomain, total, nowcounts, now, fd>>
call == <<key, conn, index, sock>>
vars == <<semVars, table, pc, call, status, torn>>

-----------------------------------------------------------------------------
\* The slots that can be read without a fault: the table, and what is left of
\* its last page (never cleared by CAShmInit, but the kernel's pages are zero).
Slots == 0 .. MAXROUTE + TailSlots - 1
Handles == 0 .. MAXCLIENTCONN - 1

\* (mutant) probing that wraps at the end of the table
AfterInTable(i) == IF i + 1 = MAXROUTE THEN 0 ELSE i + 1

\* Probing wraps at MAXSUBDOMAIN, not at MAXROUTE: from the low homes it stays
\* among the first MAXSUBDOMAIN slots, from the high ones it leaves the table.
After(i) == IF i + 1 = MAXSUBDOMAIN THEN 0 ELSE i + 1

\* strcmp, or strncmp over MAXSUBDOMAIN characters for a longer name: the slot
\* holds the name cut and terminated, so a longer name never compares equal.
Matches(i, k) == k \in Fits /\ subdomain[i] = k

\* fd[now] of slot i.  The slots are one array: past the handles lie the name
\* and the numbers of the next slot, then its handles, and so on.
HandleSlot(i) == i + now[i] \div Stride
HandleWord(i) == now[i] % Stride
Handle(i) == IF HandleWord(i) \in Handles THEN fd[HandleSlot(i)][HandleWord(i)] ELSE WILD

\* The statements between sem_p and sem_v.
SetLabels == {"set_probe", "set_total", "set_counts", "set_now", "set_fd",
              "add_fd", "add_counts", "set_v", "set_full"}
GetLabels == {"get_probe", "get_inc", "get_wrap", "get_v"}
Critical == SetLabels \cup GetLabels

\* The labels at which a death leaves the current slot half written.
HalfWritten == {"set_total", "set_counts", "set_now", "set_fd", "add_fd",
                "add_counts", "get_wrap"}

Goto(p, l) == pc' = [pc EXCEPT ![p] = l]
At(p, l) == pc[p] = l

-----------------------------------------------------------------------------
Init ==
    /\ SemInit(1)
    /\ subdomain = [i \in Slots |-> EMPTY]
    /\ total = [i \in Slots |-> 0]
    /\ nowcounts = [i \in Slots |-> 0]
    /\ now = [i \in Slots |-> 0]
    /\ fd = [i \in Slots |-> [j \in Handles |-> NULL]]
    /\ pc = [p \in Procs |-> "idle"]
    /\ key = [p \in Procs |-> EMPTY]
    /\ conn = [p \in Procs |-> NULL]
    /\ index = [p \in Procs |-> 0]
    /\ sock = [p \in Procs |-> NULL]
    /\ status = [c \in Conns |-> "new"]
    /\ torn = {}

(* The calls, up to sem_p. *)
CallSet(p) ==
    /\ p = CA /\ At(p, "idle")
    /\ \E c \in Conns :
          /\ status[c] = "new"
          /\ key' = [key EXCEPT ![p] = Sub[c]]
          /\ conn' = [conn EXCEPT ![p] = c]
          /\ index' = [index EXCEPT ![p] = Home[Sub[c]]]
    /\ Goto(p, "set_p")
    /\ UNCHANGED <<semVars, table, sock, status, torn>>

CallGet(p) ==
    /\ p \in Workers /\ At(p, "idle")
    /\ \E k \in Subdomains :
          /\ key' = [key EXCEPT ![p] = k]
          /\ index' = [index EXCEPT ![p] = Home[k]]
    /\ Goto(p, "get_p")
    /\ UNCHANGED <<semVars, table, conn, sock, status, torn>>

Enter(p) ==
    /\ pc[p] \in {"set_p", "get_p"}
    /\ sem_p(p)
    /\ Goto(p, IF At(p, "set_p") THEN "set_probe" ELSE "get_probe")
    /\ UNCHANGED <<table, call, status, torn>>

(* SetFLRoute, between sem_p and sem_v. *)
SetEmpty(p) ==
    /\ At(p, "set_probe") /\ index[p] \in Slots
    /\ subdomain[index[p]] = EMPTY
    /\ subdomain' = [subdomain EXCEPT ![index[p]] = Stored[key[p]]]
    /\ Goto(p, "set_total")
    /\ UNCHANGED <<semVars, total, nowcounts, now, fd, call, status, torn>>

SetTotal(p) ==
    /\ At(p, "set_total")
    /\ total' = [total EXCEPT ![index[p]] = Total[conn[p]]]
    /\ Goto(p, "set_counts")
    /\ UNCHANGED <<semVars, subdomain, nowcounts, now, fd, call, status, torn>>

SetCounts(p) ==
    /\ At(p, "set_counts")
    /\ nowcounts' = [nowcounts EXCEPT ![index[p]] = 1]
    /\ Goto(p, "set_now")
    /\ UNCHANGED <<semVars, subdomain, total, now, fd, call, status, torn>>

SetNow(p) ==
    /\ At(p, "set_now")
    /\ now' = [now EXCEPT ![index[p]] = 0]
    /\ Goto(p, "set_fd")
    /\ UNCHANGED <<semVars, subdomain, total, nowcounts, fd, call, status, torn>>

SetFd(p) ==
    /\ At(p, "set_fd")
    /\ fd' = [fd EXCEPT ![index[p]][0] = conn[p]]
    /\ Goto(p, "set_v")
    /\ UNCHANGED <<semVars, subdomain, total, nowcounts, now, call, status, torn>>

Joins(i, k) == Matches(i, k) /\ nowcounts[i] <= S1MaxListen

AddTotal(p) ==
    /\ At(p, "set_probe") /\ index[p] \in Slots
    /\ Joins(index[p], key[p])
    /\ total' = [total EXCEPT ![index[p]] = Total[conn[p]]]
    /\ Goto(p, "add_fd")
    /\ UNCHANGED <<semVars, subdomain, nowcounts, now, fd, call, status, torn>>

AddFdAt(p, j) ==
    /\ At(p, "add_fd")
    /\ fd' = [fd EXCEPT ![index[p]][j] = conn[p]]
    /\ Goto(p, "add_counts")
    /\ UNCHANGED <<semVars, subdomain, total, nowcounts, now, call, status, torn>>

\* (mutant) the last handle overwritten
AddFdOverLast(p) == AddFdAt(p, nowcounts[index[p]] - 1)

AddFd(p) == AddFdAt(p, nowcounts[index[p]])

AddCounts(p) ==
    /\ At(p, "add_counts")
    /\ nowcounts' = [nowcounts EXCEPT ![index[p]] = @ + 1]
    /\ Goto(p, "set_v")
    /\ UNCHANGED <<semVars, subdomain, total, now, fd, call, status, torn>>

\* The slot is taken by another name, or is full: the next one, unless the
\* probe has come round to its start.
SetSkip(p) ==
    /\ At(p, "set_probe") /\ index[p] \in Slots
    /\ subdomain[index[p]] # EMPTY
    /\ ~Joins(index[p], key[p])
    /\ index' = [index EXCEPT ![p] = After(index[p])]
    /\ Goto(p, IF After(index[p]) = Home[key[p]] THEN "set_full" ELSE "set_probe")
    /\ UNCHANGED <<semVars, table, key, conn, sock, status, torn>>

\* The locals of a call end with it.
EndCall(p) == /\ key' = [key EXCEPT ![p] = EMPTY]
              /\ conn' = [conn EXCEPT ![p] = NULL]
              /\ index' = [index EXCEPT ![p] = 0]
              /\ sock' = [sock EXCEPT ![p] = NULL]

SetReturn(p) ==
    /\ pc[p] \in {"set_v", "set_full"}
    /\ sem_v(p)
    /\ status' = [status EXCEPT ![conn[p]] = IF At(p, "set_v") THEN "ok" ELSE "full"]
    /\ Goto(p, "idle") /\ EndCall(p)
    /\ UNCHANGED <<table, torn>>

-----------------------------------------------------------------------------
(* GetFLRoute, between sem_p and sem_v. *)
\* (mutant) an early return without sem_v
GetMissKeepsLock(p) ==
    /\ At(p, "get_probe") /\ index[p] \in Slots
    /\ subdomain[index[p]] = EMPTY
    /\ Goto(p, "idle") /\ EndCall(p)
    /\ UNCHANGED <<semVars, table, status, torn>>

GetMiss(p) ==
    /\ At(p, "get_probe") /\ index[p] \in Slots
    /\ subdomain[index[p]] = EMPTY
    /\ Goto(p, "get_v")
    /\ UNCHANGED <<semVars, table, call, status, torn>>

GetHit(p) ==
    /\ At(p, "get_probe") /\ index[p] \in Slots
    /\ Matches(index[p], key[p])
    /\ HandleSlot(index[p]) \in Slots
    /\ now[index[p]] < MaxCursor
    /\ sock' = [sock EXCEPT ![p] = Handle(index[p])]
    /\ Goto(p, "get_inc")
    /\ UNCHANGED <<semVars, table, key, conn, index, status, torn>>

SetCursor(p, from, cursor, next) ==
    /\ At(p, from)
    /\ now' = [now EXCEPT ![index[p]] = cursor]
    /\ Goto(p, next)
    /\ UNCHANGED <<semVars, subdomain, total, nowcounts, fd, call, status, torn>>

\* (mutant) a cursor that does not move
GetIncForgotten(p) == SetCursor(p, "get_inc", now[index[p]], "get_wrap")

GetInc(p) == SetCursor(p, "get_inc", now[index[p]] + 1, "get_wrap")

WrapTo(p, first, last) ==
    SetCursor(p, "get_wrap", IF last THEN first ELSE now[index[p]], "get_v")

\* (mutants) a cursor never reset, reset one lookup late, or to before the
\* first handle
GetWrapForgotten(p) == WrapTo(p, 0, FALSE)
GetWrapLate(p) == WrapTo(p, 0, now[index[p]] > total[index[p]])
GetWrapBefore(p) == WrapTo(p, -1, now[index[p]] = total[index[p]])

GetWrap(p) == WrapTo(p, 0, now[index[p]] = total[index[p]])

GetSkipTo(p, next) ==
    /\ At(p, "get_probe") /\ index[p] \in Slots
    /\ subdomain[index[p]] # EMPTY
    /\ ~Matches(index[p], key[p])
    /\ index' = [index EXCEPT ![p] = After(index[p])]
    /\ Goto(p, next)
    /\ UNCHANGED <<semVars, table, key, conn, sock, status, torn>>

\* (mutant) a lookup that does not probe
GetSkipGivesUp(p) == GetSkipTo(p, "get_v")

GetSkip(p) == GetSkipTo(p, IF After(index[p]) = Home[key[p]] THEN "get_v" ELSE "get_probe")

GetReturn(p) ==
    /\ At(p, "get_v")
    /\ sem_v(p)
    /\ Goto(p, "idle") /\ EndCall(p)
    /\ UNCHANGED <<table, status, torn>>

-----------------------------------------------------------------------------
\* The exit of p: the permit comes back, the table stays as it is.
Exit(p) == /\ exit_undo(p)
           /\ torn' = IF pc[p] \in HalfWritten THEN torn \cup {index[p]} ELSE torn
           /\ Goto(p, "dead") /\ EndCall(p)
           /\ UNCHANGED <<table, status>>

\* The probe, or the cursor of the slot it found, runs off the shared page.
Fault(p) == /\ pc[p] \in {"set_probe", "get_probe"}
            /\ \/ index[p] \notin Slots
               \/ /\ At(p, "get_probe") /\ index[p] \in Slots
                  /\ Matches(index[p], key[p])
                  /\ HandleSlot(index[p]) \notin Slots
            /\ Exit(p)

Kill(p) == /\ p \in Killable
           /\ ~At(p, "dead")
           /\ Exit(p)

\* The master forks a worker in place of a dead one; nobody replaces CA.
Respawn(p) == /\ p \in Workers
              /\ At(p, "dead")
              /\ Goto(p, "idle")
              /\ UNCHANGED <<semVars, table, call, status, torn>>

Set(p) == \/ SetEmpty(p) \/ SetTotal(p) \/ SetCounts(p) \/ SetNow(p) \/ SetFd(p)
          \/ AddTotal(p) \/ AddFd(p) \/ AddCounts(p) \/ SetSkip(p) \/ SetReturn(p)

Get(p) == \/ GetMiss(p) \/ GetHit(p) \/ GetInc(p) \/ GetWrap(p) \/ GetSkip(p)
          \/ GetReturn(p)

Next == \E p \in Procs :
            \/ CallSet(p) \/ CallGet(p) \/ Enter(p) \/ Set(p) \/ Get(p)
            \/ Fault(p) \/ Kill(p) \/ Respawn(p)

\* A process inside the section runs on; semop wakes its waiters in FIFO order.
Fairness == \A p \in Procs : /\ WF_vars(Set(p) \/ Get(p) \/ Fault(p))
                             /\ SF_vars(Enter(p))

Spec == Init /\ [][Next]_vars /\ Fairness

-----------------------------------------------------------------------------
(* The path a probe for k takes, and which slot of it answers. *)
Low(k) == Home[k] < MAXSUBDOMAIN

Path(k) == IF Low(k) THEN 0 .. MAXSUBDOMAIN - 1 ELSE {i \in Slots : i >= Home[k]}

Steps(k, i) == IF Low(k) THEN (i - Home[k] + MAXSUBDOMAIN) % MAXSUBDOMAIN
                         ELSE i - Home[k]

\* A lookup of k ends at slot i.
Serves(k, i) == /\ i \in Path(k)
                /\ Matches(i, k)
                /\ \A j \in Path(k) : Steps(k, j) < Steps(k, i) =>
                                          subdomain[j] \notin {EMPTY, k}

\* The handles that hold c.
Places(c) == {h \in Slots \X Handles : fd[h[1]][h[2]] = c}

\* The cursor passes over c: its handle is below the slot's total.
InTurn(c) == \E i \in Slots, j \in Handles :
                /\ Serves(Sub[c], i)
                /\ fd[i][j] = c
                /\ j < total[i]

-----------------------------------------------------------------------------
TypeOK ==
    /\ SemTypeOK
    /\ subdomain \in [Slots -> Fits \cup {EMPTY}]
    /\ total \in [Slots -> Nat]
    /\ nowcounts \in [Slots -> 0 .. S1MaxListen + 1]
    /\ now \in [Slots -> 0 .. MaxCursor]
    /\ fd \in [Slots -> [Handles -> Conns \cup {NULL}]]
    /\ pc \in [Procs -> {"idle", "set_p", "get_p", "dead"} \cup Critical]
    /\ key \in [Procs -> Subdomains \cup {EMPTY}]
    /\ conn \in [Procs -> Conns \cup {NULL}]
    /\ index \in [Procs -> Nat]
    /\ sock \in [Procs -> Conns \cup {NULL, WILD}]
    /\ status \in [Conns -> {"new", "ok", "full"}]
    /\ torn \subseteq Slots

\* Two processes are never both between sem_p and sem_v, although either may
\* be killed there, fault there, and be replaced.
MutualExclusion == \A p, q \in Procs : pc[p] \in Critical /\ pc[q] \in Critical => p = q

\* The clients of name k, as SetFLRoute cuts it, announce one total.
OneTotal(k) ==
    \A c, d \in Conns : Stored[Sub[c]] = k /\ Stored[Sub[d]] = k => Total[c] = Total[d]

\* A total no cursor passes before it comes to the next slot's handles.
Modest(k) == \A c \in Conns : Stored[Sub[c]] = k => Total[c] <= Stride

\* A browser's request reaches another client's tunnel (one not registered under
\* the name asked for, as SetFLRoute cut it) only through a cursor that ran a
\* whole slot too far: a death between its increment and its reset, clients of
\* one name that announce several totals, or one beyond Stride, let it run.
RoutedToOwner ==
    \A p \in Procs :
        sock[p] \in Conns /\ Stored[Sub[sock[p]]] # key[p] =>
            /\ index[p] \in torn \/ ~OneTotal(key[p]) \/ ~Modest(key[p])
            /\ At(p, "get_inc") => now[index[p]] >= Stride

\* Whenever the lock is free, a connection SetFLRoute accepted stands in one
\* handle, counted by its slot and under its own name; one it refused, or has
\* not been asked to register, stands in none (a death in SetFLRoute aside).
RegisteredOnce ==
    semval = 1 =>
        \A c \in Conns :
            /\ status[c] = "ok" =>
                  /\ Cardinality(Places(c)) = 1
                  /\ \A h \in Places(c) : /\ h[2] < nowcounts[h[1]]
                                          /\ subdomain[h[1]] = Stored[Sub[c]]
            /\ status[c] # "ok" => Places(c) = {} \/ At(CA, "dead")

\* Whenever the lock is free, the cursor of a used slot is below its total, so
\* the next lookup reads a handle of the slot; only a death between the
\* increment and the reset of the cursor can break it, or clients of one name
\* that announce different totals.
CursorInRange ==
    semval = 1 => \A i \in Slots \ torn :
                      subdomain[i] # EMPTY /\ OneTotal(subdomain[i]) => now[i] < total[i]

\* Names settle, and probes move, in two regions: the first MAXSUBDOMAIN slots,
\* and the slots from MAXROUTE - 2 on, beyond the end of the table.  All the
\* slots between are unreachable, and only names whose home is one of the last
\* two slots can run off the page.
ProbeRegions ==
    /\ \A i \in Slots : subdomain[i] # EMPTY => i < MAXSUBDOMAIN \/ i >= MAXROUTE - 2
    /\ \A p \in Procs : pc[p] \in Critical =>
          IF Low(key[p]) THEN index[p] < MAXSUBDOMAIN ELSE index[p] >= MAXROUTE - 2

\* SetFLRoute and GetFLRoute return, or their caller dies.
CallsReturn ==
    \A p \in Procs : pc[p] \in Critical \cup {"set_p", "get_p"} ~> pc[p] \in {"idle", "dead"}

\* The cursor is fair: if a name is looked up for ever, each of its connections
\* below the total is handed out for ever.
RoundRobin ==
    \A c \in Conns :
        ([]<>(\E p \in Procs : At(p, "get_v") /\ key[p] = Sub[c])) =>
            []<>(\/ ~InTurn(c)
                 \/ \E p \in Procs : At(p, "get_v") /\ sock[p] = c)

-----------------------------------------------------------------------------
(* The table implements the registry: a connection is registered when its  *)
(* handle is written, a lookup is answered when it has read a handle or    *)
(* found none.                                                             *)
Asking == {"get_p"} \cup GetLabels
Answered(p) == pc[p] \in {"get_inc", "get_wrap", "get_v"}

Registry == INSTANCE RouteRegistry WITH
    Askers <- Workers,
    Names <- Subdomains,
    Owner <- Sub,
    Promised <- Total,
    Capacity <- S1MaxListen + 1,
    NoConn <- NULL,
    None <- EMPTY,
    routes <- {c \in Conns : \E i \in Slots, j \in Handles : fd[i][j] = c},
    asked <- [p \in Workers |-> IF pc[p] \in Asking THEN key[p] ELSE EMPTY],
    answer <- [p \in Workers |-> IF Answered(p) THEN sock[p] ELSE EMPTY]

\* The whole promise of RouteRegistry.tla, its fairness included: every lookup
\* gets an answer the registry allows.
ImplementsRegistry == Registry!Spec
=============================================================================
