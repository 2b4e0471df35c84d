---------------------------- MODULE FenglingLog ----------------------------
(***************************************************************************)
(* The log file (fenglingLog.c).  Every process inherits an open log and   *)
(* goes its own way with it: log_doit writes its line and then, in a new   *)
(* second, looks whether the file named after today is still the one it    *)
(* has open, and opens that one if not.  The name changes at midnight, and *)
(* an operator may remove the file or move it away at any time.            *)
(***************************************************************************)
EXTENDS Integers, FiniteSets

CONSTANTS Writers,      \* the processes
          Inodes,
          MaxDays,      \* bound: midnights
          MaxMoves      \* bound: files removed or moved away

None == "none"

ASSUME LogAssumption == None \notin Inodes /\ Inodes # {}
ASSUME BoundAssumption == MaxDays \in Nat /\ MaxMoves \in Nat

VARIABLES
    day,        \* today
    dir,        \* the file under the name of each day
    away,       \* files that were moved to another name
    fd,         \* the file a process has open
    st_ino,     \* the inode its log->statbuf says it has open
    fname,      \* the day of its log->fname
    due,        \* a second has passed since it looked
    look,       \* how far its look has come: idle; stat, open: within log_doit
    found,      \* what its stat found
    stale,      \* the file was replaced, or not opened, since it looked (history)
    raced,      \* the file was replaced between its last stat and open (history)
    moves

procVars == <<fd, st_ino, fname, due, look, found, raced>>
logVars == <<day, dir, away, procVars, stale, moves>>

-----------------------------------------------------------------------------
Days == 0 .. MaxDays
Linked == {dir[d] : d \in Days} \cup away

\* An inode is used again once it has no name and nobody has it open.
FreeInodes == Inodes \ (Linked \cup {fd[p] : p \in Writers})

\* log_init, before the processes part.
LogInit == /\ day = 0 /\ away = {} /\ moves = 0
           /\ \E i \in Inodes : /\ dir = [d \in Days |-> IF d = 0 THEN i ELSE None]
                                /\ fd = [p \in Writers |-> i]
                                /\ st_ino = fd
           /\ fname = [p \in Writers |-> 0]
           /\ due = [p \in Writers |-> TRUE]
           /\ look = [p \in Writers |-> "idle"]
           /\ found = [p \in Writers |-> None]
           /\ stale = [p \in Writers |-> FALSE]
           /\ raced = stale

AllStale == stale' = [p \in Writers |-> TRUE]

-----------------------------------------------------------------------------
(* The world. *)

Second == /\ due' = [p \in Writers |-> TRUE]
          /\ UNCHANGED <<day, dir, away, fd, st_ino, fname, look, found, stale, raced, moves>>

Midnight == /\ day < MaxDays
            /\ day' = day + 1
            /\ AllStale
            /\ UNCHANGED <<dir, away, procVars, moves>>

\* rm, or mv to a name that is not a day's.
Remove(d) == /\ dir[d] # None /\ moves < MaxMoves
             /\ dir' = [dir EXCEPT ![d] = None]
             /\ away' \in {away, away \cup {dir[d]}}
             /\ moves' = moves + 1
             /\ AllStale
             /\ UNCHANGED <<day, procVars>>

-----------------------------------------------------------------------------
(* log_doit, after the line is written to fd. *)

CheckUnder(p, d) == /\ look[p] = "idle" /\ due[p]
                    /\ due' = [due EXCEPT ![p] = FALSE]
                    /\ fname' = [fname EXCEPT ![p] = d]
                    /\ look' = [look EXCEPT ![p] = "stat"]
                    /\ UNCHANGED <<day, dir, away, fd, st_ino, found, raced, stale, moves>>

\* (mutant) the name of the file made once
CheckKeepsName(p) == CheckUnder(p, fname[p])

\* t > last: the name is made anew.
Check(p) == CheckUnder(p, day)

\* The same inode: nothing to do.
StatSame(p) == /\ look[p] = "stat" /\ dir[fname[p]] = st_ino[p]
               /\ look' = [look EXCEPT ![p] = "idle"]
               /\ stale' = [stale EXCEPT ![p] = fname[p] # day]
               /\ UNCHANGED <<day, dir, away, fd, st_ino, fname, due, found, raced, moves>>

\* Another, or ENOENT.
StatOther(p) == /\ look[p] = "stat" /\ dir[fname[p]] # st_ino[p]
                /\ found' = [found EXCEPT ![p] = dir[fname[p]]]
                /\ look' = [look EXCEPT ![p] = "open"]
                /\ UNCHANGED <<day, dir, away, fd, st_ino, fname, due, raced, stale, moves>>

\* open with O_CREAT, and the old file closed.  After ENOENT statbuf is filled
\* from the new descriptor (fstat), otherwise it is what stat found before.
OpenWith(p, fstat) ==
    /\ look[p] = "open"
    /\ \E i \in Inodes :
           /\ IF dir[fname[p]] # None THEN i = dir[fname[p]] ELSE i \in FreeInodes
           /\ dir' = [dir EXCEPT ![fname[p]] = i]
           /\ fd' = [fd EXCEPT ![p] = i]
           /\ st_ino' = [st_ino EXCEPT ![p] = IF found[p] # None THEN found[p]
                                             ELSE IF fstat THEN i ELSE @]
    /\ raced' = [raced EXCEPT ![p] = found[p] # None /\ found[p] # dir[fname[p]]]
    /\ stale' = [stale EXCEPT ![p] = fname[p] # day]
    /\ look' = [look EXCEPT ![p] = "idle"]
    /\ UNCHANGED <<day, away, fname, due, found, moves>>

\* (mutant) the new file's inode not kept when the file was made
OpenForgets(p) == OpenWith(p, FALSE)

Open(p) == OpenWith(p, TRUE)

\* open, or stat for another reason: the old file is kept till the next second.
Fails(p) == /\ look[p] \in {"stat", "open"}
            /\ look' = [look EXCEPT ![p] = "idle"]
            /\ stale' = [stale EXCEPT ![p] = TRUE]
            /\ UNCHANGED <<day, dir, away, fd, st_ino, fname, due, found, raced, moves>>

-----------------------------------------------------------------------------
log_doit(p) == Check(p) \/ StatSame(p) \/ StatOther(p) \/ Open(p)

LogNext == \/ Second \/ Midnight \/ \E d \in Days : Remove(d)
           \/ \E p \in Writers : log_doit(p) \/ Fails(p)

LogSpec == LogInit /\ [][LogNext]_logVars

\* Seconds pass, every process goes on logging, and the file can be opened again
\* and again.
FairLogSpec == /\ LogSpec /\ WF_logVars(Second)
               /\ \A p \in Writers : /\ WF_logVars(log_doit(p)) /\ SF_logVars(StatSame(p))
                                     /\ SF_logVars(Open(p)) /\ SF_logVars(StatOther(p))

-----------------------------------------------------------------------------
LogTypeOK ==
    /\ day \in Days /\ dir \in [Days -> Inodes \cup {None}] /\ away \subseteq Inodes
    /\ fd \in [Writers -> Inodes] /\ st_ino \in [Writers -> Inodes]
    /\ fname \in [Writers -> Days] /\ due \in [Writers -> BOOLEAN]
    /\ look \in [Writers -> {"idle", "stat", "open"}]
    /\ found \in [Writers -> Inodes \cup {None}]
    /\ stale \in [Writers -> BOOLEAN] /\ raced \in [Writers -> BOOLEAN]
    /\ moves \in 0 .. MaxMoves

\* The types of the state, and: a process that has looked and found nothing
\* changed since writes to the file under today's name, with inodes used again,
\* unless the file was replaced just between its stat and its open: then statbuf
\* is not about the file it opened.
OnTodaysFile ==
    /\ LogTypeOK
    /\ \A p \in Writers : look[p] = "idle" /\ ~stale[p] /\ ~raced[p] => fd[p] = dir[day]

\* Once midnights and operators leave the file alone, all processes come to write
\* to one file, the one under today's name, whoever of them made it.
AllSettle == <>[](\A p \in Writers : raced[p] \/ fd[p] = dir[day])
=============================================================================
