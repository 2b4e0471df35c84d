---------------------------- MODULE FenglingSem ----------------------------
(***************************************************************************)
(* The System V semaphore of fenglingSem.c.  init_sem, sem_p and sem_v are *)
(* semctl(SETVAL) and semop with SEM_UNDO; what the kernel does for them   *)
(* (the undo adjustment of each process, applied when it exits) is part of *)
(* the state.  The module has no specification of its own: it is extended  *)
(* by the modules of the semaphore's users.                                *)
(***************************************************************************)
EXTENDS Integers

CONSTANT Procs          \* the processes that may use the semaphore

VARIABLES semval,       \* the semaphore's value
          semadj        \* semadj[p]: the kernel's undo adjustment for p

semVars == <<semval, semadj>>

SemTypeOK == /\ semval \in Nat
             /\ semadj \in [Procs -> Int]

SemInit(v) == /\ semval = v
              /\ semadj = [p \in Procs |-> 0]

\* init_sem: SETVAL sets the value and clears the adjustments of every process,
\* whoever is inside the critical section at that moment.
init_sem(v) == /\ semval' = v
               /\ semadj' = [p \in Procs |-> 0]

\* (mutant) sem_p without SEM_UNDO
PWithoutUndo(p) == semval > 0 /\ semval' = semval - 1 /\ UNCHANGED semadj

\* (mutant) sem_v without SEM_UNDO
VWithoutUndo(p) == semval' = semval + 1 /\ UNCHANGED semadj

\* sem_p: blocks until the value is positive.
sem_p(p) == /\ semval > 0
            /\ semval' = semval - 1
            /\ semadj' = [semadj EXCEPT ![p] = @ + 1]

\* sem_v never blocks.
sem_v(p) == /\ semval' = semval + 1
            /\ semadj' = [semadj EXCEPT ![p] = @ - 1]

\* The exit of p, by any cause: the kernel adds the adjustment, never going
\* below zero.
exit_undo(p) == /\ semval' = IF semval + semadj[p] < 0 THEN 0
                                                      ELSE semval + semadj[p]
                /\ semadj' = [semadj EXCEPT ![p] = 0]
=============================================================================
