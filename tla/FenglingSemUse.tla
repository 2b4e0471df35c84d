--------------------------- MODULE FenglingSemUse ---------------------------
(***************************************************************************)
(* The users of the route table's semaphore.  SetFLRoute and GetFLRoute    *)
(* bracket their work with sem_p and sem_v; a process may die anywhere     *)
(* (SIGKILL, a segmentation fault, abort), and the master forks another.   *)
(* The status program fenglingShow, and any fenglingRoute main started on  *)
(* the same host, run init_sem on the same semaphore while it is in use:   *)
(* the ftok keys are the same for all of them.                             *)
(***************************************************************************)
EXTENDS FenglingSem, FiniteSets

CONSTANT MaxResets      \* bound: how often init_sem runs after the start

ASSUME ResetAssumption == MaxResets \in Nat
ASSUME ProcAssumption == IsFiniteSet(Procs)

VARIABLES pc,           \* pc[p]: idle, wait (in sem_p), in, dead
          resets        \* how often init_sem has run since the start

vars == <<semval, semadj, pc, resets>>

Inside == {p \in Procs : pc[p] = "in"}

-----------------------------------------------------------------------------
Init == /\ SemInit(1)
        /\ pc = [p \in Procs |-> "idle"]
        /\ resets = 0

\* p calls SetFLRoute or GetFLRoute and reaches sem_p.
Call(p) == /\ pc[p] = "idle"
           /\ pc' = [pc EXCEPT ![p] = "wait"]
           /\ UNCHANGED <<semVars, resets>>

Enter(p) == /\ pc[p] = "wait"
            /\ sem_p(p)
            /\ pc' = [pc EXCEPT ![p] = "in"]
            /\ UNCHANGED resets

Leave(p) == /\ pc[p] = "in"
            /\ sem_v(p)
            /\ pc' = [pc EXCEPT ![p] = "idle"]
            /\ UNCHANGED resets

\* p exits at any point of its life (a signal that interrupts its semop is one
\* cause: sem_p then calls exit); the kernel runs its undo.
Die(p) == /\ pc[p] # "dead"
          /\ exit_undo(p)
          /\ pc' = [pc EXCEPT ![p] = "dead"]
          /\ UNCHANGED resets

\* The master forks a process in p's place; a child inherits no adjustment.
Respawn(p) == /\ pc[p] = "dead"
              /\ pc' = [pc EXCEPT ![p] = "idle"]
              /\ UNCHANGED <<semVars, resets>>

\* fenglingShow, or another main, initialises the semaphore again.
Reset == /\ resets < MaxResets
         /\ init_sem(1)
         /\ resets' = resets + 1
         /\ UNCHANGED pc

Next == \/ \E p \in Procs : Call(p) \/ Enter(p) \/ Leave(p) \/ Die(p) \/ Respawn(p)
        \/ Reset

\* Work inside the section ends; semop wakes its waiters in FIFO order.
Fairness == \A p \in Procs : WF_vars(Leave(p)) /\ SF_vars(Enter(p))

Spec == Init /\ [][Next]_vars /\ Fairness

-----------------------------------------------------------------------------
TypeOK == /\ SemTypeOK
          /\ pc \in [Procs -> {"idle", "wait", "in", "dead"}]
          /\ resets \in 0..MaxResets

\* Until init_sem runs again, sem_p and sem_v exclude, whatever process dies
\* and wherever it dies: SEM_UNDO gives back exactly the permit it held.
ExclusiveUntilReset ==
    resets = 0 => \A p, q \in Inside : p = q

\* The types of the state, and: one run of fenglingShow admits at most one
\* process more, and the excess permit stays: the damage is bounded by the number
\* of resets.  And no interleaving of deaths and resets loses the last permit:
\* when nobody is inside, sem_p can proceed.  (The undo of a sem_v whose sem_p was
\* forgotten by a reset takes a permit away; it must not be the last one.)
PermitsBounded == /\ TypeOK
                  /\ Cardinality(Inside) + semval <= 1 + resets
                  /\ Inside = {} => semval > 0

\* Every sem_p returns, however its competitors die, unless the caller dies.
WaitEnds == \A p \in Procs : pc[p] = "wait" ~> pc[p] # "wait"
=============================================================================
