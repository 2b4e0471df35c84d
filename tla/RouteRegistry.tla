--------------------------- MODULE RouteRegistry ---------------------------
(***************************************************************************)
(* What the route table promises its users, without slots, cursors, probes *)
(* or a lock: registering a connection is one step; a lookup is answered   *)
(* once, with a connection registered for that very name, or with no       *)
(* connection; "none" is an answer only while fewer connections than the   *)
(* client announced are registered, or when it announced more than a slot  *)
(* can hold.                                                               *)
(***************************************************************************)
EXTENDS Integers, FiniteSets

CONSTANTS Askers,       \* the processes that look names up
          Names,        \* the names they ask for
          Conns,        \* the connections that may be registered
          Owner,        \* Owner[c]: the name c is registered for
          Promised,     \* Promised[c]: the count announced with c
          Capacity,     \* how many connections a name can be served by
          NoConn,       \* the answer "none"
          None          \* no question, no answer yet

VARIABLES routes,       \* the registered connections
          asked,        \* asked[w]: the name w asks for
          answer        \* answer[w]: what it was told

vars == <<routes, asked, answer>>

TypeOK == /\ routes \subseteq Conns
          /\ asked \in [Askers -> Names \cup {None}]
          /\ answer \in [Askers -> Conns \cup {NoConn, None}]

-----------------------------------------------------------------------------
Serving(k) == {c \in routes : Owner[c] = k}

\* Every connection the client of k announced is registered, and they fit.
Complete(k) == /\ Serving(k) # {}
               /\ \A c \in Serving(k) : /\ Promised[c] <= Cardinality(Serving(k))
                                        /\ Promised[c] <= Capacity

Answers(k) == Serving(k) \cup (IF Complete(k) THEN {} ELSE {NoConn})

Init == /\ routes = {}
        /\ asked = [w \in Askers |-> None]
        /\ answer = [w \in Askers |-> None]

Register == /\ \E c \in Conns \ routes : routes' = routes \cup {c}
            /\ UNCHANGED <<asked, answer>>

Ask(w) == /\ asked[w] = None
          /\ \E k \in Names : asked' = [asked EXCEPT ![w] = k]
          /\ UNCHANGED <<routes, answer>>

Answer(w) == /\ asked[w] # None
             /\ answer[w] = None
             /\ \E a \in Answers(asked[w]) : answer' = [answer EXCEPT ![w] = a]
             /\ UNCHANGED <<routes, asked>>

\* w has its answer, or dies waiting for it.
Finish(w) == /\ asked[w] # None
             /\ asked' = [asked EXCEPT ![w] = None]
             /\ answer' = [answer EXCEPT ![w] = None]
             /\ UNCHANGED routes

Next == Register \/ \E w \in Askers : Ask(w) \/ Answer(w) \/ Finish(w)

Fairness == \A w \in Askers : WF_vars(Answer(w) \/ (answer[w] # None /\ Finish(w)))

Spec == Init /\ [][Next]_vars /\ Fairness
=============================================================================
