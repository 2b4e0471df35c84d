----------------------- MODULE FenglingEvents_proofs -----------------------
(***************************************************************************)
(* The event loop for any number of workers, connections and descriptors:  *)
(* what a descriptor and a registration stand for, whatever closes them;   *)
(* that no queued connection is stranded; and that a worker alone on the   *)
(* epoll instance loses no edge and closes nothing by a stale number.      *)
(***************************************************************************)
EXTENDS FenglingEvents, FiniteSetTheorems, WellFoundedInduction, TLAPS

-----------------------------------------------------------------------------
(* The inductive invariant. *)

\* A descriptor is an open connection, by the number it is registered under, and
\* only one worker's; a connection that is not open is registered nowhere.
Consistent ==
    /\ \A w \in Workers, n \in Numbers : fds[w][n] # None =>
          state[fds[w][n]] = "open" /\ number[fds[w][n]] = n
    /\ \A v, w \in Workers, n \in Numbers : fds[v][n] # None /\ fds[v][n] = fds[w][n] => v = w
    /\ \A c \in Conns :
          IF state[c] = "open"
          THEN number[c] \in Numbers /\ \E w \in Workers : fds[w][number[c]] = c
          ELSE number[c] = 0 /\ c \notin ready

\* What a worker has fetched, and that one that has fetched nothing has nothing.
Fetched(w) ==
    /\ \A e \in batch[w] : /\ e.fd = ListenFd <=> e.conn = None
                           /\ e.conn = None => e = Knock
                           /\ e.hup => end[e.conn] = "reset"
    /\ pc[w] \in {"wait", "dead"} => batch[w] = {}
    /\ pc[w] \in {"read", "ask"} => at[w].fd \in Numbers
    /\ pc[w] = "dead" => fds[w] = NoFds
    /\ w \notin served => fds[w] = NoFds /\ batch[w] = {} /\ pc[w] \in {"wait", "dead"}

\* The numbers in a batch still mean the connections they were fetched for, one
\* event for each, and none for the one that is being handled.
Meant(w) ==
    /\ \A e \in batch[w] : e.conn # None => fds[w][e.fd] = e.conn
    /\ \A e, f \in batch[w] : e.fd = f.fd => e = f
    /\ pc[w] \in {"read", "ask"} => \A e \in batch[w] : e.fd # at[w].fd

Base == /\ TypeOK
        /\ served \subseteq Workers /\ IsFiniteSet(served)
        /\ Consistent
        /\ \A w \in Workers : Fetched(w)

\* Of a worker alone.
Undisturbed == Alone => EdgeOnItsWay /\ \A w \in Workers : Meant(w)

EventsInv == Base /\ NoneStranded /\ Undisturbed

\* w's descriptors N are closed, and with them their connections.
Closes(w, N) ==
    /\ fds' = [fds EXCEPT ![w] = [n \in Numbers |-> IF n \in N THEN None ELSE fds[w][n]]]
    /\ CloseConns({fds[w][n] : n \in N} \ {None})

\* The steps of a worker that close something.
Closing(w) == TakeError(w) \/ ReadDone(w) \/ Answer(w) \/ Fault(w) \/ Kill(w)

-----------------------------------------------------------------------------
\* The numbers.
LEMMA Sizes == /\ MaxFd \in Nat /\ ListenFd \notin Numbers
               /\ \A n \in Numbers : n \in 0 .. MaxFd /\ n \in Nat /\ n # 0
               /\ \A n \in 0 .. MaxFd : n = ListenFd \/ n \in Numbers
               /\ 0 \in 0 .. MaxFd /\ ListenFd = 0
               /\ None \notin Conns
               /\ MaxRequests \in Nat /\ MaxKills \in Nat
BY FdAssumption, ConnAssumption, BoundAssumption DEF Numbers, ListenFd

\* A set of numbers has a lowest.
LEMMA FirstOf ==
    ASSUME NEW T \in SUBSET Nat, T # {}
    PROVE  \E x \in T : \A y \in T : x <= y
<1> DEFINE Lt == OpToRel(<, Nat)
<1>1. IsWellFoundedOn(Lt, Nat)
    BY NatLessThanWellFounded, Zenon
<1>2. \A y, z \in Nat : y < z => <<y, z>> \in Lt
    BY Zenon DEF OpToRel
<1> HIDE DEF Lt
<1>3. PICK x \in T : \A y \in T : ~ (<<y, x>> \in Lt)
    BY <1>1, WFMin
<1>4. ASSUME NEW y \in T PROVE x <= y
    <2>1. x \in Nat /\ y \in Nat /\ (y < x => <<y, x>> \in Lt)
        BY <1>2
    <2> QED BY <1>3, <2>1
<1> QED BY <1>4

\* The kernel's choice of a descriptor: a free one.
LEMMA LowestFree ==
    ASSUME NEW w \in Workers, Free(w) # {}
    PROVE  Lowest(Free(w)) \in Numbers /\ fds[w][Lowest(Free(w))] = None
<1>1. Free(w) \subseteq Nat
    BY Sizes DEF Free
<1>2. PICK n \in Free(w) : \A m \in Free(w) : n <= m
    BY <1>1, FirstOf
<1>3. Lowest(Free(w)) \in Free(w)
    BY <1>2 DEF Lowest
<1> QED BY <1>3 DEF Free

\* Events are events.
LEMMA EventTypes ==
    ASSUME TypeOK
    PROVE  /\ NoEvent \in Events /\ Knock \in Events
           /\ \A c \in Conns : EventOf(c) \in Events
BY Sizes DEF TypeOK, Events, NoEvent, Knock, EventOf

\* It holds at the start.
LEMMA InitEvents == Init => EventsInv
<1> SUFFICES ASSUME Init PROVE EventsInv
    OBVIOUS
<1> USE Sizes
<1>1. TypeOK
    <2>1. NoEvent \in Events /\ 0 \in 0 .. MaxRequests /\ 0 \in 0 .. MaxKills
        BY DEF NoEvent, Events
    <2>2. NoFds \in [Numbers -> Conns \cup {None}]
        BY DEF NoFds
    <2> QED BY <2>1, <2>2 DEF Init, TypeOK
<1>2. Consistent
    BY DEF Init, Consistent, NoFds
<1>3. \A w \in Workers : Fetched(w)
    BY DEF Init, Fetched
<1>4. IsFiniteSet(served) /\ served \subseteq Workers
    BY FS_EmptySet DEF Init
<1>5. NoneStranded
    BY DEF Init, NoneStranded
<1>6. EdgeOnItsWay /\ \A w \in Workers : Meant(w)
    BY DEF Init, EdgeOnItsWay, Meant
<1> QED BY <1>1, <1>2, <1>3, <1>4, <1>5, <1>6 DEF EventsInv, Base, Undisturbed

-----------------------------------------------------------------------------
(* Closing. *)

\* Every way a worker closes something is of this shape.
LEMMA ClosingSteps ==
    ASSUME TypeOK, NEW w \in Workers, Fetched(w)
    PROVE  /\ TakeError(w) => \E e \in batch[w] : /\ e.hup /\ e.fd \in Numbers /\ Closes(w, {e.fd})
                                                  /\ batch' = [batch EXCEPT ![w] = @ \ {e}]
           /\ ReadDone(w) \/ Answer(w) => at[w].fd \in Numbers /\ Closes(w, {at[w].fd})
           /\ Gone(w) => Closes(w, Numbers)
<1> USE Sizes
<1>1. ASSUME NEW n \in Numbers,
             fds' = [fds EXCEPT ![w][n] = None], CloseConns({fds[w][n]} \ {None})
      PROVE  Closes(w, {n})
    <2>1. {fds[w][m] : m \in {n}} = {fds[w][n]}
        OBVIOUS
    <2>2. [fds[w] EXCEPT ![n] = None] = [m \in Numbers |-> IF m \in {n} THEN None ELSE fds[w][m]]
        BY DEF TypeOK
    <2> QED BY <1>1, <2>1, <2>2 DEF Closes
<1>2. ASSUME TakeError(w)
      PROVE  \E e \in batch[w] : /\ e.hup /\ e.fd \in Numbers /\ Closes(w, {e.fd})
                                 /\ batch' = [batch EXCEPT ![w] = @ \ {e}]
    <2>1. PICK e \in batch[w] : /\ e.hup
                                /\ batch' = [batch EXCEPT ![w] = @ \ {e}]
                                /\ fds' = [fds EXCEPT ![w][e.fd] = None]
                                /\ CloseConns({fds[w][e.fd]} \ {None})
        BY <1>2 DEF TakeError
    <2>2. e.fd \in Numbers
        <3>1. e.conn # None
            BY <2>1 DEF Fetched, Knock
        <3>2. e.fd # ListenFd /\ e \in Events
            BY <3>1 DEF Fetched, TypeOK
        <3> QED BY <3>2 DEF Events
    <2> QED BY <1>1, <2>1, <2>2
<1>3. ASSUME ReadDone(w) \/ Answer(w) PROVE at[w].fd \in Numbers /\ Closes(w, {at[w].fd})
    <2>1. at[w].fd \in Numbers /\ CloseFd(w)
        BY <1>3 DEF ReadDone, Answer, Fetched
    <2> QED BY <1>1, <2>1 DEF CloseFd
<1>4. ASSUME Gone(w) PROVE Closes(w, Numbers)
    <2>1. NoFds = [n \in Numbers |-> IF n \in Numbers THEN None ELSE fds[w][n]]
        BY DEF NoFds
    <2> QED BY <1>4, <2>1 DEF Gone, Closes
<1> QED BY <1>2, <1>3, <1>4

\* What closing does to descriptors and connections.
LEMMA ClosedFacts ==
    ASSUME TypeOK, Consistent, NEW w \in Workers, NEW N \in SUBSET Numbers, Closes(w, N)
    PROVE  /\ \A v \in Workers, n \in Numbers :
                 fds'[v][n] = IF v = w /\ n \in N THEN None ELSE fds[v][n]
           /\ fds' \in [Workers -> [Numbers -> Conns \cup {None}]]
           /\ \A c \in Conns : (\E n \in N : fds[w][n] = c) =>
                 state'[c] = "closed" /\ number'[c] = 0 /\ c \notin ready' /\ c \notin unread'
           /\ \A c \in Conns : ~(\E n \in N : fds[w][n] = c) =>
                 /\ state'[c] = state[c] /\ number'[c] = number[c]
                 /\ c \in ready' <=> c \in ready
                 /\ c \in unread' <=> c \in unread
           /\ state' \in [Conns -> {"new", "queued", "open", "closed"}]
           /\ number' \in [Conns -> 0 .. MaxFd]
           /\ unread' \subseteq Conns /\ ready' \subseteq Conns
<1> USE Sizes
<1>1. /\ fds' \in [Workers -> [Numbers -> Conns \cup {None}]]
      /\ \A v \in Workers, n \in Numbers :
            fds'[v][n] = IF v = w /\ n \in N THEN None ELSE fds[v][n]
    <2> DEFINE row == [n \in Numbers |-> IF n \in N THEN None ELSE fds[w][n]]
    <2>1. row \in [Numbers -> Conns \cup {None}]
        BY DEF TypeOK
    <2>2. fds' = [fds EXCEPT ![w] = row]
        BY DEF Closes
    <2>3. \A n \in Numbers : row[n] = IF n \in N THEN None ELSE fds[w][n]
        OBVIOUS
    <2> HIDE DEF row
    <2> QED BY <2>1, <2>2, <2>3 DEF TypeOK
<1> DEFINE C == {fds[w][n] : n \in N} \ {None}
<1>2. CloseConns(C)
    BY DEF Closes
<1>3. \A c \in Conns : c \in C <=> \E n \in N : fds[w][n] = c
    OBVIOUS
<1> HIDE DEF C
<1> QED BY <1>1, <1>2, <1>3 DEF CloseConns, TypeOK

-----------------------------------------------------------------------------
(* Types. *)

\* Types, whatever the browsers do.
LEMMA BrowserTypes ==
    ASSUME TypeOK, NEW c \in Conns, Browser(c)
    PROVE  TypeOK'
<1> USE Sizes
<1>1. CASE Connect(c)
    BY <1>1 DEF Connect, browserVars, TypeOK, Got
<1>2. CASE Send(c)
    BY <1>2 DEF Send, Raise, TypeOK, Got
<1>3. CASE End(c)
    <2>1. PICK e \in {"shut", "reset"} : /\ end' = [end EXCEPT ![c] = e]
                                         /\ unread' = IF e = "reset" THEN unread \ {c} ELSE unread
        BY <1>3, EndingAssumption DEF End
    <2>2. end' \in [Conns -> {"up", "shut", "reset"}] /\ unread' \subseteq Conns
        BY <2>1 DEF TypeOK
    <2> QED BY <1>3, <2>2 DEF End, Raise, TypeOK, Got
<1> QED BY <1>1, <1>2, <1>3 DEF Browser

\* The steps that close, by their shape.
LEMMA ClosingTypes ==
    ASSUME Base, NEW w \in Workers, Closing(w)
    PROVE  TypeOK'
<1> USE Sizes DEF Base
<1>0. /\ TakeError(w) \/ ReadDone(w) \/ Answer(w) \/ Gone(w)
      /\ kills' \in 0 .. MaxKills
    <2>1. TakeError(w) \/ ReadDone(w) \/ Answer(w) \/ Fault(w) => kills' = kills
        BY DEF TakeError, ReadDone, Answer, Fault
    <2>2. Kill(w) => kills' = kills + 1 /\ kills < MaxKills
        BY DEF Kill
    <2>3. kills' \in 0 .. MaxKills
        BY <2>1, <2>2 DEF Closing, TypeOK
    <2> QED BY <2>3 DEF Closing, Fault, Kill
<1>1. PICK N \in SUBSET Numbers : Closes(w, N)
    BY <1>0, ClosingSteps
<1>2. /\ fds' \in [Workers -> [Numbers -> Conns \cup {None}]]
      /\ state' \in [Conns -> {"new", "queued", "open", "closed"}]
      /\ number' \in [Conns -> 0 .. MaxFd]
      /\ unread' \subseteq Conns /\ ready' \subseteq Conns
    BY <1>1, ClosedFacts DEF Closes
<1>3. UNCHANGED <<end, sent, knock>> /\ kills' \in 0 .. MaxKills /\ lapsed' \in BOOLEAN
    BY <1>0 DEF TakeError, ReadDone, Answer, Gone, browserVars, TypeOK
<1>4. batch' \in [Workers -> SUBSET Events] /\ at' \in [Workers -> Events]
    <2>1. TakeError(w) => at' = at /\ batch' \in [Workers -> SUBSET Events]
        BY <1>0 DEF TakeError, TypeOK
    <2>2. ReadDone(w) \/ Answer(w) => batch' = batch /\ at' = [at EXCEPT ![w] = NoEvent]
        BY DEF ReadDone, Answer, Handled
    <2>3. Gone(w) => batch' = [batch EXCEPT ![w] = {}] /\ at' = [at EXCEPT ![w] = NoEvent]
        BY DEF Gone
    <2>4. at \in [Workers -> Events] /\ batch \in [Workers -> SUBSET Events] /\ NoEvent \in Events
        BY EventTypes DEF TypeOK
    <2>5. [at EXCEPT ![w] = NoEvent] \in [Workers -> Events]
        BY <2>4
    <2>6. [batch EXCEPT ![w] = {}] \in [Workers -> SUBSET Events]
        BY <2>4
    <2> QED BY <1>0, <2>1, <2>2, <2>3, <2>4, <2>5, <2>6
<1>5. /\ pc' \in [Workers -> {"wait", "event", "accept", "read", "ask", "dead"}]
      /\ \A v \in Workers : pc'[v] = "ask" => v # w /\ pc[v] = "ask" /\ at'[v] = at[v]
    BY <1>0 DEF TakeError, ReadDone, Answer, Gone, Handled, Goto, TypeOK
<1>6. \A v \in Workers : v # w => fds'[v] = fds[v]
    BY <1>1 DEF Closes, TypeOK
<1>7. \A v \in Workers : pc'[v] = "ask" => Got(v)' # None
    BY <1>5, <1>6 DEF TypeOK, Got
<1> QED BY <1>2, <1>3, <1>4, <1>5, <1>7 DEF TypeOK

\* The step that opens a connection.
LEMMA AcceptTypes ==
    ASSUME Base, NEW w \in Workers, Accept(w)
    PROVE  TypeOK'
<1> USE Sizes DEF Base
<1> DEFINE n == Lowest(Free(w))
<1>1. n \in Numbers /\ fds[w][n] = None
    BY LowestFree DEF Accept, AcceptAs
<1>2. PICK c \in Conns : /\ state' = [state EXCEPT ![c] = "open"]
                         /\ fds' = [fds EXCEPT ![w][n] = c]
                         /\ number' = [number EXCEPT ![c] = n]
                         /\ ready' = IF c \in unread \/ end[c] # "up" THEN ready \cup {c} ELSE ready
    BY DEF Accept, AcceptAs
<1> HIDE DEF n
<1>3. fds' \in [Workers -> [Numbers -> Conns \cup {None}]]
    BY <1>1, <1>2 DEF TypeOK
<1>4. UNCHANGED <<end, sent, unread, knock, batch, at, pc, kills, lapsed>> /\ pc[w] = "accept"
    BY DEF Accept, AcceptAs, browserVars
<1>5. \A v \in Workers : pc'[v] = "ask" => Got(v)' # None
    BY <1>2, <1>4 DEF TypeOK, Got
<1>6. /\ state' \in [Conns -> {"new", "queued", "open", "closed"}]
      /\ number' \in [Conns -> 0 .. MaxFd] /\ ready' \subseteq Conns
    BY <1>1, <1>2 DEF TypeOK
<1> QED BY <1>3, <1>4, <1>5, <1>6 DEF TypeOK

\* And all the others.
LEMMA Types ==
    ASSUME Base, [Next]_vars
    PROVE  TypeOK'
<1> USE Sizes DEF Base
<1>1. ASSUME NEW w \in Workers, Wait(w) PROVE TypeOK'
    <2>1. {EventOf(c) : c \in ready} \cup (IF knock THEN {Knock} ELSE {}) \subseteq Events
        BY EventTypes DEF TypeOK
    <2>2. batch' \in [Workers -> SUBSET Events]
        BY <1>1, <2>1 DEF Wait, TypeOK
    <2> QED BY <1>1, <2>2 DEF Wait, Goto, browserVars, TypeOK, Got
<1>2. ASSUME NEW w \in Workers, TakeEvent(w) PROVE TypeOK'
    <2>1. PICK e \in batch[w] : /\ batch' = [batch EXCEPT ![w] = @ \ {e}]
                                /\ at' = [at EXCEPT ![w] = e]
                                /\ Goto(w, IF e.fd = ListenFd THEN "accept" ELSE "read")
        BY <1>2 DEF TakeEvent
    <2>2. batch' \in [Workers -> SUBSET Events] /\ at' \in [Workers -> Events]
        BY <2>1 DEF TypeOK
    <2> QED BY <1>2, <2>1, <2>2 DEF TakeEvent, Goto, browserVars, TypeOK, Got
<1>3. ASSUME NEW w \in Workers, BatchDone(w) \/ Respawn(w) PROVE TypeOK'
    BY <1>3 DEF BatchDone, Respawn, Goto, browserVars, TypeOK, Got
<1>4. ASSUME NEW w \in Workers, AcceptEnds(w) PROVE TypeOK'
    <2>1. lapsed' \in BOOLEAN /\ batch' = batch
        BY <1>4 DEF AcceptEnds, AcceptEndsWith, TypeOK
    <2> QED BY <1>4, <2>1, EventTypes DEF AcceptEnds, AcceptEndsWith, Handled, Goto, browserVars,
                                          TypeOK, Got
<1>5. ASSUME NEW w \in Workers, ReadRequest(w) PROVE TypeOK'
    BY <1>5 DEF ReadRequest, Goto, browserVars, TypeOK, Got
<1>6. ASSUME NEW w \in Workers, ReadAgain(w) PROVE TypeOK'
    BY <1>6, EventTypes DEF ReadAgain, Handled, Goto, browserVars, TypeOK, Got
<1>7. ASSUME NEW w \in Workers, Refused(w) PROVE TypeOK'
    BY <1>7 DEF Refused, Goto, browserVars, TypeOK, Got
<1>8. ASSUME NEW w \in Workers, Closing(w) PROVE TypeOK'
    BY <1>8, ClosingTypes
<1>9. CASE UNCHANGED vars
    BY <1>9 DEF vars, browserVars, TypeOK, Got
<1> QED
    BY <1>1, <1>2, <1>3, <1>4, <1>5, <1>6, <1>7, <1>8, <1>9, BrowserTypes, AcceptTypes
    DEF Next, Step, Serve, Told, Closing

-----------------------------------------------------------------------------
(* What descriptors stand for. *)

\* It is a matter of descriptors, connections and registrations.
LEMMA ConsistentSame ==
    ASSUME Consistent, UNCHANGED <<state, fds, number>>,
           ready' \subseteq ready \cup {c \in Conns : state[c] = "open"}
    PROVE  Consistent'
BY DEF Consistent

\* Whoever closes what.
LEMMA ClosesConsistent ==
    ASSUME TypeOK, Consistent, NEW w \in Workers, NEW N \in SUBSET Numbers, Closes(w, N)
    PROVE  Consistent'
<1> USE Sizes
<1>1. \A v \in Workers, n \in Numbers :
          fds'[v][n] = IF v = w /\ n \in N THEN None ELSE fds[v][n]
    BY ClosedFacts
<1>2. ASSUME NEW v \in Workers, NEW n \in Numbers, fds'[v][n] # None
      PROVE  ~\E m \in N : fds[w][m] = fds[v][n]
    <2> SUFFICES ASSUME NEW m \in N, fds[w][m] = fds[v][n] PROVE FALSE
        OBVIOUS
    <2>1. fds[v][n] # None /\ ~(v = w /\ n \in N)
        BY <1>1, <1>2
    <2>2. m = n /\ v = w
        BY <2>1 DEF Consistent
    <2> QED BY <2>1, <2>2
<1>3. ASSUME NEW v \in Workers, NEW n \in Numbers, fds'[v][n] # None
      PROVE  /\ fds'[v][n] = fds[v][n] /\ fds[v][n] \in Conns
             /\ state'[fds[v][n]] = "open" /\ number'[fds[v][n]] = n
    <2>1. fds'[v][n] = fds[v][n] /\ fds[v][n] \in Conns
        BY <1>1, <1>3 DEF TypeOK
    <2>2. state[fds[v][n]] = "open" /\ number[fds[v][n]] = n
        BY <2>1, <1>3 DEF Consistent
    <2> QED BY <1>2, <1>3, <2>1, <2>2, ClosedFacts
<1>4. ASSUME NEW u \in Workers, NEW v \in Workers, NEW n \in Numbers,
             fds'[u][n] # None, fds'[u][n] = fds'[v][n]
      PROVE  u = v
    BY <1>3, <1>4 DEF Consistent
<1>5. ASSUME NEW c \in Conns
      PROVE  IF state'[c] = "open"
             THEN number'[c] \in Numbers /\ \E v \in Workers : fds'[v][number'[c]] = c
             ELSE number'[c] = 0 /\ c \notin ready'
    <2>1. CASE \E n \in N : fds[w][n] = c
        BY <2>1, ClosedFacts
    <2>2. CASE ~\E n \in N : fds[w][n] = c
        <3>1. state'[c] = state[c] /\ number'[c] = number[c] /\ (c \in ready' <=> c \in ready)
            BY <2>2, ClosedFacts
        <3>2. CASE state[c] = "open"
            <4>1. PICK v \in Workers : number[c] \in Numbers /\ fds[v][number[c]] = c
                BY <3>2 DEF Consistent
            <4>2. fds'[v][number[c]] = c
                BY <1>1, <2>2, <4>1
            <4> QED BY <3>1, <3>2, <4>1, <4>2
        <3> QED BY <3>1, <3>2 DEF Consistent
    <2> QED BY <2>1, <2>2
<1> QED BY <1>3, <1>4, <1>5 DEF Consistent

\* accept and epoll_ctl give a queued connection a descriptor nobody else has.
LEMMA AcceptConsistent ==
    ASSUME TypeOK, Consistent, NEW w \in Workers, Accept(w)
    PROVE  Consistent'
<1> USE Sizes
<1> DEFINE m == Lowest(Free(w))
<1>1. m \in Numbers /\ fds[w][m] = None
    BY LowestFree DEF Accept, AcceptAs
<1>2. PICK c \in Conns : /\ state[c] = "queued"
                         /\ state' = [state EXCEPT ![c] = "open"]
                         /\ fds' = [fds EXCEPT ![w][m] = c]
                         /\ number' = [number EXCEPT ![c] = m]
                         /\ ready' = IF c \in unread \/ end[c] # "up" THEN ready \cup {c} ELSE ready
    BY DEF Accept, AcceptAs
<1> HIDE DEF m
<1>3. \A v \in Workers, n \in Numbers : fds'[v][n] = IF v = w /\ n = m THEN c ELSE fds[v][n]
    BY <1>1, <1>2 DEF TypeOK
<1>4. \A v \in Workers, n \in Numbers : fds[v][n] # c
    BY <1>2 DEF Consistent
<1>5. \A d \in Conns : /\ state'[d] = IF d = c THEN "open" ELSE state[d]
                       /\ number'[d] = IF d = c THEN m ELSE number[d]
    BY <1>2 DEF TypeOK
<1>6. \A v \in Workers, n \in Numbers : fds'[v][n] # None =>
          /\ fds'[v][n] \in Conns
          /\ state'[fds'[v][n]] = "open" /\ number'[fds'[v][n]] = n
    <2> SUFFICES ASSUME NEW v \in Workers, NEW n \in Numbers, fds'[v][n] # None
                 PROVE  /\ fds'[v][n] \in Conns
                        /\ state'[fds'[v][n]] = "open" /\ number'[fds'[v][n]] = n
        OBVIOUS
    <2>1. CASE v = w /\ n = m
        BY <1>3, <1>5, <2>1
    <2>2. CASE ~(v = w /\ n = m)
        <3>1. fds'[v][n] = fds[v][n] /\ fds[v][n] # c /\ fds[v][n] \in Conns
            BY <1>3, <1>4, <2>2 DEF TypeOK
        <3> QED BY <1>5, <3>1 DEF Consistent
    <2> QED BY <2>1, <2>2
<1>7. \A u, v \in Workers, n \in Numbers : fds'[u][n] # None /\ fds'[u][n] = fds'[v][n] => u = v
    BY <1>3, <1>4 DEF Consistent
<1>8. ASSUME NEW d \in Conns
      PROVE  IF state'[d] = "open"
             THEN number'[d] \in Numbers /\ \E v \in Workers : fds'[v][number'[d]] = d
             ELSE number'[d] = 0 /\ d \notin ready'
    <2>1. CASE d = c
        BY <1>1, <1>3, <1>5, <2>1
    <2>2. CASE d # c
        <3>1. state'[d] = state[d] /\ number'[d] = number[d] /\ (d \in ready' <=> d \in ready)
            BY <1>2, <1>5, <2>2
        <3>2. CASE state[d] = "open"
            <4>1. PICK v \in Workers : number[d] \in Numbers /\ fds[v][number[d]] = d
                BY <3>2 DEF Consistent
            <4>2. fds'[v][number[d]] = d
                BY <1>1, <1>3, <4>1
            <4> QED BY <3>1, <3>2, <4>1, <4>2
        <3> QED BY <3>1, <3>2 DEF Consistent
    <2> QED BY <2>1, <2>2
<1> QED BY <1>6, <1>7, <1>8 DEF Consistent

\* No step parts a descriptor from its registration.
LEMMA ConsistentStep ==
    ASSUME Base, [Next]_vars
    PROVE  Consistent'
<1> USE Sizes DEF Base
<1>1. ASSUME NEW c \in Conns, Connect(c) PROVE Consistent'
    <2>1. /\ state[c] = "new" /\ state' = [state EXCEPT ![c] = "queued"]
          /\ UNCHANGED <<fds, number, ready>>
        BY <1>1 DEF Connect
    <2> QED BY <2>1 DEF Consistent, TypeOK
<1>2. ASSUME NEW c \in Conns, Send(c) \/ End(c) PROVE Consistent'
    BY <1>2, ConsistentSame DEF Send, End, Raise
<1>3. ASSUME NEW w \in Workers,
             \/ Wait(w) \/ TakeEvent(w) \/ BatchDone(w) \/ AcceptEnds(w)
             \/ ReadRequest(w) \/ ReadAgain(w) \/ Refused(w) \/ Respawn(w)
      PROVE  Consistent'
    BY <1>3, ConsistentSame DEF Wait, TakeEvent, BatchDone, AcceptEnds, AcceptEndsWith, ReadRequest,
                                ReadAgain,
                                Refused, Respawn
<1>4. ASSUME NEW w \in Workers, Closing(w) PROVE Consistent'
    <2>1. TakeError(w) \/ ReadDone(w) \/ Answer(w) \/ Gone(w)
        BY <1>4 DEF Closing, Fault, Kill
    <2>2. PICK N \in SUBSET Numbers : Closes(w, N)
        BY <2>1, ClosingSteps
    <2> QED BY <2>2, ClosesConsistent
<1>5. CASE UNCHANGED vars
    BY <1>5, ConsistentSame DEF vars
<1> QED BY <1>1, <1>2, <1>3, <1>4, <1>5, AcceptConsistent DEF Next, Browser, Step, Serve, Told, Closing

\* So a connection is one descriptor of one worker, or none.
LEMMA OneEach == TypeOK /\ Consistent => OneDescriptor
<1> SUFFICES ASSUME TypeOK, Consistent, NEW c \in Conns
             PROVE  LET held == {h \in Workers \X Numbers : fds[h[1]][h[2]] = c} IN
                    IF state[c] = "open" THEN \E w \in Workers : held = {<<w, number[c]>>}
                    ELSE held = {} /\ number[c] = 0 /\ c \notin ready
    BY DEF OneDescriptor
<1> USE Sizes
<1> DEFINE held == {h \in Workers \X Numbers : fds[h[1]][h[2]] = c}
<1>1. CASE state[c] = "open"
    <2>1. PICK w \in Workers : number[c] \in Numbers /\ fds[w][number[c]] = c
        BY <1>1 DEF Consistent
    <2>2. \A v \in Workers, n \in Numbers : fds[v][n] = c => v = w /\ n = number[c]
        BY <2>1 DEF Consistent
    <2>3. held = {<<w, number[c]>>}
        BY <2>1, <2>2
    <2> QED BY <1>1, <2>3
<1>2. CASE state[c] # "open"
    <2>1. \A v \in Workers, n \in Numbers : fds[v][n] # c
        BY <1>2 DEF Consistent
    <2> QED BY <1>2, <2>1 DEF Consistent
<1> QED BY <1>1, <1>2

-----------------------------------------------------------------------------
(* What a worker has fetched. *)

\* The other workers are not concerned by a worker's step.
LEMMA Others ==
    ASSUME Base, NEW w \in Workers, Step(w) \/ Kill(w), NEW v \in Workers, v # w
    PROVE  /\ batch'[v] = batch[v] /\ at'[v] = at[v] /\ pc'[v] = pc[v] /\ fds'[v] = fds[v]
           /\ v \in served' <=> v \in served
           /\ end' = end
<1> USE DEF Base, TypeOK, browserVars, Goto, Handled
<1>1. Closing(w) => fds'[v] = fds[v]
    <2>1. Closing(w) => TakeError(w) \/ ReadDone(w) \/ Answer(w) \/ Gone(w)
        BY DEF Closing, Fault, Kill
    <2>2. Closing(w) => \E N \in SUBSET Numbers : Closes(w, N)
        BY <2>1, ClosingSteps
    <2> QED BY <2>2 DEF Closes
<1>2. CASE Closing(w)
    BY <1>1, <1>2 DEF Closing, TakeError, ReadDone, Answer, Fault, Kill, Gone
<1>3. CASE \/ Wait(w) \/ TakeEvent(w) \/ BatchDone(w) \/ Accept(w) \/ AcceptEnds(w)
           \/ ReadRequest(w) \/ ReadAgain(w) \/ Refused(w) \/ Respawn(w)
    BY <1>3 DEF Wait, TakeEvent, BatchDone, Accept, AcceptAs, AcceptEnds, AcceptEndsWith, ReadRequest,
                ReadAgain,
                Refused, Respawn
<1> QED BY <1>2, <1>3 DEF Step, Serve, Told, Closing

\* One worker more, or none.
LEMMA ServedStep ==
    ASSUME Base, [Next]_vars
    PROVE  /\ served' \subseteq Workers /\ IsFiniteSet(served')
           /\ served \subseteq served'
<1> USE DEF Base
<1>1. served' = served \/ \E w \in Workers : served' = served \cup {w}
    BY DEF Next, Browser, Connect, Send, End, Step, Serve, Told, Kill, Wait, TakeError, TakeEvent, BatchDone, Accept,
           AcceptAs,
           AcceptEnds, AcceptEndsWith, ReadRequest, ReadAgain, ReadDone, Answer, Refused, Fault, Gone, Respawn, vars
<1> QED BY <1>1, FS_AddElement

\* The worker's own steps.
LEMMA FetchedOwn ==
    ASSUME Base, NEW w \in Workers, Step(w) \/ Kill(w)
    PROVE  Fetched(w)'
<1> USE Sizes DEF Base
<1>0. Fetched(w) /\ w \in Workers
    OBVIOUS
<1>1. CASE Wait(w)
    <2>1. batch'[w] = {EventOf(c) : c \in ready} \cup (IF knock THEN {Knock} ELSE {})
        BY <1>1 DEF Wait, TypeOK
    <2>2. end' = end /\ pc'[w] = "event" /\ w \in served'
        BY <1>1 DEF Wait, Goto, browserVars, TypeOK
    <2>3. ASSUME NEW e \in batch'[w]
          PROVE  /\ e.fd = ListenFd <=> e.conn = None
                 /\ e.conn = None => e = Knock
                 /\ e.hup => end'[e.conn] = "reset"
        <3>1. CASE e = Knock
            BY <3>1 DEF Knock
        <3>2. ASSUME NEW c \in ready, e = EventOf(c)
              PROVE  /\ e.fd = ListenFd <=> e.conn = None
                     /\ e.conn = None => e = Knock
                     /\ e.hup => end'[e.conn] = "reset"
            <4>1. e.conn = c /\ e.fd = number[c] /\ (e.hup <=> end[c] = "reset")
                BY <3>2 DEF EventOf
            <4>2. c \in Conns /\ number[c] \in Numbers
                BY DEF TypeOK, Consistent
            <4> QED BY <2>2, <4>1, <4>2
        <3> QED BY <2>1, <3>1, <3>2
    <2> QED BY <2>2, <2>3 DEF Fetched
<1>2. CASE TakeEvent(w)
    <2>1. PICK e \in batch[w] : /\ batch' = [batch EXCEPT ![w] = @ \ {e}]
                                /\ at' = [at EXCEPT ![w] = e]
                                /\ pc' = [pc EXCEPT ![w] = IF e.fd = ListenFd THEN "accept" ELSE "read"]
        BY <1>2 DEF TakeEvent, Goto
    <2>2. e.fd = ListenFd \/ e.fd \in Numbers
        BY <1>0 DEF TypeOK, Events
    <2>3. /\ batch'[w] \subseteq batch[w] /\ at'[w] = e
          /\ pc'[w] = IF e.fd = ListenFd THEN "accept" ELSE "read"
        BY <2>1 DEF TypeOK
    <2>4. pc[w] = "event" /\ UNCHANGED <<end, served>>
        BY <1>2 DEF TakeEvent, browserVars
    <2>5. w \in served'
        BY <1>0, <2>4 DEF Fetched
    <2> QED BY <1>0, <2>2, <2>3, <2>4, <2>5 DEF Fetched
<1>3. CASE BatchDone(w)
    <2>1. pc'[w] = "wait" /\ pc[w] = "event" /\ batch'[w] = {} /\ served' = served
        BY <1>3 DEF BatchDone, Goto, TypeOK
    <2>2. w \in served'
        BY <1>0, <2>1 DEF Fetched
    <2> QED BY <2>1, <2>2 DEF Fetched
<1>4. CASE Accept(w)
    <2>1. UNCHANGED <<end, batch, at, pc, served>> /\ pc[w] = "accept"
        BY <1>4 DEF Accept, AcceptAs, browserVars
    <2> QED BY <1>0, <2>1 DEF Fetched
<1>5. CASE AcceptEnds(w) \/ ReadAgain(w)
    <2>1. UNCHANGED <<end, batch, fds, served>> /\ pc[w] \in {"accept", "read"} /\ pc'[w] = "event"
        BY <1>5 DEF AcceptEnds, AcceptEndsWith, ReadAgain, Handled, Goto, browserVars, TypeOK
    <2> QED BY <1>0, <2>1 DEF Fetched
<1>6. CASE ReadRequest(w) \/ Refused(w)
    <2>1. UNCHANGED <<end, batch, at, fds, served>> /\ pc[w] \in {"read", "ask"} /\ pc'[w] \in {"read", "ask"}
        BY <1>6 DEF ReadRequest, Refused, Goto, browserVars, TypeOK
    <2> QED BY <1>0, <2>1 DEF Fetched
<1>7. CASE Respawn(w)
    <2>1. UNCHANGED <<end, batch, at, fds, served>> /\ pc[w] = "dead" /\ pc'[w] = "wait"
        BY <1>7 DEF Respawn, Goto, browserVars, TypeOK
    <2> QED BY <1>0, <2>1 DEF Fetched
<1>8. CASE TakeError(w) \/ ReadDone(w) \/ Answer(w)
    <2>1. /\ UNCHANGED <<end, served>> /\ pc[w] \in {"event", "read", "ask"} /\ pc'[w] = "event"
          /\ batch'[w] \subseteq batch[w]
        <3>1. CASE TakeError(w)
            BY <3>1 DEF TakeError, browserVars, TypeOK
        <3>2. CASE ReadDone(w) \/ Answer(w)
            BY <3>2 DEF ReadDone, Answer, Handled, Goto, browserVars, TypeOK
        <3> QED BY <1>8, <3>1, <3>2
    <2> QED BY <1>0, <2>1 DEF Fetched
<1>9. CASE Gone(w)
    <2>1. UNCHANGED <<end, served>> /\ batch'[w] = {} /\ fds'[w] = NoFds /\ pc'[w] = "dead"
        BY <1>9 DEF Gone, Goto, browserVars, TypeOK
    <2> QED BY <2>1 DEF Fetched
<1> QED BY <1>1, <1>2, <1>3, <1>4, <1>5, <1>6, <1>7, <1>8, <1>9 DEF Step, Serve, Told, Fault, Kill

\* Nobody touches another's batch; a browser that has reset stays so.
LEMMA FetchedStep ==
    ASSUME Base, [Next]_vars
    PROVE  \A w \in Workers : Fetched(w)'
<1> USE Sizes DEF Base
<1>1. ASSUME NEW c \in Conns, Browser(c) PROVE \A w \in Workers : Fetched(w)'
    <2>1. UNCHANGED <<fds, batch, at, pc, served>>
        BY <1>1 DEF Browser, Connect, Send, End
    <2>2. \A d \in Conns : end[d] = "reset" => end'[d] = "reset"
        BY <1>1 DEF Browser, Connect, Send, End, browserVars, TypeOK
    <2>3. \A w \in Workers : \A e \in batch[w] : e.conn = None \/ e.conn \in Conns
        BY DEF TypeOK, Events
    <2>4. ASSUME NEW w \in Workers, NEW e \in batch[w], e.hup PROVE end'[e.conn] = "reset"
        <3>1. e.conn # None
            BY <2>4 DEF Fetched, Knock
        <3> QED BY <2>2, <2>3, <2>4, <3>1 DEF Fetched
    <2> QED BY <2>1, <2>4 DEF Fetched
<1>2. ASSUME NEW w \in Workers, Step(w) \/ Kill(w) PROVE \A v \in Workers : Fetched(v)'
    <2> SUFFICES ASSUME NEW v \in Workers PROVE Fetched(v)'
        OBVIOUS
    <2>1. CASE v = w
        BY <1>2, <2>1, FetchedOwn
    <2>2. CASE v # w
        BY <1>2, <2>2, Others DEF Fetched
    <2> QED BY <2>1, <2>2
<1>3. CASE UNCHANGED vars
    BY <1>3 DEF vars, browserVars, Fetched
<1> QED BY <1>1, <1>2, <1>3 DEF Next

\* What holds of any number of workers is inductive.
LEMMA BaseStep == Base /\ [Next]_vars => Base'
BY Types, ServedStep, ConsistentStep, FetchedStep DEF Base

-----------------------------------------------------------------------------
(* Queued connections. *)

\* The announcement is handed on, from the listening socket to a batch to accept.
LEMMA StrandedStep ==
    ASSUME Base, NoneStranded, [Next]_vars
    PROVE  NoneStranded'
<1> USE Sizes DEF Base
<1> SUFFICES ASSUME NEW d \in Conns, state'[d] = "queued", ~lapsed'
             PROVE  knock' \/ \E w \in Workers : Knock \in batch'[w] \/ pc'[w] = "accept"
    BY DEF NoneStranded
<1>1. ASSUME NEW c \in Conns, Browser(c)
      PROVE  knock' \/ \E w \in Workers : Knock \in batch'[w] \/ pc'[w] = "accept"
    BY <1>1 DEF Browser, Connect, Send, End, NoneStranded
<1>2. ASSUME NEW w \in Workers, Step(w) \/ Kill(w)
      PROVE  knock' \/ \E v \in Workers : Knock \in batch'[v] \/ pc'[v] = "accept"
    <2>1. CASE Closing(w)
        <3>1. /\ TakeError(w) \/ ReadDone(w) \/ Answer(w)
              /\ lapsed' = lapsed /\ knock' = knock
            BY <2>1 DEF Closing, Fault, Kill, Gone, TakeError, ReadDone, Answer
        <3>2. PICK N \in SUBSET Numbers : Closes(w, N)
            BY <3>1, ClosingSteps
        <3>3. state[d] = "queued"
            BY <3>2, ClosedFacts
        <3>4. Knock \in batch[w] => Knock \in batch'[w]
            <4>1. TakeError(w) => \E e \in batch[w] : e.hup /\ batch'[w] = batch[w] \ {e}
                BY DEF TakeError, TypeOK
            <4>2. ~Knock.hup
                BY DEF Knock
            <4>3. ReadDone(w) \/ Answer(w) => batch' = batch
                BY DEF ReadDone, Answer
            <4> QED BY <3>1, <4>1, <4>2, <4>3
        <3>5. pc[w] # "accept"
            BY <3>1 DEF TakeError, ReadDone, Answer
        <3> QED BY <1>2, <3>1, <3>3, <3>4, <3>5, Others DEF NoneStranded
    <2>2. CASE Wait(w)
        <3>1. knock => Knock \in batch'[w]
            BY <2>2 DEF Wait, TypeOK
        <3>2. state[d] = "queued" /\ ~lapsed /\ pc[w] = "wait" /\ batch[w] = {}
            BY <2>2 DEF Wait, Fetched
        <3> QED BY <1>2, <3>1, <3>2, Others DEF NoneStranded
    <2>3. CASE TakeEvent(w)
        <3>1. PICK e \in batch[w] : /\ batch' = [batch EXCEPT ![w] = @ \ {e}]
                                    /\ pc' = [pc EXCEPT ![w] = IF e.fd = ListenFd THEN "accept" ELSE "read"]
            BY <2>3 DEF TakeEvent, Goto
        <3>2. CASE e = Knock
            BY <3>1, <3>2 DEF Knock, TypeOK
        <3>3. CASE e # Knock
            <4>1. Knock \in batch[w] => Knock \in batch'[w]
                BY <3>1, <3>3 DEF TypeOK
            <4>2. state[d] = "queued" /\ ~lapsed /\ knock' = knock /\ pc[w] # "accept"
                BY <2>3 DEF TakeEvent
            <4> QED BY <1>2, <4>1, <4>2, Others DEF NoneStranded
        <3> QED BY <3>2, <3>3
    <2>4. CASE AcceptEnds(w)
        BY <2>4 DEF AcceptEnds, AcceptEndsWith
    <2>5. CASE Accept(w)
        BY <2>5 DEF Accept, AcceptAs
    <2>6. CASE BatchDone(w) \/ ReadRequest(w) \/ ReadAgain(w) \/ Refused(w) \/ Respawn(w)
        <3>1. UNCHANGED <<state, knock, batch, lapsed>> /\ pc[w] # "accept"
            BY <2>6 DEF BatchDone, ReadRequest, ReadAgain, Refused, Respawn
        <3> QED BY <1>2, <3>1, Others DEF NoneStranded
    <2> QED BY <1>2, <2>1, <2>2, <2>3, <2>4, <2>5, <2>6 DEF Step, Serve, Told, Closing
<1>3. CASE UNCHANGED vars
    BY <1>3 DEF vars, NoneStranded
<1> QED BY <1>1, <1>2, <1>3 DEF Next

-----------------------------------------------------------------------------
(* A worker alone. *)

\* Whoever has fetched events is the same.
LEMMA TheOne ==
    ASSUME NEW S, IsFiniteSet(S), Cardinality(S) <= 1, NEW v \in S, NEW w \in S
    PROVE  v = w
<1>1. Cardinality(S) \in Nat
    BY FS_CardinalityType
<1>2. Cardinality(S) = 0 \/ Cardinality(S) = 1
    BY <1>1
<1>3. Cardinality(S) # 0
    BY FS_EmptySet
<1>4. \E x : S = {x}
    BY <1>2, <1>3, FS_Singleton
<1> QED BY <1>4

\* And was before.
LEMMA AloneBefore ==
    ASSUME Base, [Next]_vars, Alone'
    PROVE  Alone
<1>1. IsFiniteSet(served') /\ served \subseteq served'
    BY ServedStep
<1>2. Cardinality(served) <= Cardinality(served') /\ IsFiniteSet(served)
    BY <1>1, FS_Subset
<1>3. Cardinality(served) \in Nat /\ Cardinality(served') \in Nat
    BY <1>1, <1>2, FS_CardinalityType
<1> QED BY <1>2, <1>3 DEF Alone

\* Which has all the connections.
LEMMA ItHasThem ==
    ASSUME Base, NEW w \in Workers, NEW n \in Numbers, fds[w][n] # None
    PROVE  w \in served
BY DEF Base, Fetched, NoFds

\* A batch is handled number by number, and the numbers that wait keep their meaning.
LEMMA MeantStep ==
    ASSUME Base, \A w \in Workers : Meant(w), [Next]_vars, Alone'
    PROVE  \A w \in Workers : Meant(w)'
<1> USE Sizes DEF Base
<1>1. ASSUME NEW c \in Conns, Browser(c) PROVE \A w \in Workers : Meant(w)'
    BY <1>1 DEF Browser, Connect, Send, End, Meant
<1>2. ASSUME NEW w \in Workers, Step(w) \/ Kill(w) PROVE Meant(w)'
    <2>0. Meant(w) /\ Fetched(w)
        OBVIOUS
    <2>1. CASE Wait(w)
        <3>1. /\ batch'[w] = {EventOf(c) : c \in ready} \cup (IF knock THEN {Knock} ELSE {})
              /\ pc'[w] = "event" /\ w \in served' /\ fds' = fds
            BY <2>1 DEF Wait, Goto, TypeOK
        <3>2. ASSUME NEW c \in ready PROVE number[c] \in Numbers /\ fds[w][number[c]] = c
            <4>1. c \in Conns /\ state[c] = "open"
                BY DEF Consistent, TypeOK
            <4>2. PICK v \in Workers : number[c] \in Numbers /\ fds[v][number[c]] = c
                BY <4>1 DEF Consistent
            <4>3. v \in served'
                BY <4>1, <4>2, ItHasThem, ServedStep
            <4>4. v = w
                BY <3>1, <4>3, ServedStep, TheOne DEF Alone
            <4> QED BY <4>2, <4>4
        <3>3. \A c \in ready : EventOf(c).conn = c /\ EventOf(c).fd = number[c]
            BY DEF EventOf
        <3>4. Knock.conn = None /\ Knock.fd = ListenFd
            BY DEF Knock
        <3>5. \A e \in batch'[w] : e.conn # None => fds'[w][e.fd] = e.conn
            BY <3>1, <3>2, <3>3, <3>4
        <3>6. ASSUME NEW e \in batch'[w], NEW f \in batch'[w], e.fd = f.fd PROVE e = f
            <4>1. e = Knock \/ \E c \in ready : e = EventOf(c)
                BY <3>1
            <4>2. f = Knock \/ \E c \in ready : f = EventOf(c)
                BY <3>1
            <4>3. ASSUME NEW c \in ready, NEW d \in ready, EventOf(c).fd = EventOf(d).fd PROVE c = d
                BY <3>2, <3>3, <4>3
            <4>4. \A c \in ready : EventOf(c).fd # Knock.fd
                BY <3>2, <3>3, <3>4
            <4> QED BY <3>6, <4>1, <4>2, <4>3, <4>4
        <3> QED BY <3>1, <3>5, <3>6 DEF Meant
    <2>2. CASE TakeError(w)
        <3>1. PICK e \in batch[w] : /\ e.fd \in Numbers /\ Closes(w, {e.fd})
                                    /\ batch' = [batch EXCEPT ![w] = @ \ {e}]
            BY <2>2, ClosingSteps
        <3>2. batch'[w] = batch[w] \ {e} /\ pc'[w] = "event"
            BY <2>2, <3>1 DEF TakeError, TypeOK
        <3>3. ASSUME NEW f \in batch'[w], f.conn # None PROVE fds'[w][f.fd] = f.conn
            <4>1. f \in batch[w] /\ f.fd # e.fd /\ f \in Events
                BY <2>0, <3>2, <3>3 DEF Meant, TypeOK
            <4>2. f.fd \in Numbers
                BY <2>0, <3>3, <4>1 DEF Fetched, Events
            <4> QED BY <2>0, <3>1, <3>3, <4>1, <4>2, ClosedFacts DEF Meant
        <3> QED BY <2>0, <3>2, <3>3 DEF Meant
    <2>3. CASE TakeEvent(w)
        <3>1. PICK e \in batch[w] : /\ batch' = [batch EXCEPT ![w] = @ \ {e}]
                                    /\ at' = [at EXCEPT ![w] = e]
            BY <2>3 DEF TakeEvent
        <3>2. batch'[w] = batch[w] \ {e} /\ at'[w] = e /\ fds' = fds
            BY <2>3, <3>1 DEF TakeEvent, TypeOK
        <3> QED BY <2>0, <3>2 DEF Meant
    <2>4. CASE Accept(w)
        <3> DEFINE m == Lowest(Free(w))
        <3>1. m \in Numbers /\ fds[w][m] = None
            BY <2>4, LowestFree DEF Accept, AcceptAs
        <3>2. \E c \in Conns : fds' = [fds EXCEPT ![w][m] = c]
            BY <2>4 DEF Accept, AcceptAs
        <3> HIDE DEF m
        <3>3. \A n \in Numbers : n # m => fds'[w][n] = fds[w][n]
            BY <3>1, <3>2 DEF TypeOK
        <3>4. UNCHANGED <<batch, at, pc>> /\ pc[w] = "accept"
            BY <2>4 DEF Accept, AcceptAs
        <3>5. ASSUME NEW e \in batch[w], e.conn # None PROVE fds'[w][e.fd] = e.conn
            <4>1. e.fd \in Numbers
                BY <2>0, <3>5 DEF Fetched, TypeOK, Events
            <4> QED BY <2>0, <3>1, <3>3, <3>5, <4>1 DEF Meant
        <3> QED BY <2>0, <3>4, <3>5 DEF Meant
    <2>5. CASE ReadDone(w) \/ Answer(w)
        <3>1. at[w].fd \in Numbers /\ Closes(w, {at[w].fd})
            BY <2>5, ClosingSteps
        <3>2. batch' = batch /\ pc[w] \in {"read", "ask"} /\ pc'[w] = "event"
            BY <2>5 DEF ReadDone, Answer, Handled, Goto, TypeOK
        <3>3. ASSUME NEW e \in batch[w], e.conn # None PROVE fds'[w][e.fd] = e.conn
            <4>1. e.fd \in Numbers
                BY <2>0, <3>3 DEF Fetched, TypeOK, Events
            <4> QED BY <2>0, <3>1, <3>2, <3>3, <4>1, ClosedFacts DEF Meant
        <3> QED BY <2>0, <3>2, <3>3 DEF Meant
    <2>6. CASE Gone(w)
        BY <2>6 DEF Gone, Goto, TypeOK, Meant
    <2>7. CASE BatchDone(w) \/ AcceptEnds(w) \/ ReadAgain(w) \/ Respawn(w)
        <3>1. UNCHANGED <<batch, fds>> /\ pc'[w] \in {"wait", "event"}
            BY <2>7 DEF BatchDone, AcceptEnds, AcceptEndsWith, ReadAgain, Respawn, Handled, Goto, TypeOK
        <3> QED BY <2>0, <3>1 DEF Meant
    <2>8. CASE ReadRequest(w) \/ Refused(w)
        <3>1. UNCHANGED <<batch, at, fds>> /\ pc[w] \in {"read", "ask"}
            BY <2>8 DEF ReadRequest, Refused
        <3> QED BY <2>0, <3>1 DEF Meant
    <2> QED BY <1>2, <2>1, <2>2, <2>3, <2>4, <2>5, <2>6, <2>7, <2>8 DEF Step, Serve, Told, Fault, Kill
<1>3. ASSUME NEW w \in Workers, Step(w) \/ Kill(w), NEW v \in Workers, v # w PROVE Meant(v)'
    BY <1>3, Others DEF Meant
<1>4. CASE UNCHANGED vars
    BY <1>4 DEF vars, Meant
<1> QED BY <1>1, <1>2, <1>3, <1>4 DEF Next

\* The worker that is to see to a connection's data.
SeesTo(w, c) == /\ fds[w][number[c]] = c
                /\ \/ \E e \in batch[w] : e.conn = c
                   \/ at[w].fd = number[c] /\ pc[w] \in {"read", "ask"}

\* Closing closes a connection or leaves it with whoever sees to it.
LEMMA EdgeCloses ==
    ASSUME Base, EdgeOnItsWay, NEW w \in Workers, Closing(w), NEW N \in SUBSET Numbers, Closes(w, N),
           \A c \in Conns : number[c] \in Numbers \ N /\ SeesTo(w, c) =>
               \/ \E e \in batch'[w] : e.conn = c
               \/ at'[w].fd = number[c] /\ pc'[w] \in {"read", "ask"}
    PROVE  EdgeOnItsWay'
<1> USE Sizes DEF Base
<1> SUFFICES ASSUME NEW c \in unread', state'[c] = "open"
             PROVE  c \in ready' \/ \E v \in Workers : SeesTo(v, c)'
    BY DEF EdgeOnItsWay, SeesTo
<1>1. c \in Conns
    BY ClosedFacts
<1>2. /\ ~\E n \in N : fds[w][n] = c
      /\ c \in unread /\ state[c] = "open" /\ number'[c] = number[c]
      /\ c \in ready' <=> c \in ready
    BY <1>1, ClosedFacts
<1>3. ASSUME NEW v \in Workers, SeesTo(v, c) PROVE SeesTo(v, c)'
    <2>1. number[c] \in Numbers /\ fds[v][number[c]] = c
        BY <1>1, <1>2, <1>3 DEF SeesTo, Consistent
    <2>2. fds'[v][number'[c]] = c
        BY <1>2, <2>1, ClosedFacts
    <2>3. CASE v # w
        <3>1. batch'[v] = batch[v] /\ at'[v] = at[v] /\ pc'[v] = pc[v]
            BY <2>3, Others DEF Step, Serve, Told, Closing
        <3> QED BY <1>2, <1>3, <2>2, <3>1 DEF SeesTo
    <2>4. CASE v = w
        <3>1. number[c] \in Numbers \ N
            BY <1>2, <2>1, <2>4
        <3> QED BY <1>1, <1>2, <1>3, <2>2, <2>4, <3>1 DEF SeesTo
    <2> QED BY <2>3, <2>4
<1> QED BY <1>2, <1>3 DEF EdgeOnItsWay, SeesTo

\* Each way of closing, by what it closes.
LEMMA EdgeClosing ==
    ASSUME Base, EdgeOnItsWay, \A w \in Workers : Meant(w), NEW w \in Workers, Closing(w)
    PROVE  EdgeOnItsWay'
<1> USE Sizes DEF Base
<1>0. Fetched(w) /\ Meant(w)
    OBVIOUS
<1>1. CASE TakeError(w)
    <2>1. PICK e \in batch[w] : /\ e.fd \in Numbers /\ Closes(w, {e.fd})
                                /\ batch' = [batch EXCEPT ![w] = @ \ {e}]
        BY <1>1, ClosingSteps
    <2>2. batch'[w] = batch[w] \ {e} /\ pc[w] = "event"
        BY <1>1, <2>1 DEF TakeError, TypeOK
    <2>3. ASSUME NEW c \in Conns, number[c] \in Numbers \ {e.fd}, SeesTo(w, c)
          PROVE  \E f \in batch'[w] : f.conn = c
        <3>1. PICK f \in batch[w] : f.conn = c
            BY <2>2, <2>3 DEF SeesTo
        <3>2. fds[w][f.fd] = c /\ f.fd \in Numbers
            BY <1>0, <3>1 DEF Meant, Fetched, TypeOK, Events
        <3>3. f # e
            BY <2>3, <3>2 DEF Consistent
        <3> QED BY <2>2, <3>1, <3>3
    <2> QED BY <2>1, <2>3, EdgeCloses
<1>2. CASE ReadDone(w) \/ Answer(w)
    <2>1. at[w].fd \in Numbers /\ Closes(w, {at[w].fd}) /\ batch' = batch
        BY <1>2, ClosingSteps DEF ReadDone, Answer
    <2>2. \A c \in Conns : number[c] \in Numbers \ {at[w].fd} /\ SeesTo(w, c) => \E e \in batch'[w] : e.conn = c
        BY <2>1 DEF SeesTo
    <2> QED BY <2>1, <2>2, EdgeCloses
<1>3. CASE Gone(w)
    <2>1. Closes(w, Numbers)
        BY <1>3, ClosingSteps
    <2> QED BY <2>1, EdgeCloses
<1> QED BY <1>1, <1>2, <1>3 DEF Closing, Fault, Kill

\* It is enough that no edge is lost on the way and no data arrives without one.
LEMMA EdgeKept ==
    ASSUME EdgeOnItsWay, Base,
           \A c \in Conns : state'[c] = "open" =>
               \/ c \in ready' \/ c \notin unread'
               \/ c \in unread /\ state[c] = "open" /\ number'[c] = number[c],
           \A c \in Conns : c \in ready => c \in ready' \/ \E w \in Workers : SeesTo(w, c)',
           \A c \in Conns, w \in Workers :
               c \in unread' /\ state[c] = "open" /\ number'[c] = number[c] /\ SeesTo(w, c) =>
                       c \in ready' \/ \E v \in Workers : SeesTo(v, c)',
           unread' \subseteq Conns
    PROVE  EdgeOnItsWay'
<1> SUFFICES ASSUME NEW c \in unread', state'[c] = "open"
             PROVE  c \in ready' \/ \E v \in Workers : SeesTo(v, c)'
    BY DEF EdgeOnItsWay, SeesTo
<1>0. c \in Conns
    OBVIOUS
<1>1. \/ c \in ready'
      \/ c \in unread /\ state[c] = "open" /\ number'[c] = number[c]
    BY <1>0
<1>2. CASE c \in unread /\ state[c] = "open" /\ number'[c] = number[c]
    <2>1. c \in ready \/ \E w \in Workers : SeesTo(w, c)
        BY <1>2 DEF EdgeOnItsWay, SeesTo
    <2> QED BY <1>2, <2>1
<1> QED BY <1>1, <1>2

\* An edge goes from the ready list to a batch, from there to read, and is read.
LEMMA EdgeStep ==
    ASSUME Base, EdgeOnItsWay, \A w \in Workers : Meant(w), [Next]_vars, Alone'
    PROVE  EdgeOnItsWay'
<1> USE Sizes DEF Base
<1>0. unread' \subseteq Conns
    BY Types DEF TypeOK
<1>1. ASSUME NEW c \in Conns, Browser(c) PROVE EdgeOnItsWay'
    <2>1. UNCHANGED <<fds, number, batch, at, pc>>
        BY <1>1 DEF Browser, Connect, Send, End
    <2>2. ready \subseteq ready'
        BY <1>1 DEF Browser, Connect, Send, End, Raise
    <2>3. ASSUME NEW d \in Conns, state'[d] = "open"
          PROVE  d \in ready' \/ d \notin unread' \/ (d \in unread /\ state[d] = "open")
        <3>1. state[d] = "open"
            BY <1>1, <2>3 DEF Browser, Connect, Send, End, TypeOK
        <3>2. unread' \subseteq unread \cup {c}
            BY <1>1 DEF Browser, Connect, Send, End
        <3>3. Send(c) /\ state[c] = "open" => c \in ready'
            BY DEF Send, Raise
        <3>4. ~Send(c) => unread' \subseteq unread
            BY <1>1 DEF Browser, Connect, End
        <3> QED BY <3>1, <3>2, <3>3, <3>4
    <2>4. \A d \in Conns, w \in Workers : SeesTo(w, d) => SeesTo(w, d)'
        BY <2>1 DEF SeesTo
    <2> QED BY <1>0, <2>1, <2>2, <2>3, <2>4, EdgeKept
<1>2. ASSUME NEW w \in Workers, Closing(w) PROVE EdgeOnItsWay'
    BY <1>2, EdgeClosing
<1>3. ASSUME NEW w \in Workers, Wait(w) PROVE EdgeOnItsWay'
    <2>1. /\ batch'[w] = {EventOf(c) : c \in ready} \cup (IF knock THEN {Knock} ELSE {})
          /\ pc[w] = "wait" /\ batch[w] = {} /\ w \in served'
          /\ UNCHANGED <<state, unread, fds, number, at>>
        BY <1>3 DEF Wait, Fetched, TypeOK
    <2>2. \A v \in served' : v = w
        BY <2>1, ServedStep, TheOne DEF Alone
    <2>3. ASSUME NEW c \in Conns, c \in ready PROVE SeesTo(w, c)'
        <3>1. PICK v \in Workers : number[c] \in Numbers /\ fds[v][number[c]] = c
            BY <2>3 DEF Consistent
        <3>2. v = w
            BY <2>2, <3>1, ItHasThem, ServedStep
        <3>3. EventOf(c) \in batch'[w] /\ EventOf(c).conn = c
            BY <2>1, <2>3 DEF EventOf
        <3> QED BY <2>1, <3>1, <3>2, <3>3 DEF SeesTo
    <2>4. ASSUME NEW c \in Conns, NEW v \in Workers, SeesTo(v, c) PROVE SeesTo(v, c)'
        <3>1. v # w
            BY <2>1, <2>4 DEF SeesTo
        <3> QED BY <1>3, <2>1, <2>4, <3>1, Others DEF SeesTo, Step, Serve, Told
    <2> QED BY <1>0, <2>1, <2>3, <2>4, EdgeKept
<1>4. ASSUME NEW w \in Workers, TakeEvent(w) PROVE EdgeOnItsWay'
    <2>1. PICK e \in batch[w] : /\ batch' = [batch EXCEPT ![w] = @ \ {e}]
                                /\ at' = [at EXCEPT ![w] = e]
                                /\ pc' = [pc EXCEPT ![w] = IF e.fd = ListenFd THEN "accept" ELSE "read"]
        BY <1>4 DEF TakeEvent, Goto
    <2>2. /\ batch'[w] = batch[w] \ {e} /\ at'[w] = e /\ pc[w] = "event"
          /\ pc'[w] = IF e.fd = ListenFd THEN "accept" ELSE "read"
        BY <1>4, <2>1 DEF TakeEvent, TypeOK
    <2>3. UNCHANGED <<state, unread, ready, fds, number>>
        BY <1>4 DEF TakeEvent
    <2>4. ASSUME NEW c \in Conns, SeesTo(w, c) PROVE SeesTo(w, c)'
        <3>1. PICK f \in batch[w] : f.conn = c
            BY <2>2, <2>4 DEF SeesTo
        <3>2. CASE f # e
            BY <2>2, <2>3, <2>4, <3>1, <3>2 DEF SeesTo
        <3>3. CASE f = e
            <4>1. fds[w][e.fd] = c /\ e.fd \in Numbers
                BY <3>1, <3>3 DEF Meant, Fetched, TypeOK, Events
            <4>2. number[c] = e.fd /\ e.fd # ListenFd
                BY <4>1 DEF Consistent
            <4> QED BY <2>2, <2>3, <4>1, <4>2 DEF SeesTo
        <3> QED BY <3>2, <3>3
    <2>5. ASSUME NEW c \in Conns, NEW v \in Workers, SeesTo(v, c) PROVE SeesTo(v, c)'
        <3>1. CASE v # w
            BY <1>4, <2>3, <2>5, <3>1, Others DEF SeesTo, Step, Serve, Told
        <3> QED BY <2>4, <2>5, <3>1
    <2> QED BY <1>0, <2>3, <2>5, EdgeKept
<1>5. ASSUME NEW w \in Workers, Accept(w) PROVE EdgeOnItsWay'
    <2> DEFINE m == Lowest(Free(w))
    <2>1. m \in Numbers /\ fds[w][m] = None
        BY <1>5, LowestFree DEF Accept, AcceptAs
    <2>2. PICK c \in Conns : /\ state' = [state EXCEPT ![c] = "open"]
                             /\ fds' = [fds EXCEPT ![w][m] = c]
                             /\ number' = [number EXCEPT ![c] = m]
                             /\ ready' = IF c \in unread \/ end[c] # "up" THEN ready \cup {c} ELSE ready
        BY <1>5 DEF Accept, AcceptAs
    <2> HIDE DEF m
    <2>3. UNCHANGED <<unread, batch, at, pc>>
        BY <1>5 DEF Accept, AcceptAs
    <2>4. \A d \in Conns : d # c => state'[d] = state[d] /\ number'[d] = number[d]
        BY <2>2 DEF TypeOK
    <2>5. \A v \in Workers, n \in Numbers : fds[v][n] # None => fds'[v][n] = fds[v][n]
        BY <2>1, <2>2 DEF TypeOK
    <2>6. ASSUME NEW d \in Conns, NEW v \in Workers, d \in unread, state[d] = "open", SeesTo(v, d)
          PROVE  d \in ready' \/ SeesTo(v, d)'
        <3>1. CASE d = c
            BY <2>2, <2>6, <3>1
        <3>2. CASE d # c
            <4>1. number[d] \in Numbers
                BY <2>6 DEF Consistent
            <4>2. fds'[v][number'[d]] = d
                BY <2>4, <2>5, <2>6, <3>2, <4>1 DEF SeesTo
            <4> QED BY <2>3, <2>4, <2>6, <3>2, <4>2 DEF SeesTo
        <3> QED BY <3>1, <3>2
    <2> QED BY <1>0, <2>2, <2>3, <2>4, <2>6, EdgeKept
<1>6. ASSUME NEW w \in Workers, AcceptEnds(w) \/ BatchDone(w) \/ Respawn(w) \/ Refused(w) PROVE EdgeOnItsWay'
    <2>1. UNCHANGED <<state, unread, ready, fds, number, batch>>
        BY <1>6 DEF AcceptEnds, AcceptEndsWith, BatchDone, Respawn, Refused, TypeOK
    <2>2. \/ pc[w] \notin {"read", "ask"}
          \/ at' = at /\ pc[w] \in {"read", "ask"} /\ pc'[w] \in {"read", "ask"}
        BY <1>6 DEF AcceptEnds, AcceptEndsWith, BatchDone, Respawn, Refused, Goto, TypeOK
    <2>3. ASSUME NEW c \in Conns, NEW v \in Workers, SeesTo(v, c) PROVE SeesTo(v, c)'
        <3>1. CASE v # w
            BY <1>6, <2>1, <2>3, <3>1, Others DEF SeesTo, Step, Serve, Told
        <3>2. CASE v = w
            BY <2>1, <2>2, <2>3, <3>2 DEF SeesTo
        <3> QED BY <3>1, <3>2
    <2> QED BY <1>0, <2>1, <2>3, EdgeKept
<1>7. ASSUME NEW w \in Workers, ReadRequest(w) \/ ReadAgain(w) PROVE EdgeOnItsWay'
    <2>1. UNCHANGED <<state, ready, fds, number, batch>> /\ unread' \subseteq unread /\ Got(w) \notin unread'
        BY <1>7 DEF ReadRequest, ReadAgain
    <2>2. ASSUME NEW c \in Conns, c \in unread', SeesTo(w, c) PROVE SeesTo(w, c)'
        <3>1. at[w].fd # number[c]
            BY <2>1, <2>2 DEF SeesTo, Got
        <3> QED BY <2>1, <2>2, <3>1 DEF SeesTo
    <2>3. ASSUME NEW c \in Conns, NEW v \in Workers, c \in unread', SeesTo(v, c) PROVE SeesTo(v, c)'
        <3>1. CASE v # w
            BY <1>7, <2>1, <2>3, <3>1, Others DEF SeesTo, Step, Serve, Told
        <3> QED BY <2>2, <2>3, <3>1
    <2> QED BY <1>0, <2>1, <2>3, EdgeKept
<1>8. CASE UNCHANGED vars
    BY <1>8 DEF vars, EdgeOnItsWay
<1> QED BY <1>1, <1>2, <1>3, <1>4, <1>5, <1>6, <1>7, <1>8 DEF Next, Step, Serve, Told, Closing

-----------------------------------------------------------------------------
\* The inductive invariant.
LEMMA EventsInvariant == Spec => []EventsInv
<1>1. Init => EventsInv
    BY InitEvents
<1>2. EventsInv /\ [Next]_vars => EventsInv'
    <2> SUFFICES ASSUME EventsInv, [Next]_vars PROVE EventsInv'
        OBVIOUS
    <2>1. Base'
        BY BaseStep DEF EventsInv
    <2>2. NoneStranded'
        BY StrandedStep DEF EventsInv
    <2>3. ASSUME Alone' PROVE EdgeOnItsWay' /\ \A w \in Workers : Meant(w)'
        <3>1. Alone
            BY <2>3, AloneBefore DEF EventsInv
        <3>2. Base /\ EdgeOnItsWay /\ \A w \in Workers : Meant(w)
            BY <3>1 DEF EventsInv, Undisturbed
        <3> QED BY <2>3, <3>2, EdgeStep, MeantStep
    <2> QED BY <2>1, <2>2, <2>3 DEF EventsInv, Undisturbed
<1> QED BY <1>1, <1>2, PTL DEF Spec

\* For any number of workers and descriptors: an open connection is one descriptor
\* of one worker, registered under its number, although workers close whatever is
\* under a number of their own; a closed one is registered nowhere (EpollServerRun:
\* accept, epoll_ctl, close, and the end of a process).
THEOREM DescriptorsAgree == Spec => []OneDescriptor
<1>1. EventsInv => OneDescriptor
    BY OneEach DEF EventsInv, Base
<1> QED BY <1>1, EventsInvariant, PTL

\* For any number of workers: while no batch is lost and no accept fails, a queued
\* connection is announced, or a worker is at the listening socket.
THEOREM Announced == Spec => []NoneStranded
<1>1. EventsInv => NoneStranded
    BY DEF EventsInv
<1> QED BY <1>1, EventsInvariant, PTL

\* For any number of connections: a worker alone on the epoll instance, and those
\* forked in its place, lose no edge of a connection with unread data.
THEOREM EdgesKept == Spec => []NoEdgeLost
<1>1. EventsInv => NoEdgeLost
    BY DEF EventsInv, Undisturbed, NoEdgeLost
<1> QED BY <1>1, EventsInvariant, PTL

\* What a worker alone closes, its browser has ended or was answered.
LEMMA ClosesOwn ==
    ASSUME EventsInv, [Next]_vars, Alone', NEW w \in Workers, NEW n \in Numbers,
           fds[w][n] # fds'[w][n], fds[w][n] # None, pc'[w] # "dead"
    PROVE  pc[w] = "ask" \/ end[fds[w][n]] # "up"
<1> USE Sizes DEF EventsInv, Base
<1>0. Alone /\ Meant(w) /\ Fetched(w)
    BY AloneBefore DEF Undisturbed
<1>1. ASSUME NEW c \in Conns, Browser(c) PROVE FALSE
    BY <1>1 DEF Browser, Connect, Send, End
<1>2. ASSUME NEW v \in Workers, Step(v) \/ Kill(v), v # w PROVE FALSE
    BY <1>2, Others
<1>3. CASE Step(w) \/ Kill(w)
    <2>1. CASE TakeError(w)
        <3>1. PICK e \in batch[w] : /\ e.hup /\ e.fd \in Numbers /\ Closes(w, {e.fd})
            BY <2>1, ClosingSteps
        <3>2. n = e.fd
            BY <3>1, ClosedFacts
        <3>3. e.conn # None /\ fds[w][n] = e.conn /\ end[e.conn] = "reset"
            BY <1>0, <3>1, <3>2 DEF Fetched, Meant, Knock
        <3> QED BY <3>3
    <2>2. CASE ReadDone(w)
        <3>1. at[w].fd \in Numbers /\ Closes(w, {at[w].fd})
            BY <2>2, ClosingSteps
        <3>2. n = at[w].fd
            BY <3>1, ClosedFacts
        <3> QED BY <2>2, <3>2 DEF ReadDone, Got, Over
    <2>3. CASE Answer(w)
        BY <2>3 DEF Answer
    <2>4. CASE Gone(w)
        BY <2>4 DEF Gone, Goto, TypeOK
    <2>5. CASE Accept(w)
        <3> DEFINE m == Lowest(Free(w))
        <3>1. m \in Numbers /\ fds[w][m] = None
            BY <2>5, LowestFree DEF Accept, AcceptAs
        <3>2. \E c \in Conns : fds' = [fds EXCEPT ![w][m] = c]
            BY <2>5 DEF Accept, AcceptAs
        <3> HIDE DEF m
        <3> QED BY <3>1, <3>2 DEF TypeOK
    <2>6. CASE \/ Wait(w) \/ TakeEvent(w) \/ BatchDone(w) \/ AcceptEnds(w)
               \/ ReadRequest(w) \/ ReadAgain(w) \/ Refused(w) \/ Respawn(w)
        BY <2>6 DEF Wait, TakeEvent, BatchDone, AcceptEnds, AcceptEndsWith, ReadRequest, ReadAgain,
                    Refused, Respawn
    <2> QED BY <1>3, <2>1, <2>2, <2>3, <2>4, <2>5, <2>6 DEF Step, Serve, Told, Fault, Kill
<1>4. CASE UNCHANGED vars
    BY <1>4 DEF vars
<1> QED BY <1>1, <1>2, <1>3, <1>4 DEF Next

\* For any number of connections: a worker alone closes a connection only when its
\* browser has ended it or has just been answered, never by a number that has come
\* to mean another (EpollServerRun's closes of events[i].data.fd).
THEOREM ClosesNoOther == Spec => NeverCutOff
<1>1. ASSUME EventsInv, [Next]_vars
      PROVE  [\A w \in Workers, n \in Numbers :
                  Alone' /\ fds[w][n] # fds'[w][n] /\ fds[w][n] # None /\ pc'[w] # "dead"
                      => pc[w] = "ask" \/ end[fds[w][n]] # "up"]_vars
    BY <1>1, ClosesOwn
<1> QED BY <1>1, EventsInvariant, PTL DEF Spec, NeverCutOff
=============================================================================
