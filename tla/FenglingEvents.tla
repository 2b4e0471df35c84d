--------------------------- MODULE FenglingEvents ---------------------------
(***************************************************************************)
(* The event loop of the server's workers (EpollServerRun).  The listening *)
(* socket and the epoll instance are made before the workers are forked    *)
(* and belong to all of them; descriptor numbers do not.  epoll is         *)
(* edge-triggered and hands an event to one worker, any of them; all it    *)
(* says is a number, which the worker uses in its own descriptor table.    *)
(***************************************************************************)
EXTENDS Integers, FiniteSets

CONSTANTS Conns,        \* browsers' connections
          Workers,
          MaxFd,        \* descriptors a worker can have for connections
          Outcomes,     \* what may come of a request put to a tunnel
          Endings,      \* how a browser may end its connection
          MaxRequests,  \* bound: requests on a connection
          MaxKills      \* bound: workers killed from outside

None == "none"

ASSUME ConnAssumption == None \notin Conns
ASSUME FdAssumption == MaxFd \in Nat \ {0}
ASSUME OutcomeAssumption == Outcomes \subseteq {"answer", "refused", "fault"}
ASSUME EndingAssumption == Endings \subseteq {"shut", "reset"}
ASSUME BoundAssumption == MaxRequests \in Nat /\ MaxKills \in Nat

VARIABLES
    state,      \* of a connection: new, queued (at the listening socket), open, closed
    end,        \* the browser's side: up, shut (FIN sent), reset
    sent,       \* requests the browser has sent
    unread,     \* connections with data not read yet
    ready,      \* epoll's ready list: connections
    knock,      \* the listening socket is on it
    fds,        \* fds[w][n]: what worker w's descriptor n is
    number,     \* the descriptor number a connection is registered under, 0 if not
    batch,      \* the events a worker has fetched and not handled
    at,         \* the event it is handling
    pc,         \* wait (epoll_wait), event, accept, read, ask; dead
    kills,
    lapsed,     \* history: a batch was lost, or an accept failed
    served      \* history: the workers that have fetched events

browserVars == <<end, sent>>
vars == <<state, browserVars, unread, ready, knock, fds, number, batch, at, pc, kills, lapsed, served>>

-----------------------------------------------------------------------------
Numbers == 1 .. MaxFd
ListenFd == 0
NoFds == [n \in Numbers |-> None]
Free(w) == {n \in Numbers : fds[w][n] = None}
Lowest(N) == CHOOSE n \in N : \A m \in N : n <= m

\* An event as the worker sees it, a number and whether it is an error, with the
\* connection it is about, which the worker does not see.
Events == [conn : Conns \cup {None}, fd : {ListenFd} \cup Numbers, hup : BOOLEAN]
NoEvent == [conn |-> None, fd |-> ListenFd, hup |-> TRUE]
Knock == [conn |-> None, fd |-> ListenFd, hup |-> FALSE]
EventOf(c) == [conn |-> c, fd |-> number[c], hup |-> end[c] = "reset"]

Init == /\ state = [c \in Conns |-> "new"]
        /\ end = [c \in Conns |-> "up"]
        /\ sent = [c \in Conns |-> 0]
        /\ unread = {} /\ ready = {} /\ knock = FALSE
        /\ fds = [w \in Workers |-> NoFds]
        /\ number = [c \in Conns |-> 0]
        /\ batch = [w \in Workers |-> {}]
        /\ at = [w \in Workers |-> NoEvent]
        /\ pc = [w \in Workers |-> "wait"]
        /\ kills = 0 /\ lapsed = FALSE /\ served = {}

\* The edge of a registered connection.
Raise(c) == ready' = IF state[c] = "open" THEN ready \cup {c} ELSE ready

\* Connections whose last descriptor is closed leave the epoll instance.
CloseConns(C) == /\ state' = [c \in Conns |-> IF c \in C THEN "closed" ELSE state[c]]
                 /\ number' = [c \in Conns |-> IF c \in C THEN 0 ELSE number[c]]
                 /\ unread' = unread \ C
                 /\ ready' = ready \ C

Goto(w, label) == pc' = [pc EXCEPT ![w] = label]

\* close(events[i].data.fd): whatever the number is in this worker, or nothing.
CloseFd(w) == /\ fds' = [fds EXCEPT ![w][at[w].fd] = None]
              /\ CloseConns({fds[w][at[w].fd]} \ {None})

-----------------------------------------------------------------------------
(* The browsers. *)

Connect(c) == /\ state[c] = "new"
              /\ state' = [state EXCEPT ![c] = "queued"]
              /\ knock' = TRUE
              /\ UNCHANGED <<browserVars, unread, ready, fds, number, batch, at, pc, kills, lapsed, served>>

Send(c) == /\ state[c] \in {"queued", "open"} /\ end[c] = "up" /\ sent[c] < MaxRequests
           /\ sent' = [sent EXCEPT ![c] = @ + 1]
           /\ unread' = unread \cup {c}
           /\ Raise(c)
           /\ UNCHANGED <<state, end, knock, fds, number, batch, at, pc, kills, lapsed, served>>

End(c) == /\ state[c] \in {"queued", "open"} /\ end[c] = "up"
          /\ \E e \in Endings : /\ end' = [end EXCEPT ![c] = e]
                                /\ unread' = IF e = "reset" THEN unread \ {c} ELSE unread
          /\ Raise(c)
          /\ UNCHANGED <<state, sent, knock, fds, number, batch, at, pc, kills, lapsed, served>>

-----------------------------------------------------------------------------
(* A worker. *)

\* epoll_wait: all that is ready, and it is ready no more.
Wait(w) == /\ pc[w] = "wait"
           /\ knock \/ ready # {}
           /\ batch' = [batch EXCEPT ![w] = {EventOf(c) : c \in ready} \cup
                                            (IF knock THEN {Knock} ELSE {})]
           /\ ready' = {} /\ knock' = FALSE
           /\ served' = served \cup {w}
           /\ Goto(w, "event")
           /\ UNCHANGED <<state, browserVars, unread, fds, number, at, kills, lapsed>>

\* The next event of the batch; an error has its number closed at once.
TakeError(w) ==
    /\ pc[w] = "event"
    /\ \E e \in batch[w] :
           /\ e.hup
           /\ batch' = [batch EXCEPT ![w] = @ \ {e}]
           /\ fds' = [fds EXCEPT ![w][e.fd] = None]
           /\ CloseConns({fds[w][e.fd]} \ {None})
    /\ UNCHANGED <<browserVars, knock, at, pc, kills, lapsed, served>>

TakeEvent(w) ==
    /\ pc[w] = "event"
    /\ \E e \in batch[w] :
           /\ ~e.hup
           /\ batch' = [batch EXCEPT ![w] = @ \ {e}]
           /\ at' = [at EXCEPT ![w] = e]
           /\ Goto(w, IF e.fd = ListenFd THEN "accept" ELSE "read")
    /\ UNCHANGED <<state, browserVars, unread, ready, knock, fds, number, kills, lapsed, served>>

BatchDone(w) == /\ pc[w] = "event" /\ batch[w] = {}
                /\ Goto(w, "wait")
                /\ UNCHANGED <<state, browserVars, unread, ready, knock, fds, number, batch, at, kills, lapsed, served>>

\* The event at hand is done with.
Handled(w) == at' = [at EXCEPT ![w] = NoEvent] /\ Goto(w, "event")

\* A connection of the queue gets descriptor n, and is registered under number r.
AcceptAs(w, n, r) ==
    /\ pc[w] = "accept" /\ Free(w) # {}
    /\ \E c \in Conns :
           /\ state[c] = "queued"
           /\ state' = [state EXCEPT ![c] = "open"]
           /\ fds' = [fds EXCEPT ![w][n] = c]
           /\ number' = [number EXCEPT ![c] = r]
           /\ ready' = IF c \in unread \/ end[c] # "up" THEN ready \cup {c} ELSE ready
    /\ UNCHANGED <<browserVars, unread, knock, batch, kills, lapsed, served>>

\* (mutants) one connection for each event; the last number registered
AcceptOne(w) == AcceptAs(w, Lowest(Free(w)), Lowest(Free(w))) /\ Handled(w)
AcceptMisnamed(w) == AcceptAs(w, Lowest(Free(w)), MaxFd) /\ UNCHANGED <<at, pc>>

\* accept, and epoll_ctl: what has arrived by then is an edge too.
Accept(w) == AcceptAs(w, Lowest(Free(w)), Lowest(Free(w))) /\ UNCHANGED <<at, pc>>

AcceptEndsWith(w, events) ==
    /\ pc[w] = "accept" /\ Handled(w)
    /\ batch' = [batch EXCEPT ![w] = events]
    /\ lapsed' = (lapsed \/ \E c \in Conns : state[c] = "queued")
    /\ UNCHANGED <<state, browserVars, unread, ready, knock, fds, number, kills, served>>

\* (mutant) break for continue: the rest of the batch is left
AcceptEndsBatch(w) == AcceptEndsWith(w, {})

\* accept returns -1: nothing is queued, or a connection was aborted, or there is
\* no descriptor left.  All of them end the loop.
AcceptEnds(w) == AcceptEndsWith(w, batch[w])

Got(w) == fds[w][at[w].fd]

ReadRequest(w) == /\ pc[w] = "read" /\ Got(w) # None /\ end[Got(w)] # "reset"
                  /\ Got(w) \in unread
                  /\ unread' = unread \ {Got(w)}
                  /\ Goto(w, "ask")
                  /\ UNCHANGED <<state, browserVars, ready, knock, fds, number, batch, at, kills, lapsed, served>>

\* (mutant) EAGAIN taken for an error
ReadAgainCloses(w) ==
    /\ pc[w] = "read" /\ Got(w) # None /\ end[Got(w)] = "up"
    /\ Got(w) \notin unread
    /\ CloseFd(w)
    /\ Handled(w)
    /\ UNCHANGED <<browserVars, knock, batch, kills, lapsed, served>>

\* EAGAIN.
ReadAgain(w) == /\ pc[w] = "read" /\ Got(w) # None /\ end[Got(w)] = "up"
                /\ Got(w) \notin unread
                /\ Handled(w)
                /\ UNCHANGED <<state, browserVars, unread, ready, knock, fds, number, batch, kills, lapsed, served>>

Over(c) == end[c] = "reset" \/ (end[c] = "shut" /\ c \notin unread)

\* read returns 0, or an error other than EAGAIN, EBADF among them: done.
ReadDone(w) == /\ pc[w] = "read"
               /\ \/ Got(w) = None
                  \/ Got(w) # None /\ Over(Got(w))
               /\ CloseFd(w)
               /\ Handled(w)
               /\ UNCHANGED <<browserVars, knock, batch, kills, lapsed, served>>

\* The tunnel's answer is written to the browser, and the number closed.
Answer(w) == /\ pc[w] = "ask" /\ "answer" \in Outcomes
             /\ end[Got(w)] # "reset"
             /\ CloseFd(w)
             /\ Handled(w)
             /\ UNCHANGED <<browserVars, knock, batch, kills, lapsed, served>>

\* What the tunnel returns is no frame, or one too long: continue, that is, read.
Refused(w) == /\ pc[w] = "ask" /\ "refused" \in Outcomes
              /\ Goto(w, "read")
              /\ UNCHANGED <<state, browserVars, unread, ready, knock, fds, number, batch, at, kills, lapsed, served>>

\* The process ends: its connections are closed, its batch is lost.
Gone(w) == /\ CloseConns({fds[w][n] : n \in Numbers} \ {None})
           /\ fds' = [fds EXCEPT ![w] = NoFds]
           /\ batch' = [batch EXCEPT ![w] = {}]
           /\ at' = [at EXCEPT ![w] = NoEvent]
           /\ Goto(w, "dead")
           /\ lapsed' = TRUE
           /\ UNCHANGED <<browserVars, knock, served>>

\* parseHtmlHead, or the use of the handle or of retMsg, a pointer nothing sets,
\* faults; or the write fails: abort.
Fault(w) == /\ pc[w] = "ask"
            /\ "fault" \in Outcomes \/ (end[Got(w)] = "reset" /\ "answer" \in Outcomes)
            /\ Gone(w) /\ UNCHANGED kills

Kill(w) == /\ pc[w] # "dead" /\ kills < MaxKills
           /\ kills' = kills + 1
           /\ Gone(w)

\* The master forks another, with the listening socket and the epoll instance.
Respawn(w) == /\ pc[w] = "dead"
              /\ Goto(w, "wait")
              /\ UNCHANGED <<state, browserVars, unread, ready, knock, fds, number, batch, at, kills, lapsed, served>>

-----------------------------------------------------------------------------
Browser(c) == Connect(c) \/ Send(c) \/ End(c)

\* What the worker does by itself, and what needs the tunnel to answer.
Serve(w) == \/ Wait(w) \/ TakeError(w) \/ TakeEvent(w) \/ BatchDone(w)
            \/ Accept(w) \/ AcceptEnds(w)
            \/ ReadRequest(w) \/ ReadAgain(w) \/ ReadDone(w)
            \/ Respawn(w)
Told(w) == Answer(w) \/ Refused(w) \/ Fault(w)

Step(w) == Serve(w) \/ Told(w)

Next == (\E c \in Conns : Browser(c)) \/ (\E w \in Workers : Step(w) \/ Kill(w))

Spec == Init /\ [][Next]_vars

\* The kernel schedules every worker; browsers need do nothing, and neither need a
\* tunnel: SSL_write and SSL_read have no timeout, and a worker may stay at "ask".
FairSpec == Spec /\ \A w \in Workers : WF_vars(Serve(w))

-----------------------------------------------------------------------------
TypeOK ==
    /\ state \in [Conns -> {"new", "queued", "open", "closed"}]
    /\ end \in [Conns -> {"up", "shut", "reset"}]
    /\ sent \in [Conns -> 0 .. MaxRequests]
    /\ unread \subseteq Conns /\ ready \subseteq Conns /\ knock \in BOOLEAN
    /\ fds \in [Workers -> [Numbers -> Conns \cup {None}]]
    /\ number \in [Conns -> 0 .. MaxFd]
    /\ batch \in [Workers -> SUBSET Events] /\ at \in [Workers -> Events]
    /\ pc \in [Workers -> {"wait", "event", "accept", "read", "ask", "dead"}]
    /\ kills \in 0 .. MaxKills /\ lapsed \in BOOLEAN
    /\ \A w \in Workers : pc[w] = "ask" => Got(w) # None

\* The types of the state, and: an open connection is one descriptor of one
\* worker, and registered with epoll under that number; a closed one is
\* registered nowhere, whoever closed it.
OneDescriptor ==
    /\ TypeOK
    /\ \A c \in Conns :
           LET held == {h \in Workers \X Numbers : fds[h[1]][h[2]] = c} IN
           IF state[c] = "open" THEN \E w \in Workers : held = {<<w, number[c]>>}
           ELSE held = {} /\ number[c] = 0 /\ c \notin ready

\* The listening socket is edge-triggered: a queued connection nobody is about to
\* accept stays where it is.  While no batch is lost and no accept fails, the loop
\* until EAGAIN leaves none, with any number of workers racing for them.
NoneStranded ==
    (\E c \in Conns : state[c] = "queued") /\ ~lapsed =>
        knock \/ \E w \in Workers : Knock \in batch[w] \/ pc[w] = "accept"

\* What EpollServerRun's comment on reading says (fenglingEpoll.c: all the data
\* there is must be read, there will be no second notification): unread data of
\* an open connection is on its way to the worker that has the connection, on the
\* ready list, in its batch, or being read.
EdgeOnItsWay ==
    \A c \in unread : state[c] = "open" =>
        \/ c \in ready
        \/ \E w \in Workers : /\ fds[w][number[c]] = c
                              /\ \/ \E e \in batch[w] : e.conn = c
                                 \/ at[w].fd = number[c] /\ pc[w] \in {"read", "ask"}

\* As long as one worker, and those forked in its place, fetch all events.
Alone == Cardinality(served) <= 1

\* A worker alone on the epoll instance loses no edge, whatever it closes, accepts
\* and refuses in between, and although it is killed.
NoEdgeLost == Alone => EdgeOnItsWay

\* A worker alone closes a connection only when its browser has ended it or has
\* just been answered: never one that an event of a connection closed before, by
\* the number they share, is mistaken for.
NeverCutOff ==
    [][\A w \in Workers, n \in Numbers :
           Alone' /\ fds[w][n] # fds'[w][n] /\ fds[w][n] # None /\ pc'[w] # "dead"
               => pc[w] = "ask" \/ end[fds[w][n]] # "up"]_vars

\* Every request is read, or its connection ends, as long as one worker fetches
\* all events, no batch is lost, no accept fails, and no tunnel keeps a worker in
\* SSL_write or SSL_read for ever: one that does stops everything behind it.
RequestsRead ==
    (\A w \in Workers : []<>(pc[w] # "ask")) =>
        \A c \in Conns : c \in unread ~> c \notin unread \/ lapsed \/ ~Alone
=============================================================================
