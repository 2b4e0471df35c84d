--------------------------- MODULE FenglingLocal ---------------------------
(***************************************************************************)
(* gotoClient (fenglingEpoll.c): a request put to the web server on the    *)
(* client's own machine, over a new connection, with an edge-triggered     *)
(* epoll of its own, call after call in one tunnel process.  An edge       *)
(* reports all that holds of the socket at that moment, and it is writable *)
(* nearly always; so the edge that brings the answer is first taken as     *)
(* leave to send the request, and so is the one that a write which found   *)
(* the socket full brings when there is room again.                        *)
(***************************************************************************)
EXTENDS Integers, Sequences

CONSTANTS Totals,       \* the lengths of the server's answers
          MaxShort      \* bound: a call's writes that take less than all, or nothing

VARIABLES
    pc,         \* idle, connect, getchar, wait (epoll_wait), send, recv, done
    length,     \* strlen(msg)
    edge,       \* epoll has the socket on its ready list
    nospace,    \* a write has found the socket full: room will be an edge
    EPOLLIN,    \* the event being handled has EPOLLIN
    nsend, n,   \* of the sending loop
    sends,      \* sendings of this call that have begun (history)
    reply,      \* units in the buffer that is returned; Failed for "-1"
    got,        \* the units of the request the server has received
    rest,       \* units of the answer the server has not sent
    avail,      \* units of it in the socket
    fin,        \* the server has closed the connection
    short,      \* writes of this call that took less than all
    odd,        \* a third write, or one after EAGAIN, in one sending (history)
    efds,       \* epoll descriptors the process has open
    cut         \* sendings the server's close has cut off (history)

sending == <<nsend, n, nospace, sends, got, short, odd>>
server == <<rest, avail, fin>>
epolls == <<efds, cut>>
vars == <<pc, length, edge, EPOLLIN, sending, reply, server, epolls>>

Failed == -1

\* The length of what is returned: the answer's, or that of the string "-1".
ReplyLength == IF reply = Failed THEN 2 ELSE reply

-----------------------------------------------------------------------------
Init == /\ pc = "idle" /\ length = 0 /\ edge = FALSE /\ EPOLLIN = FALSE
        /\ nsend = 0 /\ n = 0 /\ nospace = FALSE /\ sends = 0 /\ got = <<>> /\ short = 0 /\ odd = FALSE
        /\ reply = 0
        /\ rest = 0 /\ avail = 0 /\ fin = FALSE
        /\ efds = 0 /\ cut = 0

\* gotoClient(msg) is called; the server will have an answer of some length.
Call(len) == /\ pc = "idle"
             /\ pc' = "connect" /\ length' = len
             /\ rest' \in Totals
             /\ UNCHANGED <<edge, EPOLLIN, sending, reply, avail, fin, epolls>>

\* No port, no socket, no address, or nobody listens.
ConnectFails == /\ pc = "connect"
                /\ pc' = "done" /\ reply' = Failed
                /\ UNCHANGED <<length, edge, EPOLLIN, sending, server, epolls>>

\* The socket is writable when it is added to epoll: an edge.
Connect == /\ pc = "connect"
           /\ pc' = "getchar" /\ edge' = TRUE /\ efds' = efds + 1
           /\ UNCHANGED <<length, EPOLLIN, sending, reply, server, cut>>

\* A character is read from the standard input, or its end, or an error.
Getchar == /\ pc = "getchar"
           /\ pc' = "wait"
           /\ UNCHANGED <<length, edge, EPOLLIN, sending, reply, server, epolls>>

\* epoll_wait returns: EPOLLOUT, unless the socket is full, and EPOLLIN if there
\* is something to read.
Wake == /\ pc = "wait" /\ edge
        /\ edge' = FALSE
        /\ EPOLLIN' = (avail > 0 \/ fin)
        /\ \/ pc' = "send" /\ n' = length /\ nsend' = 0 /\ sends' = sends + 1
           \/ EPOLLIN' /\ pc' = "recv" /\ UNCHANGED <<n, nsend, sends>>
        /\ UNCHANGED <<length, nospace, got, short, odd, reply, server, epolls>>

WriteFrom(start, k) ==
    /\ pc = "send" /\ n > 0
    /\ k < n => short < MaxShort
    /\ got' = got \o [i \in 1 .. k |-> start + i]
    /\ nsend' = k /\ n' = n - k
    /\ short' = IF k < n THEN short + 1 ELSE short
    /\ nospace' = (nospace \/ k < n)
    /\ odd' = (odd \/ nsend = -1 \/ (nsend > 0 /\ n + nsend # length))
    /\ UNCHANGED <<pc, length, edge, EPOLLIN, sends, reply, server, epolls>>

\* (mutant) always from the front of the buffer
WriteFromFront(k) == WriteFrom(0, k)

\* write(fd, buffer + nsend, n) takes k units, from where the last write's count
\* says, not from the sum of the counts.
Write(k) == WriteFrom(nsend, k)

\* EAGAIN: n -= -1.
WriteAgain == /\ pc = "send" /\ n > 0 /\ short < MaxShort
              /\ nsend' = -1 /\ n' = n + 1
              /\ short' = short + 1 /\ odd' = TRUE /\ nospace' = TRUE
              /\ UNCHANGED <<pc, length, edge, EPOLLIN, sends, got, reply, server, epolls>>

\* The server has closed: "-1", and epoll's own descriptor stays open.
WriteFails == /\ pc = "send" /\ n > 0 /\ fin
              /\ pc' = "done" /\ reply' = Failed /\ cut' = cut + 1
              /\ UNCHANGED <<length, edge, EPOLLIN, sending, server, efds>>

SentTo(next) == /\ pc = "send" /\ n = 0
                /\ pc' = next
                /\ UNCHANGED <<length, edge, EPOLLIN, sending, reply, server, epolls>>

\* (mutant) the read tried whatever the event
SentThenRead == SentTo("recv")

Sent == SentTo(IF EPOLLIN THEN "recv" ELSE "wait")

\* Each read may put as much as the buffer holds behind what is in it: answers that
\* overflow it are excluded, by the composition's ReplyAssumption.
Read == /\ pc = "recv" /\ avail > 0
        /\ reply' = reply + avail /\ avail' = 0
        /\ UNCHANGED <<pc, length, edge, EPOLLIN, sending, rest, fin, epolls>>

ReadStops(next, open) == /\ pc = "recv" /\ avail = 0
                         /\ pc' = next /\ efds' = open
                         /\ UNCHANGED <<length, edge, EPOLLIN, sending, reply, server, cut>>

\* (mutants) read to the end of the file; close(efd) forgotten
ReadToEnd == ReadStops(IF fin THEN "done" ELSE "wait", IF fin THEN efds - 1 ELSE efds)
ReadEndsOpen == ReadStops("done", efds)

\* EAGAIN or the end of the file: loop = 1, whether there is more to come or not.
ReadEnds == ReadStops("done", efds - 1)

\* The call returns; its socket is closed, and with it the connection.
Return == /\ pc = "done"
          /\ pc' = "idle" /\ length' = 0 /\ edge' = FALSE /\ EPOLLIN' = FALSE
          /\ nsend' = 0 /\ n' = 0 /\ nospace' = FALSE /\ sends' = 0
          /\ got' = <<>> /\ short' = 0 /\ odd' = FALSE /\ reply' = 0
          /\ rest' = 0 /\ avail' = 0 /\ fin' = FALSE
          /\ UNCHANGED epolls

-----------------------------------------------------------------------------
(* The web server: it answers what it has received in full, in pieces.  It  *)
(* may keep the connection open, or close it when it likes; at last it      *)
(* closes one on which no request has come.                                 *)

Connected == pc \notin {"idle", "connect", "done"}

Serve == /\ Connected /\ length > 0 /\ Len(got) >= length /\ ~fin /\ rest > 0
         /\ \E k \in 1 .. rest : rest' = rest - k /\ avail' = avail + k
         /\ edge' = TRUE
         /\ UNCHANGED <<pc, length, EPOLLIN, sending, reply, fin, epolls>>

Close == /\ Connected /\ ~fin
         /\ fin' = TRUE /\ edge' = TRUE
         /\ UNCHANGED <<pc, length, EPOLLIN, sending, reply, rest, avail, epolls>>

Idle == length = 0 /\ Close

\* The server, or its kernel, has taken what filled the socket.
Room == /\ Connected /\ nospace
        /\ nospace' = FALSE /\ edge' = TRUE
        /\ UNCHANGED <<pc, length, EPOLLIN, nsend, n, sends, got, short, odd,
                       reply, server, epolls>>

gotoClient == \/ ConnectFails \/ Connect \/ Getchar \/ Wake
              \/ (\E k \in 1 .. n : Write(k)) \/ WriteAgain \/ WriteFails \/ Sent
              \/ Read \/ ReadEnds
=============================================================================
