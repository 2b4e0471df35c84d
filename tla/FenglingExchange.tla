-------------------------- MODULE FenglingExchange --------------------------
(***************************************************************************)
(* A tunnel process from one end to the other: FenglingTunnel with the     *)
(* calls its process makes to gotoClient (FenglingLocal) in the place of   *)
(* an answer out of nowhere.  The request put to the local server is the   *)
(* string the tunnel's buffer holds, and the answer framed for the worker  *)
(* is what the call has read, or the string "-1".                          *)
(***************************************************************************)
EXTENDS FenglingTunnel

CONSTANTS Totals, MaxShort

ASSUME AnswerAssumption == Totals \subseteq 1 .. MaxReply /\ 2 <= MaxReply /\ MaxShort \in Nat

VARIABLES pc, length, edge, nospace, EPOLLIN, nsend, n, sends, reply, got,
          rest, avail, fin, short, odd, efds, cut

Local == INSTANCE FenglingLocal

callVars == <<pc, length, edge, nospace, EPOLLIN, nsend, n, sends, reply, got,
              rest, avail, fin, short, odd, efds, cut>>
exvars == <<vars, callVars>>

ExInit == Init /\ Local!Init

-----------------------------------------------------------------------------
\* gotoClient is called with the string in the buffer,
CallLocal == /\ client = "call" /\ Local!Call(Len(Passed))
             /\ UNCHANGED vars

\* runs, beside the web server,
Call == (Local!gotoClient \/ Local!Serve \/ Local!Close \/ Local!Room) /\ UNCHANGED vars

\* and what it returns is written back.
ReplyLocal == Local!Return /\ Reply(Local!ReplyLength)

Between == TunnelHead \/ TunnelSkips \/ TunnelBody \/ TunnelEnds

Elsewhere == /\ (\E len \in Sizes : Ask(len)) \/ Asker \/ Between \/ Break
             /\ UNCHANGED callVars

ExNext == CallLocal \/ Call \/ ReplyLocal \/ Elsewhere

\* The processes run.  The standard input they share is at its end or a terminal
\* they are in the background of, so that getchar returns.  The web server answers
\* a request it has received, and gives up a connection on which none comes.
ExSpec ==
    /\ ExInit /\ [][ExNext]_exvars
    /\ WF_exvars(Asker /\ UNCHANGED callVars)
    /\ WF_exvars(Between /\ UNCHANGED callVars)
    /\ WF_exvars(CallLocal) /\ WF_exvars(ReplyLocal)
    /\ WF_exvars(Local!gotoClient /\ UNCHANGED vars)
    /\ WF_exvars(Local!Serve /\ UNCHANGED vars)
    /\ WF_exvars(Local!Idle /\ UNCHANGED vars)

-----------------------------------------------------------------------------
\* The string passed to the local server is as RequestPassed says.  The server may
\* receive it several times: once for the new socket, once with the answer, and once
\* for each write that found the socket full.  Each unit received is in its place in
\* its sending, as long as each sending is done in two writes: the third starts at
\* the wrong place, and so does one after EAGAIN, before the buffer.
RequestDelivered ==
    /\ RequestPassed
    /\ pc # "idle" => length = Len(Passed) /\ sends <= 2 + short
    /\ ~odd => /\ Len(got) <= sends * length
               /\ \A s \in 1 .. sends, i \in 1 .. length :
                     LET at == (s - 1) * length + i IN at <= Len(got) => got[at] = i

\* A call that returns an answer returns some of it, unless the server has closed
\* the connection; it need not be all.
AnswerBegun == pc = "done" => reply # 0 \/ fin

\* Between calls the process has one epoll descriptor for each sending that the
\* server's close has cut off, and no other: nothing else leaks one.
DescriptorsKept == pc = "idle" => efds = cut

\* The call and the web server are, to the tunnel, what FenglingTunnel says of
\* them: each call is answered, at some time, with an answer of some length.
ImplementsTunnel == FairSpec
=============================================================================
