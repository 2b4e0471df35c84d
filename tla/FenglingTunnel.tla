--------------------------- MODULE FenglingTunnel ---------------------------
(***************************************************************************)
(* Requests and answers through one tunnel: the request loop of a client's *)
(* tunnel process (CARun), and the exchange a worker has with it           *)
(* (EpollServerRun, from GetFLRoute to the answer), request after request. *)
(* A frame is a head, FL and eight digits, and a body.  TLS keeps record   *)
(* boundaries: a long body is several records, and a read returns no more  *)
(* than is left of one.  Both sides read a body with a single read.        *)
(*                                                                         *)
(* Lengths are in units; what matters is how they compare.  The handle is  *)
(* taken to work in the worker's process, and retMsg, a pointer that       *)
(* nothing sets, to point to memory that nothing else uses (FenglingEvents *)
(* has the faults); no body begins with the letters FL.                    *)
(***************************************************************************)
EXTENDS Integers, SequencesExt

CONSTANTS PKG_HEAD_LEN,
          PKG_BODY_LEN,
          Clear,        \* what is cleared of the buffer before a body: 1024
          PtrClear,     \* what is cleared of the memory at retMsg: sizeof (char *)
          Found,        \* the lengths of the strings a worker may find there
          Record,       \* the longest record of TLS: 16384
          Sizes,        \* the lengths of requests
          MaxReply,     \* bound: the length of gotoClient's answer
          MaxRequests   \* bound: requests put to the tunnel

ASSUME LengthAssumption ==
    /\ {PKG_HEAD_LEN, PKG_BODY_LEN, Clear, Record} \subseteq Nat \ {0}
    /\ PKG_HEAD_LEN <= Clear /\ Clear <= Record /\ Record <= PKG_BODY_LEN
    /\ PtrClear \in Nat \ {0} /\ Found # {} /\ Found \subseteq 0 .. PKG_BODY_LEN
ASSUME BoundAssumption ==
    Sizes \subseteq Nat \ {0} /\ MaxReply \in Nat /\ MaxRequests \in Nat
\* The code has no such bound: gotoClient reads an answer of any length into a
\* buffer of PKG_BODY_LEN, and what a longer one overwrites behind it is not
\* modelled.
ASSUME ReplyAssumption == MaxReply < PKG_BODY_LEN

VARIABLES
    up, down,   \* records on their way to the client, and back
    linked,     \* the connection stands
    asker,      \* the worker: idle, head, body (the read it is in)
    id, size,   \* the request it has put, and its length
    expect,     \* the length announced to it
    answer,     \* the request the last answer was made for, None without one
    ret,        \* the memory at retMsg: the answer each unit is of, NUL, or OLD
    longest,    \* the longest string it has held (history)
    client,     \* the tunnel process: head, body, call (gotoClient), closed
    want,       \* the length announced to it
    headOf,     \* the request of the head it has accepted (history)
    buf,        \* its buffer: which request wrote each unit, NUL, or HEAD
    longReply   \* an answer longer than a record was sent (history)

retVars == <<ret, longest>>
askerVars == <<asker, id, size, expect, answer, retVars>>
clientVars == <<client, want, headOf, buf>>
vars == <<up, down, linked, askerVars, clientVars, longReply>>

-----------------------------------------------------------------------------
NUL == 0
HEAD == -1
OLD == -1
None == -2

Units == 1 .. PKG_BODY_LEN + 1
RetUnits == 1 .. PKG_BODY_LEN
Least(a, b) == IF a <= b THEN a ELSE b

\* The records written for a frame of n units: the head, and the body, if any.
HeadRecord(of, n) == [kind |-> "head", of |-> of, len |-> PKG_HEAD_LEN, says |-> n]
Body(of, n) == [kind |-> "data", of |-> of, len |-> n, says |-> 0]
BodyRecords(of, n) ==
    LET whole == n \div Record
    IN [i \in 1 .. whole |-> Body(of, Record)]
           \o (IF n % Record = 0 THEN <<>> ELSE <<Body(of, n % Record)>>)
Frame(of, n) == <<HeadRecord(of, n)>> \o BodyRecords(of, n)

\* A read of n units: what it returns is part of the first record.
Taken(stream, n) == Least(n, Head(stream).len)
Rest(stream, n) ==
    IF n = 0 THEN stream
    ELSE IF Head(stream).len <= n THEN Tail(stream)
    ELSE <<Body(Head(stream).of, Head(stream).len - n)>> \o Tail(stream)

IsHead(stream) == Head(stream).kind = "head"
Acceptable(stream) == IsHead(stream) /\ Head(stream).says <= PKG_BODY_LEN

\* What a worker may find at retMsg: a string of k units.
Uninitialized(k) == [u \in RetUnits |-> IF u <= k THEN OLD ELSE NUL]

Init == /\ up = <<>> /\ down = <<>> /\ linked = TRUE
        /\ asker = "idle" /\ id = 0 /\ size = 0 /\ expect = 0 /\ answer = None
        /\ \E k \in Found : ret = Uninitialized(k) /\ longest = k
        /\ client = "head" /\ want = 0 /\ headOf = None
        /\ buf = [u \in Units |-> NUL]
        /\ longReply = FALSE

-----------------------------------------------------------------------------
(* The worker. *)

\* n is strlen(buf): what parseHtmlHead's strtok has left of the request.
Ask(n) == /\ asker = "idle" /\ linked /\ id < MaxRequests
          /\ id' = id + 1 /\ size' = n
          /\ up' = up \o Frame(id + 1, n)
          /\ asker' = "head" /\ answer' = None
          /\ UNCHANGED <<down, linked, expect, retVars, clientVars, longReply>>

AskerHead == /\ asker = "head" /\ down # <<>> /\ Acceptable(down)
             /\ expect' = Head(down).says
             /\ down' = Rest(down, PKG_HEAD_LEN)
             /\ asker' = "body"
             /\ UNCHANGED <<up, linked, id, size, answer, retVars, clientVars, longReply>>

\* No frame, or too long a body: continue, that is, the request is given up.
AskerRefuses ==
    /\ asker = "head" /\ down # <<>> /\ ~Acceptable(down)
    /\ down' = Rest(down, PKG_HEAD_LEN)
    /\ asker' = "idle"
    /\ UNCHANGED <<up, linked, id, size, expect, answer, retVars, clientVars, longReply>>

\* The memory at retMsg: k units read into it, and before, the first z cleared.
Returned(k, of, z) ==
    /\ ret' = [u \in RetUnits |-> IF u <= k THEN of ELSE IF u <= z THEN NUL ELSE ret[u]]
    /\ longest' = IF longest < k THEN k ELSE longest

\* The body, an empty one without a record.
BodyRead(z) == /\ asker = "body"
               /\ IF expect = 0
                  THEN answer' = NUL /\ down' = down /\ Returned(0, NUL, z)
                  ELSE /\ down # <<>>
                       /\ answer' = Head(down).of
                       /\ down' = Rest(down, expect)
                       /\ Returned(Taken(down, expect), Head(down).of, z)
               /\ asker' = "idle"
               /\ UNCHANGED <<up, linked, id, size, expect, clientVars, longReply>>

\* (mutant) not cleared at all
BodyUncleared == BodyRead(0)

\* Of the memory at retMsg, the size of the pointer is cleared.
AskerBody == BodyRead(PtrClear)

\* What write sends the browser, strlen(retMsg) of it: up to the first NUL.
Sent == {u \in RetUnits : \A v \in 1 .. u : ret[v] # NUL}

\* SSL_read fails; line is left zeroed, or the answer's first units are.
AskerCutOff == /\ asker # "idle" /\ ~linked /\ down = <<>>
               /\ asker' = "idle"
               /\ IF asker = "body" THEN Returned(0, NUL, PtrClear) ELSE UNCHANGED retVars
               /\ UNCHANGED <<up, down, linked, id, size, expect, answer, clientVars, longReply>>

-----------------------------------------------------------------------------
(* The tunnel process. *)

\* The first n units of the buffer overwritten.
Write(n, what) == [u \in Units |-> IF u <= n THEN what ELSE buf[u]]
Cleared == [u \in Units |-> IF u <= Clear THEN NUL ELSE Write(PKG_HEAD_LEN, HEAD)[u]]

\* A head that is accepted: its length is kept, and the buffer is left as b.
HeadRead(accepted, b) ==
    /\ client = "head" /\ up # <<>> /\ accepted
    /\ want' = Head(up).says /\ headOf' = Head(up).of
    /\ buf' = b
    /\ up' = Rest(up, PKG_HEAD_LEN)
    /\ client' = "body"
    /\ UNCHANGED <<down, linked, askerVars, longReply>>

\* (mutants) FL not looked for; a body as long as the limit refused
HeadUnchecked == HeadRead(Head(up).says <= PKG_BODY_LEN, Cleared)
HeadBelowLimit == HeadRead(IsHead(up) /\ Head(up).says < PKG_BODY_LEN, Cleared)

\* The first units of the buffer are cleared.
TunnelHead == HeadRead(Acceptable(up), Cleared)

\* Not FL, or too long a body: the next read goes on from there.
TunnelSkips == /\ client = "head" /\ up # <<>> /\ ~Acceptable(up)
               /\ buf' = Write(Taken(up, PKG_HEAD_LEN), HEAD)
               /\ up' = Rest(up, PKG_HEAD_LEN)
               /\ UNCHANGED <<down, linked, askerVars, client, want, headOf, longReply>>

\* One read for the body; whether it read anything is not looked at.
TunnelBody == /\ client = "body"
              /\ \/ /\ up # <<>>
                    /\ buf' = Write(Taken(up, want), Head(up).of)
                    /\ up' = Rest(up, want)
                 \/ /\ up = <<>> /\ ~linked
                    /\ UNCHANGED <<buf, up>>
              /\ client' = "call"
              /\ UNCHANGED <<down, linked, askerVars, want, headOf, longReply>>

\* The string gotoClient is called with.
Passed == SubSeq(buf, 1, SelectInSeq(buf, LAMBDA x : x = NUL) - 1)

\* gotoClient answers, with n units, and records of them are written back.
Answered(n, records) ==
    /\ client = "call"
    /\ down' = IF linked THEN down \o records ELSE down
    /\ longReply' = (longReply \/ n > Record)
    /\ client' = "head"
    /\ UNCHANGED <<up, linked, askerVars, want, headOf, buf>>

Reply(n) == Answered(n, Frame(buf[1], n))

\* BIO_read returns 0 or less: the loop ends.
TunnelEnds == /\ client = "head" /\ ~linked /\ up = <<>>
              /\ client' = "closed"
              /\ UNCHANGED <<up, down, linked, askerVars, want, headOf, buf, longReply>>

\* The connection breaks; what is on its way is lost.
Break == /\ linked
         /\ linked' = FALSE
         /\ up' = <<>> /\ down' = <<>>
         /\ UNCHANGED <<askerVars, clientVars, longReply>>

-----------------------------------------------------------------------------
Asker == AskerHead \/ AskerRefuses \/ AskerBody \/ AskerCutOff

Tunnel == \/ TunnelHead \/ TunnelSkips \/ TunnelBody \/ TunnelEnds
          \/ \E n \in 0 .. MaxReply : Reply(n)

Next == (\E n \in Sizes : Ask(n)) \/ Asker \/ Tunnel \/ Break

Spec == Init /\ [][Next]_vars

\* Both processes run, and the local server answers every call.
FairSpec == Spec /\ WF_vars(Asker) /\ WF_vars(Tunnel)

-----------------------------------------------------------------------------
Records == [kind : {"head", "data"}, of : NUL .. MaxRequests,
            len : 1 .. Record, says : {0} \cup Sizes \cup 1 .. MaxReply]

TypeOK ==
    /\ up \in Seq(Records) /\ down \in Seq(Records) /\ linked \in BOOLEAN
    /\ asker \in {"idle", "head", "body"} /\ client \in {"head", "body", "call", "closed"}
    /\ id \in 0 .. MaxRequests /\ size \in {0} \cup Sizes
    /\ expect \in 0 .. PKG_BODY_LEN /\ want \in 0 .. PKG_BODY_LEN
    /\ ret \in [RetUnits -> OLD .. MaxRequests] /\ longest \in 0 .. PKG_BODY_LEN
    /\ buf \in [Units -> HEAD .. MaxRequests]
    /\ buf[PKG_BODY_LEN + 1] = NUL

\* The types of the state, and: what the tunnel process takes for a body is the
\* body of the head it has just accepted, after requests too long to be accepted
\* and after ones of which it read a part: it is never out of step, as records are
\* not read across.
ClientInStep ==
    /\ TypeOK
    /\ client = "body" /\ up # <<>> => Head(up).kind = "data" /\ Head(up).of = headOf

\* The string passed to the local server begins with the request, up to a record
\* of it.  A request shorter than what is cleared is passed alone; after a longer
\* one the end of an earlier request may follow.
RequestPassed ==
    client = "call" /\ Passed # <<>> =>
        /\ Len(Passed) >= Least(want, Record)
        /\ \A i \in 1 .. Least(want, Record) : Passed[i] = headOf
        /\ want < Clear => Len(Passed) = want

\* A worker that is through with a request while the connection stands has read the
\* answer made for it, or an empty one, for as long as no answer has been longer than
\* a record; after one that was, answers are dropped and then mistaken.  What it sends
\* the browser begins with that answer; and it is no more than that if the answer is
\* shorter than a pointer, or no shorter than all that has been at retMsg.  Otherwise
\* the end of an older string follows, as of another browser's answer.
AnswerIsOwn ==
    id > 0 /\ asker = "idle" /\ linked /\ ~longReply =>
        \/ answer = NUL /\ Sent = {}
        \/ /\ answer = id
           /\ 1 .. expect \subseteq Sent /\ \A u \in 1 .. expect : ret[u] = id
           /\ expect < PtrClear \/ longest <= expect => Sent = 1 .. expect

\* A request that the tunnel process accepts does not block its worker for ever.
\* (A longer one does: it is skipped, and nothing is sent for it.)
ExchangeEnds == asker # "idle" /\ size <= PKG_BODY_LEN ~> asker = "idle"
=============================================================================
