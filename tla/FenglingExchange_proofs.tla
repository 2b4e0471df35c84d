---------------------- MODULE FenglingExchange_proofs ----------------------
(* The tunnel process is never out of step with its worker, a worker has the  *)
(* answer made for it, and the string given to gotoClient begins with the     *)
(* request: for buffers, records and requests of any length, and any number   *)
(* of requests.  With the calls to the local server in the place of answers   *)
(* out of nowhere, every step is one of FenglingTunnel or a stutter; what the *)
(* server receives, what a call returns and what it leaves open follow.       *)
EXTENDS FenglingExchange, SequenceTheorems, WellFoundedInduction, TLAPS

\* Nothing but bodies is on its way; one head at the most, and that of request r.
NoHead(s) == \A i \in DOMAIN s : s[i].kind = "data"
OneHead(s, r) == \A i, j \in DOMAIN s :
    s[i].kind = "head" /\ s[j].kind = "head" => i = j /\ s[i].of = r

\* Behind every head comes the first record of its body, in its full length.
Led(s) == \A i \in DOMAIN s : s[i].kind = "head" =>
    /\ s[i].len = PKG_HEAD_LEN /\ s[i].of >= 1 /\ s[i].says \in Sizes
    /\ i + 1 \in DOMAIN s
    /\ s[i + 1] = Body(s[i].of, Least(s[i].says, Record))

\* After a head has been accepted, its body is next, unless the connection has broken.
BodyNext ==
    client = "body" => IF up = <<>> THEN ~linked
                                    ELSE Head(up) = Body(headOf, Least(want, Record))

Accepted == client \in {"body", "call"} => headOf \in 1 .. MaxRequests /\ want \in Sizes

\* The buffer: cleared; or with the body in it, up to a record of it.
Blank == \A u \in 1 .. Clear : buf[u] = NUL
Holds == LET t == Least(want, Record)
         IN /\ \A u \in 1 .. t : buf[u] = headOf
            /\ \A u \in t + 1 .. Clear : buf[u] = NUL

Filled == /\ client = "body" => Blank
          /\ client = "call" => Holds \/ (Blank /\ ~linked)

StepInv == TypeOK /\ Led(up) /\ BodyNext /\ Accepted /\ Filled

\* What a worker that is through with a request has read: nothing, or the answer, and
\* what it has cleared behind it.
Own == \/ answer = NUL /\ ret[1] = NUL
       \/ /\ answer = id /\ expect \in 1 .. PKG_BODY_LEN
          /\ \A u \in 1 .. expect : ret[u] = id
          /\ expect < PtrClear /\ expect < PKG_BODY_LEN => ret[expect + 1] = NUL

\* Behind the longest string there is none of any.
Reach == \A u \in RetUnits : u > longest => ret[u] = NUL

\* Whose turn it is, as long as no answer has been longer than a record: there is
\* one request at a time, and one answer to it, or none if it was skipped.
InTurn ==
    linked /\ ~longReply =>
        \/ /\ asker = "idle" /\ (id > 0 => Own)
           /\ client = "head" /\ down = <<>> /\ NoHead(up)
        \/ asker = "head" /\ client = "head" /\ down = <<>> /\ OneHead(up, id)
        \/ /\ asker = "head" /\ client \in {"body", "call"} /\ headOf = id
           /\ down = <<>> /\ NoHead(up)
        \/ /\ asker = "head" /\ client = "head" /\ NoHead(up)
           /\ \E m \in 0 .. Least(MaxReply, Record) : down = Frame(id, m)
        \/ /\ asker = "body" /\ client = "head" /\ NoHead(up)
           /\ expect \in 0 .. Record /\ down = BodyRecords(id, expect)

\* The state of a call of gotoClient.
CallTypes ==
    /\ pc \in {"idle", "connect", "getchar", "wait", "send", "recv", "done"}
    /\ edge \in BOOLEAN /\ nospace \in BOOLEAN /\ EPOLLIN \in BOOLEAN /\ fin \in BOOLEAN /\ odd \in BOOLEAN
    /\ sends \in Nat
    /\ length \in Nat /\ nsend \in Int /\ n \in Nat /\ reply \in Int /\ rest \in Nat /\ avail \in Nat
    /\ short \in Nat /\ efds \in Nat /\ cut \in Nat
    /\ got \in Seq(Int)

\* What has been read, can be read and is to come is one answer.
AnswerLength == IF reply = -1 THEN pc = "done"
                              ELSE reply >= 0 /\ reply + avail + rest <= MaxReply

\* It is read only when there is some of it, or the end.
Begun == /\ pc = "recv" => avail > 0 \/ reply > 0 \/ fin
         /\ pc = "send" /\ EPOLLIN => avail > 0 \/ fin
         /\ pc = "done" => reply # 0 \/ fin

\* Between two calls nothing of the last is left.
Fresh == pc = "idle" => /\ got = <<>> /\ n = 0 /\ nsend = 0 /\ length = 0
                        /\ reply = 0 /\ avail = 0 /\ rest = 0
                        /\ sends = 0 /\ short = 0 /\ ~nospace
                        /\ ~edge /\ ~fin /\ ~EPOLLIN /\ ~odd

Epolls == efds = cut + (IF pc \in {"getchar", "wait", "send", "recv"} THEN 1 ELSE 0)

\* A call is under way only while the tunnel process is in it, and is given what
\* its buffer holds.
Calling == pc # "idle" => client = "call" /\ length = Len(Passed)

Before == pc \in {"connect", "getchar", "wait"} => ~EPOLLIN
Early == pc \in {"idle", "connect", "getchar"} => got = <<>> /\ sends = 0 /\ ~nospace

\* Edges that will be taken for no more than leave to send: one on the ready list
\* without anything to read, and one to come when there is room.  They and the
\* sendings are no more than the writes that found the socket full, and the new
\* socket's edge; the answer's edge, or the end's, adds the last sending.
One(p) == IF p THEN 1 ELSE 0
Due == One(edge /\ ~ (avail > 0 \/ fin)) + One(nospace)
Count == IF pc \in {"recv", "done"} THEN sends <= short + 2
                                    ELSE sends + Due <= short + 1 + One(EPOLLIN)

\* What the server has received: in each sending, the request from its front.  nsend
\* is where a sending has come to only after the first of its writes.
Placed == \A s \in 1 .. sends, i \in 1 .. length :
              (s - 1) * length + i <= Len(got) => got[(s - 1) * length + i] = i
Got == ~odd =>
    /\ Placed
    /\ pc \in {"wait", "recv"} => Len(got) = sends * length
    /\ pc = "done" => Len(got) <= sends * length
    /\ pc = "send" =>
          /\ sends > 0 /\ n <= length
          /\ Len(got) = (sends - 1) * length + (length - n)
          /\ \/ nsend = 0 /\ n = length
             \/ nsend > 0 /\ n + nsend = length
             \/ nsend > 0 /\ n + nsend < length

Shape == CallTypes /\ AnswerLength /\ Begun /\ Fresh /\ Epolls /\ Before /\ Early
Receipt == Count /\ Got

ExInv == StepInv /\ Shape /\ Receipt /\ Calling

-----------------------------------------------------------------------------
LEMMA Lengths ==
  /\ PKG_HEAD_LEN \in Nat /\ Clear \in Nat /\ Record \in Nat /\ PKG_BODY_LEN \in Nat
  /\ 0 < PKG_HEAD_LEN /\ PKG_HEAD_LEN <= Clear /\ Clear <= Record /\ Record <= PKG_BODY_LEN
  /\ MaxReply \in Nat /\ MaxRequests \in Nat /\ MaxReply < PKG_BODY_LEN
  /\ PtrClear \in Nat /\ 0 < PtrClear /\ Found \subseteq 0 .. PKG_BODY_LEN
  /\ \A m \in Sizes : m \in Nat /\ m > 0
BY LengthAssumption, BoundAssumption, ReplyAssumption

USE Lengths DEF NUL, HEAD, OLD, None

LEMMA RecordIs ==
  ASSUME NEW r \in Records
  PROVE  /\ r.kind \in {"head", "data"} /\ r.of \in NUL .. MaxRequests
         /\ r.len \in 1 .. Record /\ r.says \in Nat
<1>1. r.says \in {0} \cup Sizes \cup 1 .. MaxReply
  BY DEF Records
<1>2. {0} \cup Sizes \cup 1 .. MaxReply \subseteq Nat
  OBVIOUS
<1> QED
  BY <1>1, <1>2 DEF Records

LEMMA ShorterBody ==
  ASSUME NEW o \in NUL .. MaxRequests, NEW l \in 1 .. Record
  PROVE  Body(o, l) \in Records
BY DEF Body, Records

\* The records of a body.
LEMMA BodyIs ==
  ASSUME NEW o \in NUL .. MaxRequests, NEW m \in Nat
  PROVE  /\ BodyRecords(o, m) \in Seq(Records)
         /\ NoHead(BodyRecords(o, m))
         /\ m = 0 => BodyRecords(o, m) = <<>>
         /\ m \in 1 .. Record => BodyRecords(o, m) = <<Body(o, m)>>
         /\ m > 0 => /\ Len(BodyRecords(o, m)) >= 1
                     /\ BodyRecords(o, m)[1] = Body(o, Least(m, Record))
<1> DEFINE whole == m \div Record
           left == m % Record
           front == [i \in 1 .. whole |-> Body(o, Record)]
           back == IF left = 0 THEN <<>> ELSE <<Body(o, left)>>
<1>1. /\ whole \in Nat /\ left \in 0 .. Record - 1
      /\ m < Record => whole = 0 /\ left = m
      /\ m = Record => whole = 1 /\ left = 0
      /\ m > Record => whole >= 1
  OBVIOUS
<1>2. Body(o, Record) \in Records /\ (left # 0 => Body(o, left) \in Records)
  <2>1. Record \in 1 .. Record /\ (left # 0 => left \in 1 .. Record)
    BY <1>1
  <2> HIDE DEF left
  <2> QED
    BY <2>1, ShorterBody
<1>3. BodyRecords(o, m) = front \o back
  BY DEF BodyRecords
<1> HIDE DEF whole, left
<1>4. front \in Seq(Records) /\ Len(front) = whole /\ (\A i \in 1 .. whole : front[i] = Body(o, Record))
  BY <1>1, <1>2
<1>5. /\ back \in Seq(Records) /\ Len(back) = IF left = 0 THEN 0 ELSE 1
      /\ left # 0 => back[1] = Body(o, left)
  BY <1>1, <1>2
<1> HIDE DEF front, back
<1> DEFINE s == front \o back
<1>6. /\ s \in Seq(Records) /\ Len(s) = Len(front) + Len(back)
      /\ \A i \in 1 .. Len(s) : s[i] = IF i <= Len(front) THEN front[i] ELSE back[i - Len(front)]
  <2>1. front \in Seq(Records) /\ back \in Seq(Records)
    BY <1>4, <1>5
  <2>2. /\ s \in Seq(Records) /\ Len(s) = Len(front) + Len(back)
        /\ \A i \in 1 .. Len(front) + Len(back) :
               s[i] = IF i <= Len(front) THEN front[i] ELSE back[i - Len(front)]
    BY <2>1, ConcatProperties
  <2> QED
    BY <2>2
<1> HIDE DEF s
<1>7. NoHead(s)
  <2> SUFFICES ASSUME NEW i \in 1 .. Len(s) PROVE s[i].kind = "data"
    BY <1>6 DEF NoHead
  <2>1. CASE i <= whole
    BY <2>1, <1>6, <1>4, <1>1 DEF Body
  <2>2. CASE i > whole
    <3>1. i - whole = 1 /\ left # 0
      BY <2>2, <1>6, <1>4, <1>5, <1>1
    <3> QED
      BY <2>2, <3>1, <1>6, <1>4, <1>5, <1>1 DEF Body
  <2> QED
    BY <2>1, <2>2, <1>1
<1>8. m = 0 => s = <<>>
  BY <1>1, <1>4, <1>5, <1>6
<1>9. m > 0 => Len(s) >= 1 /\ s[1] = Body(o, Least(m, Record))
  BY <1>1, <1>4, <1>5, <1>6 DEF Least
<1>10. m \in 1 .. Record => s = <<Body(o, m)>>
  <2> HAVE m \in 1 .. Record
  <2>1. Len(s) = 1
    BY <1>1, <1>4, <1>5, <1>6
  <2> QED
    BY <2>1, <1>9, <1>6 DEF Least
<1> QED
  BY <1>3, <1>6, <1>7, <1>8, <1>9, <1>10 DEF s

LEMMA FrameIs ==
  ASSUME NEW o \in NUL .. MaxRequests, NEW m \in {0} \cup Sizes \cup 1 .. MaxReply
  PROVE  /\ Frame(o, m) \in Seq(Records) /\ Frame(o, m) # <<>>
         /\ Head(Frame(o, m)) = HeadRecord(o, m)
         /\ Tail(Frame(o, m)) = BodyRecords(o, m)
         /\ Len(Frame(o, m)) = 1 + Len(BodyRecords(o, m))
         /\ Frame(o, m)[1] = HeadRecord(o, m)
         /\ \A i \in 2 .. Len(Frame(o, m)) : Frame(o, m)[i] = BodyRecords(o, m)[i - 1]
<1>1. HeadRecord(o, m) \in Records
  BY DEF HeadRecord, Records
<1> DEFINE h == <<HeadRecord(o, m)>>
           b == BodyRecords(o, m)
<1>2. b \in Seq(Records)
  <2>1. m \in Nat
    OBVIOUS
  <2> QED
    BY <2>1, BodyIs
<1>3. h \in Seq(Records) /\ Len(h) = 1 /\ h[1] = HeadRecord(o, m)
  BY <1>1
<1> DEFINE f == h \o b
<1>4. Frame(o, m) = f /\ BodyRecords(o, m) = b
  BY DEF Frame
<1> HIDE DEF h, b
<1>5. /\ f \in Seq(Records) /\ Len(f) = Len(h) + Len(b)
      /\ \A i \in 1 .. Len(h) + Len(b) : f[i] = IF i <= Len(h) THEN h[i] ELSE b[i - Len(h)]
  BY <1>2, <1>3, ConcatProperties
<1> HIDE DEF f
<1>6. Head(f) = HeadRecord(o, m) /\ f # <<>>
  BY <1>2, <1>3, <1>5
<1>7. Tail(f) = b
  <2>1. Tail(f) \in Seq(Records) /\ Len(Tail(f)) = Len(f) - 1 /\ (\A i \in 1 .. Len(Tail(f)) : Tail(f)[i] = f[i + 1])
    BY <1>5, <1>6, HeadTailProperties
  <2> QED
    BY <2>1, <1>2, <1>3, <1>5, SeqEqual
<1> QED
  BY <1>2, <1>3, <1>4, <1>5, <1>6, <1>7

\* A read never takes from two records.
LEMMA RestIs ==
  ASSUME NEW s \in Seq(Records), s # <<>>, Led(s), NEW m \in Nat \ {0},
         Head(s).kind = "head" => m >= PKG_HEAD_LEN
  PROVE  /\ Rest(s, m) \in Seq(Records) /\ Led(Rest(s, m))
         /\ NoHead(s) => NoHead(Rest(s, m))
         /\ \A r : OneHead(s, r) => OneHead(Rest(s, m), r)
<1> DEFINE h == Head(s)
<1>1. h \in Records /\ h = s[1] /\ Len(s) >= 1 /\ h.len \in 1 .. Record
  <2>1. h \in Records /\ Len(s) \in Nat \ {0}
    BY HeadTailProperties, EmptySeq
  <2> QED
    BY <2>1 DEF Records
<1>2. CASE h.len <= m
  <2>1. Rest(s, m) = Tail(s)
    BY <1>2 DEF Rest
  <2>2. Tail(s) \in Seq(Records) /\ Len(Tail(s)) = Len(s) - 1 /\ (\A i \in 1 .. Len(Tail(s)) : Tail(s)[i] = s[i + 1])
    BY HeadTailProperties
  <2> DEFINE t == Tail(s)
  <2> HIDE DEF t
  <2>3. Led(t)
    BY <2>2, <1>1 DEF Led, t
  <2>4. NoHead(s) => NoHead(t)
    BY <2>2, <1>1 DEF NoHead, t
  <2>5. ASSUME NEW r, OneHead(s, r) PROVE OneHead(t, r)
    BY <2>2, <1>1, <2>5 DEF OneHead, t
  <2> QED
    BY <2>1, <2>2, <2>3, <2>4, <2>5 DEF t
<1>3. CASE h.len > m
  <2> DEFINE d == Body(h.of, h.len - m)
             t == <<d>> \o Tail(s)
  <2>1. Rest(s, m) = t
    BY <1>3, <1>1 DEF Rest
  <2>2. h.kind = "data"
    BY <1>3, <1>1 DEF Led, Records
  <2>3. d \in Records /\ d.kind = "data"
    BY <1>3, <1>1, RecordIs, ShorterBody DEF Body
  <2>4. <<d>> \in Seq(Records) /\ Len(<<d>>) = 1 /\ <<d>>[1] = d
    BY <2>3
  <2>5. Tail(s) \in Seq(Records) /\ Len(Tail(s)) = Len(s) - 1 /\ (\A i \in 1 .. Len(Tail(s)) : Tail(s)[i] = s[i + 1])
    BY HeadTailProperties
  <2> HIDE DEF d
  <2>6. t \in Seq(Records) /\ Len(t) = Len(s) /\ t[1] = d /\ (\A i \in 2 .. Len(s) : t[i] = s[i])
    BY <2>4, <2>5, <1>1, ConcatProperties
  <2> HIDE DEF t
  <2>7. \A i \in 1 .. Len(s) : i > 1 => t[i] = s[i]
    BY <2>6
  <2>8. Led(t)
    BY <2>3, <2>6, <2>7, <2>2, <1>1 DEF Led
  <2>11. DOMAIN t = DOMAIN s /\ \A i \in DOMAIN t : t[i].kind = "data" \/ t[i] = s[i]
    BY <2>3, <2>6, <2>7, <1>1, LenProperties
  <2>9. NoHead(s) => NoHead(t)
    BY <2>11 DEF NoHead
  <2>10. ASSUME NEW r, OneHead(s, r) PROVE OneHead(t, r)
    BY <2>10, <2>11 DEF OneHead
  <2> QED
    BY <2>1, <2>6, <2>8, <2>9, <2>10
<1> QED
  BY <1>1, <1>2, <1>3

\* A frame behind what is on its way.
LEMMA FrameJoins ==
  ASSUME NEW s \in Seq(Records), Led(s),
         NEW o \in 1 .. MaxRequests, NEW m \in Sizes
  PROVE  /\ s \o Frame(o, m) \in Seq(Records) /\ s \o Frame(o, m) # <<>>
         /\ Led(s \o Frame(o, m))
         /\ s # <<>> => Head(s \o Frame(o, m)) = Head(s)
         /\ NoHead(s) => OneHead(s \o Frame(o, m), o)
<1> DEFINE f == Frame(o, m)
           b == BodyRecords(o, m)
           t == s \o f
<1>1. o \in NUL .. MaxRequests /\ m \in Nat /\ m > 0 /\ m \in {0} \cup Sizes \cup 1 .. MaxReply
  OBVIOUS
<1>2. /\ f \in Seq(Records) /\ f # <<>> /\ f[1] = HeadRecord(o, m)
      /\ Len(f) = 1 + Len(b)
      /\ \A i \in 2 .. Len(f) : f[i] = b[i - 1]
  BY <1>1, FrameIs
<1>3. /\ b \in Seq(Records) /\ Len(b) >= 1 /\ b[1] = Body(o, Least(m, Record))
      /\ \A i \in 1 .. Len(b) : b[i].kind = "data"
  <2>1. b \in Seq(Records) /\ NoHead(b) /\ Len(b) >= 1 /\ b[1] = Body(o, Least(m, Record))
    BY <1>1, BodyIs
  <2> HIDE DEF b
  <2> QED
    BY <2>1 DEF NoHead
<1> HIDE DEF f, b
<1>4. /\ t \in Seq(Records) /\ Len(t) = Len(s) + Len(f)
      /\ \A i \in 1 .. Len(s) + Len(f) : t[i] = IF i <= Len(s) THEN s[i] ELSE f[i - Len(s)]
  BY <1>2, ConcatProperties
<1> DEFINE L == Len(s)
<1>5. L \in Nat /\ Len(b) \in Nat /\ Len(t) = L + 1 + Len(b)
  BY <1>2, <1>3, <1>4, LenProperties
<1> HIDE DEF t
<1>6. \A i \in 1 .. L : t[i] = s[i]
  BY <1>4, <1>5, <1>2
<1>12. ASSUME NEW i \in L + 1 .. Len(t) PROVE t[i] = f[i - L] /\ i - L \in 1 .. Len(f)
  <2>1. i \in 1 .. L + Len(f) /\ ~ i <= L /\ i - L \in 1 .. Len(f)
    BY <1>5, <1>2
  <2> QED
    BY <2>1, <1>4
<1>7. t[L + 1] = HeadRecord(o, m) /\ t[L + 2] = Body(o, Least(m, Record))
  <2>1. L + 1 \in L + 1 .. Len(t) /\ L + 2 \in L + 1 .. Len(t) /\ (L + 1) - L = 1 /\ (L + 2) - L = 2
    BY <1>5, <1>3
  <2>2. t[L + 1] = f[1] /\ t[L + 2] = f[2]
    BY <2>1, <1>12
  <2>3. f[2] = b[1]
    BY <1>2, <1>3, <1>5
  <2> QED
    BY <2>2, <2>3, <1>2, <1>3
<1> HIDE DEF L
<1>8. \A i \in L + 2 .. Len(t) : t[i].kind = "data"
  <2> SUFFICES ASSUME NEW i \in L + 2 .. Len(t) PROVE t[i].kind = "data"
    OBVIOUS
  <2>1. i \in L + 1 .. Len(t) /\ i - L \in 2 .. Len(f) /\ (i - L) - 1 \in 1 .. Len(b)
    <3>1. Len(f) = 1 + Len(b)
      BY <1>2
    <3>2. i \in Int /\ L + 2 <= i /\ i <= L + 1 + Len(b)
      BY <1>5
    <3> HIDE DEF b, f
    <3> QED
      BY <3>1, <3>2, <1>5
  <2>2. t[i] = b[(i - L) - 1]
    BY <2>1, <1>12, <1>2
  <2> QED
    BY <2>1, <2>2, <1>3
<1>9. Led(t)
  <2> SUFFICES ASSUME NEW i \in 1 .. Len(t), t[i].kind = "head"
               PROVE  /\ t[i].len = PKG_HEAD_LEN /\ t[i].of >= 1 /\ t[i].says \in Sizes
                      /\ i + 1 \in 1 .. Len(t)
                      /\ t[i + 1] = Body(t[i].of, Least(t[i].says, Record))
    BY <1>4 DEF Led
  <2>1. CASE i <= L
    <3>1. i \in 1 .. Len(s) /\ t[i] = s[i] /\ i \in DOMAIN s
      BY <2>1, <1>5, <1>6 DEF L
    <3>2. i + 1 \in 1 .. L
      BY <3>1, LenProperties DEF Led, L
    <3>3. t[i + 1] = s[i + 1]
      BY <3>2, <1>6
    <3> QED
      BY <3>1, <3>2, <3>3, <1>5 DEF Led
  <2>2. CASE i = L + 1
    BY <2>2, <1>3, <1>5, <1>7 DEF HeadRecord
  <2> QED
    <3>1. i \notin L + 2 .. Len(t)
      BY <1>8
    <3> QED
      BY <2>1, <2>2, <3>1, <1>5
<1>10. NoHead(s) => OneHead(t, o)
  <2> SUFFICES ASSUME NoHead(s), NEW i \in 1 .. Len(t), t[i].kind = "head" PROVE i = L + 1 /\ t[i].of = o
    BY <1>4 DEF OneHead
  <2>1. i \notin 1 .. L
    BY <1>5, <1>6 DEF NoHead, L
  <2>2. i \notin L + 2 .. Len(t)
    BY <1>8
  <2>3. i = L + 1
    BY <2>1, <2>2, <1>5
  <2> QED
    BY <2>3, <1>7 DEF HeadRecord
<1>11. t # <<>> /\ (s # <<>> => t[1] = s[1])
  BY <1>4, <1>5, <1>6 DEF L
<1> QED
  BY <1>4, <1>9, <1>10, <1>11 DEF t, f

LEMMA RepliesType ==
  ASSUME TypeOK, NEW o \in NUL .. MaxRequests, NEW m \in 0 .. MaxReply
  PROVE  down \o Frame(o, m) \in Seq(Records)
  BY FrameIs, ConcatProperties DEF TypeOK

LEMMA InitStepInv == Init => StepInv
  BY DEF Init, StepInv, TypeOK, Led, BodyNext, Accepted, Filled, Units, RetUnits, Uninitialized

LEMMA AskStep ==
  ASSUME StepInv, NEW m \in Sizes, Ask(m)
  PROVE  StepInv'
<1>1. id' = id + 1 /\ id' \in 1 .. MaxRequests /\ up' = up \o Frame(id', m) /\ up \in Seq(Records)
  BY DEF StepInv, TypeOK, Ask
<1>2. up' \in Seq(Records) /\ Led(up)' /\ up' # <<>> /\ (up # <<>> => Head(up') = Head(up))
  BY <1>1, FrameJoins DEF StepInv
<1>3. TypeOK'
  BY <1>1, <1>2 DEF Ask, StepInv, TypeOK, clientVars, retVars
<1>4. BodyNext'
  BY <1>2 DEF Ask, StepInv, BodyNext, clientVars
<1>5. Accepted' /\ Filled'
  BY DEF Ask, StepInv, Accepted, Filled, Blank, Holds, clientVars
<1> QED
  BY <1>2, <1>3, <1>4, <1>5 DEF StepInv

\* What the worker reads is on its own way.
LEMMA ReadsType ==
  ASSUME NEW s \in Seq(Records), s # <<>>, NEW m \in Nat
  PROVE  Rest(s, m) \in Seq(Records)
<1>1. Head(s) \in Records /\ Tail(s) \in Seq(Records)
  BY HeadTailProperties
<1>2. ASSUME m # 0, ~ Head(s).len <= m
      PROVE  Body(Head(s).of, Head(s).len - m) \in Records
  <2>1. Head(s).of \in NUL .. MaxRequests /\ Head(s).len - m \in 1 .. Record
    BY <1>1, <1>2, RecordIs
  <2> QED
    BY <2>1, ShorterBody
<1>3. ASSUME m # 0, ~ Head(s).len <= m
      PROVE  <<Body(Head(s).of, Head(s).len - m)>> \o Tail(s) \in Seq(Records)
  BY <1>1, <1>2, <1>3, ConcatProperties
<1> QED
  BY <1>1, <1>3 DEF Rest

\* What is at retMsg after an answer of k units has been read.
LEMMA ReturnedIs ==
  ASSUME TypeOK, NEW k \in 0 .. PKG_BODY_LEN, NEW of \in NUL .. MaxRequests,
         Returned(k, of, PtrClear)
  PROVE  /\ ret' \in [RetUnits -> OLD .. MaxRequests]
         /\ longest' \in 0 .. PKG_BODY_LEN /\ k <= longest' /\ longest <= longest'
         /\ \A u \in RetUnits : ret'[u] = IF u <= k THEN of ELSE IF u <= PtrClear THEN NUL ELSE ret[u]
BY DEF TypeOK, Returned, RetUnits

\* What a worker takes of a body.
LEMMA TakenIs ==
  ASSUME TypeOK, down # <<>>
  PROVE  Taken(down, expect) \in 0 .. PKG_BODY_LEN /\ Head(down).of \in NUL .. MaxRequests
<1>1. Head(down) \in Records
  BY HeadTailProperties DEF TypeOK
<1> QED
  BY <1>1, RecordIs DEF TypeOK, Taken, Least

LEMMA AskerRet ==
  ASSUME TypeOK, Asker
  PROVE  \/ UNCHANGED retVars
         \/ \E k \in 0 .. PKG_BODY_LEN, of \in NUL .. MaxRequests : Returned(k, of, PtrClear)
<1>1. CASE AskerHead \/ AskerRefuses
  BY <1>1 DEF AskerHead, AskerRefuses
<1>2. CASE AskerBody
  <2>1. CASE expect = 0
    BY <1>2, <2>1 DEF AskerBody, BodyRead
  <2>2. CASE expect # 0
    BY <1>2, <2>2, TakenIs DEF AskerBody, BodyRead
  <2> QED
    BY <2>1, <2>2
<1>3. CASE AskerCutOff
  BY <1>3 DEF AskerCutOff
<1> QED
  BY <1>1, <1>2, <1>3 DEF Asker

LEMMA AskerStep ==
  ASSUME StepInv, Asker
  PROVE  StepInv'
<1>1. UNCHANGED <<up, linked, clientVars, longReply, id, size>>
  BY DEF Asker, AskerHead, AskerRefuses, AskerBody, BodyRead, AskerCutOff
<1>2. down' \in Seq(Records)
  <2>1. down \in Seq(Records) /\ PKG_HEAD_LEN \in Nat /\ expect \in Nat
    BY DEF StepInv, TypeOK
  <2> QED
    BY <2>1, ReadsType DEF Asker, AskerHead, AskerRefuses, AskerBody, BodyRead, AskerCutOff
<1>3. expect' \in 0 .. PKG_BODY_LEN /\ asker' \in {"idle", "head", "body"}
  <2>1. CASE AskerHead
    <3>1. Head(down) \in Records
      BY <2>1, HeadTailProperties DEF StepInv, TypeOK, AskerHead
    <3>2. Head(down).says \in Nat
      BY <3>1, RecordIs
    <3> QED
      BY <2>1, <3>2 DEF AskerHead, Acceptable
  <2>2. CASE AskerRefuses \/ AskerBody \/ AskerCutOff
    BY <2>2 DEF StepInv, TypeOK, AskerRefuses, AskerBody, BodyRead, AskerCutOff
  <2> QED
    BY <2>1, <2>2 DEF Asker
<1>4. ret' \in [RetUnits -> OLD .. MaxRequests] /\ longest' \in 0 .. PKG_BODY_LEN
  BY AskerRet, ReturnedIs DEF StepInv, TypeOK, retVars
<1> QED
  BY <1>1, <1>2, <1>3, <1>4
     DEF StepInv, TypeOK, clientVars, Led, BodyNext, Accepted, Filled, Blank, Holds

LEMMA TunnelHeadStep ==
  ASSUME StepInv, TunnelHead
  PROVE  StepInv'
<1> DEFINE h == Head(up)
<1>1. /\ client = "head" /\ up # <<>> /\ Acceptable(up) /\ want' = h.says /\ headOf' = h.of
      /\ buf' = Cleared /\ up' = Rest(up, PKG_HEAD_LEN) /\ client' = "body"
      /\ UNCHANGED <<down, linked, askerVars, longReply>>
  BY DEF TunnelHead, HeadRead
<1>2. up \in Seq(Records) /\ Led(up) /\ Len(up) >= 1 /\ h = up[1] /\ h \in Records
  BY <1>1, HeadTailProperties, EmptySeq DEF StepInv, TypeOK
<1>3. /\ h.len = PKG_HEAD_LEN /\ h.of \in 1 .. MaxRequests /\ h.says \in Sizes /\ h.says <= PKG_BODY_LEN
      /\ Len(up) >= 2 /\ up[2] = Body(h.of, Least(h.says, Record))
  <2>1. h.kind = "head" /\ h.says <= PKG_BODY_LEN /\ 1 \in DOMAIN up
    BY <1>1, <1>2, LenProperties DEF Acceptable, IsHead
  <2>2. /\ h.len = PKG_HEAD_LEN /\ h.of >= 1 /\ h.says \in Sizes /\ 1 + 1 \in DOMAIN up
        /\ up[1 + 1] = Body(h.of, Least(h.says, Record))
    BY <1>2, <2>1 DEF Led
  <2> QED
    BY <1>2, <2>1, <2>2, RecordIs, LenProperties
<1>4. up' = Tail(up) /\ up' # <<>> /\ Head(up') = up[2]
  <2>1. up' = Tail(up)
    BY <1>1, <1>3 DEF Rest
  <2>2. /\ Tail(up) \in Seq(Records) /\ Len(Tail(up)) = Len(up) - 1
        /\ \A i \in 1 .. Len(Tail(up)) : Tail(up)[i] = up[i + 1]
    BY <1>1, <1>2, HeadTailProperties
  <2>3. Len(Tail(up)) >= 1 /\ 1 \in 1 .. Len(Tail(up))
    BY <1>2, <1>3, <2>2
  <2>4. Tail(up) # <<>>
    <3>1. Len(<<>>) = 0
      OBVIOUS
    <3>2. Len(Tail(up)) # 0
      BY <2>2, <2>3
    <3> QED
      BY <3>1, <3>2, Zenon
  <2>5. Tail(up)[1] = up[1 + 1]
    BY <2>2, <2>3
  <2> QED
    BY <2>1, <2>4, <2>5
<1>5. up' \in Seq(Records) /\ Led(up)'
  BY <1>1, <1>2, <1>3, RestIs
<1>6. /\ buf' \in [Units -> HEAD .. MaxRequests] /\ buf'[PKG_BODY_LEN + 1] = NUL
      /\ Blank'
  <2> DEFINE w == Write(PKG_HEAD_LEN, HEAD)
  <2>2. w \in [Units -> HEAD .. MaxRequests] /\ w[PKG_BODY_LEN + 1] = NUL
    BY DEF StepInv, TypeOK, Write, Units
  <2>3. Cleared = [u \in Units |-> IF u <= Clear THEN NUL ELSE w[u]]
    BY DEF Cleared
  <2> HIDE DEF w
  <2>4. PKG_BODY_LEN + 1 \in Units /\ ~ PKG_BODY_LEN + 1 <= Clear /\ 1 .. Clear \subseteq Units
        /\ NUL \in HEAD .. MaxRequests
    BY DEF Units
  <2>1. /\ Cleared \in [Units -> HEAD .. MaxRequests]
        /\ \A u \in 1 .. Clear : Cleared[u] = NUL
        /\ Cleared[PKG_BODY_LEN + 1] = NUL
    BY <2>2, <2>3, <2>4
  <2> QED
    BY <1>1, <2>1 DEF Blank
<1>7. TypeOK'
  <2>1. want' \in 0 .. PKG_BODY_LEN
    BY <1>1, <1>2, <1>3, RecordIs
  <2> QED
    BY <1>1, <2>1, <1>5, <1>6 DEF StepInv, TypeOK, askerVars, retVars
<1> QED
  BY <1>1, <1>3, <1>4, <1>5, <1>6, <1>7 DEF StepInv, BodyNext, Accepted, Filled

LEMMA TunnelSkipsStep ==
  ASSUME StepInv, TunnelSkips
  PROVE  StepInv'
<1> DEFINE h == Head(up)
           k == Least(PKG_HEAD_LEN, h.len)
<1>1. up \in Seq(Records) /\ Led(up) /\ h \in Records /\ up # <<>>
  BY HeadTailProperties DEF StepInv, TypeOK, TunnelSkips
<1>2. up' \in Seq(Records) /\ Led(up)'
  BY <1>1, RestIs DEF TunnelSkips
<1>3. k \in 1 .. PKG_BODY_LEN /\ buf' = Write(k, HEAD)
  BY <1>1, RecordIs DEF TunnelSkips, Taken, Least
<1> HIDE DEF k
<1>4. buf' \in [Units -> HEAD .. MaxRequests] /\ buf'[PKG_BODY_LEN + 1] = NUL
  <2>1. /\ buf \in [Units -> HEAD .. MaxRequests] /\ buf[PKG_BODY_LEN + 1] = NUL
        /\ buf' = [u \in Units |-> IF u <= k THEN HEAD ELSE buf[u]]
    BY <1>3 DEF StepInv, TypeOK, Write
  <2>2. PKG_BODY_LEN + 1 \in Units /\ ~ PKG_BODY_LEN + 1 <= k /\ HEAD \in HEAD .. MaxRequests
    BY <1>3 DEF Units
  <2> QED
    BY <2>1, <2>2
<1> QED
  BY <1>2, <1>4 DEF StepInv, TypeOK, BodyNext, Accepted, Filled, TunnelSkips, askerVars, retVars

LEMMA TunnelBodyStep ==
  ASSUME StepInv, TunnelBody
  PROVE  StepInv'
<1>1. CASE up = <<>>
  BY <1>1 DEF TunnelBody, StepInv, TypeOK, Led, BodyNext, Accepted, Filled, Blank, Holds, askerVars, retVars
<1>2. CASE up # <<>>
  <2> DEFINE t == Least(want, Record)
  <2>1. /\ headOf \in 1 .. MaxRequests /\ want \in Sizes /\ want \in 1 .. PKG_BODY_LEN
        /\ Head(up) = Body(headOf, t) /\ Blank
    BY <1>2 DEF TunnelBody, StepInv, TypeOK, BodyNext, Accepted, Filled
  <2>2. t \in 1 .. PKG_BODY_LEN /\ t <= want /\ t <= Record
    BY <2>1 DEF Least
  <2>3. Taken(up, want) = t /\ Head(up).of = headOf /\ Head(up).kind = "data"
    BY <2>1, <2>2 DEF Taken, Body, Least
  <2>4. up' \in Seq(Records) /\ Led(up)'
    BY <1>2, <2>1, <2>3, RestIs DEF TunnelBody, StepInv, TypeOK
  <2>5. buf' = Write(t, headOf)
    BY <1>2, <2>3 DEF TunnelBody
  <2> HIDE DEF t
  <2>6. /\ buf' \in [Units -> HEAD .. MaxRequests] /\ buf'[PKG_BODY_LEN + 1] = NUL
        /\ \A u \in 1 .. t : buf'[u] = headOf
        /\ \A u \in t + 1 .. Clear : buf'[u] = NUL
    <3>1. /\ buf \in [Units -> HEAD .. MaxRequests] /\ buf[PKG_BODY_LEN + 1] = NUL
          /\ buf' = [u \in Units |-> IF u <= t THEN headOf ELSE buf[u]]
          /\ headOf \in HEAD .. MaxRequests
      BY <2>1, <2>5 DEF StepInv, TypeOK, Write
    <3>2. /\ PKG_BODY_LEN + 1 \in Units /\ ~ PKG_BODY_LEN + 1 <= t
          /\ 1 .. t \subseteq Units /\ \A u \in t + 1 .. Clear : u \in Units /\ ~ u <= t /\ u \in 1 .. Clear
      BY <2>2 DEF Units
    <3> QED
      BY <2>1, <3>1, <3>2 DEF Blank
  <2>7. Holds'
    BY <2>6 DEF Holds, t, TunnelBody
  <2> QED
    BY <2>1, <2>4, <2>6, <2>7 DEF TunnelBody, StepInv, TypeOK, BodyNext, Accepted, Filled, askerVars, retVars
<1> QED
  BY <1>1, <1>2

LEMMA ReplyStep ==
  ASSUME StepInv, NEW m \in 0 .. MaxReply, Reply(m)
  PROVE  StepInv'
<1>1. client = "call" /\ client' = "head" /\ UNCHANGED <<up, linked, askerVars, want, headOf, buf>>
  BY DEF Reply, Answered
<1>2. buf[1] \in NUL .. MaxRequests
  <2>1. want \in Sizes /\ want \in Nat /\ want # 0 /\ headOf \in 1 .. MaxRequests
    BY <1>1 DEF StepInv, Accepted
  <2>2. Least(want, Record) >= 1
    BY <2>1 DEF Least
  <2>3. 1 \in 1 .. Clear /\ 1 \in 1 .. Least(want, Record)
    BY <2>1, <2>2 DEF Least
  <2> QED
    BY <1>1, <2>1, <2>3 DEF StepInv, Filled, Blank, Holds
<1>3. down' \in Seq(Records) /\ longReply' \in BOOLEAN
  BY <1>2, RepliesType DEF Reply, Answered, StepInv, TypeOK
<1> QED
  BY <1>1, <1>3 DEF StepInv, TypeOK, Led, BodyNext, Accepted, Filled, askerVars, retVars

LEMMA TunnelEndsStep ==
  ASSUME StepInv, TunnelEnds
  PROVE  StepInv'
  BY DEF StepInv, TypeOK, TunnelEnds, Led, BodyNext, Accepted, Filled, askerVars, retVars

LEMMA BreakStep ==
  ASSUME StepInv, Break
  PROVE  StepInv'
<1>1. TypeOK' /\ Led(up)'
  <2>1. <<>> \in Seq(Records) /\ DOMAIN <<>> = {}
    OBVIOUS
  <2>2. up' = <<>> /\ down' = <<>> /\ linked' \in BOOLEAN
    BY DEF Break
  <2>3. Led(up)'
    BY <2>1, <2>2 DEF Led
  <2>4. TypeOK'
    BY <2>1, <2>2 DEF StepInv, TypeOK, Break, askerVars, retVars, clientVars
  <2> QED
    BY <2>3, <2>4
<1>2. BodyNext' /\ Accepted' /\ Filled'
  BY DEF StepInv, BodyNext, Accepted, Filled, Blank, Holds, Break, clientVars
<1> QED
  BY <1>1, <1>2 DEF StepInv

LEMMA StepInvKept == StepInv /\ [Next]_vars => StepInv'
<1> SUFFICES ASSUME StepInv, [Next]_vars PROVE StepInv'
  OBVIOUS
<1>1. CASE UNCHANGED vars
  BY <1>1 DEF vars, askerVars, retVars, clientVars, StepInv, TypeOK, Led, BodyNext, Accepted, Filled, Blank, Holds
<1> QED
  BY <1>1, AskStep, AskerStep, TunnelHeadStep, TunnelSkipsStep, TunnelBodyStep, ReplyStep, TunnelEndsStep, BreakStep
     DEF Next, Tunnel

\* CARun's head and body stay together, whatever is skipped before them.
THEOREM InStep == Spec => []ClientInStep
<1>1. StepInv => ClientInStep
  BY DEF StepInv, ClientInStep, BodyNext, Body
<1> QED
  BY <1>1, InitStepInv, StepInvKept, PTL DEF Spec

LEMMA OwnKept == UNCHANGED askerVars => (Own' <=> Own)
BY DEF Own, askerVars, retVars

LEMMA AskTurn ==
  ASSUME StepInv, InTurn, NEW m \in Sizes, Ask(m)
  PROVE  InTurn'
<1> SUFFICES ASSUME linked', ~longReply' PROVE InTurn'
  BY DEF InTurn
<1>1. /\ asker = "idle" /\ linked /\ ~longReply
      /\ id' = id + 1 /\ id' \in 1 .. MaxRequests /\ up' = up \o Frame(id', m)
      /\ asker' = "head" /\ client' = client /\ down' = down
      /\ up \in Seq(Records) /\ Led(up)
  BY DEF Ask, clientVars, StepInv, TypeOK
<1>2. client = "head" /\ down = <<>> /\ NoHead(up)
  BY <1>1 DEF InTurn
<1>3. OneHead(up', id')
  BY <1>1, <1>2, FrameJoins
<1> QED
  BY <1>1, <1>2, <1>3 DEF InTurn

LEMMA AskerTurn ==
  ASSUME StepInv, InTurn, Asker
  PROVE  InTurn'
<1> SUFFICES ASSUME linked', ~longReply' PROVE InTurn'
  BY DEF InTurn
<1>1. linked /\ ~longReply /\ UNCHANGED <<up, id, clientVars>>
  <2>1. UNCHANGED <<linked, longReply, up, id, clientVars>>
    BY DEF Asker, AskerHead, AskerRefuses, AskerBody, BodyRead, AskerCutOff
  <2> QED
    BY <2>1
<1>2. id \in NUL .. MaxRequests
  BY DEF StepInv, TypeOK
<1>3. ASSUME asker = "head", down # <<>>
      PROVE  /\ client = "head" /\ NoHead(up) /\ Acceptable(down)
             /\ Head(down).says \in 0 .. Record
             /\ Rest(down, PKG_HEAD_LEN) = BodyRecords(id, Head(down).says)
  <2>1. PICK m \in 0 .. Least(MaxReply, Record) : down = Frame(id, m)
    BY <1>1, <1>3 DEF InTurn
  <2>2. m \in {0} \cup Sizes \cup 1 .. MaxReply /\ m <= PKG_BODY_LEN /\ m \in 0 .. Record
    BY DEF Least
  <2>3. Head(down) = HeadRecord(id, m) /\ Tail(down) = BodyRecords(id, m)
    BY <1>2, <2>1, <2>2, FrameIs
  <2>4. Rest(down, PKG_HEAD_LEN) = Tail(down)
    BY <2>3 DEF Rest, HeadRecord
  <2>5. client = "head" /\ NoHead(up)
    BY <1>1, <1>3 DEF InTurn
  <2> QED
    BY <2>2, <2>3, <2>4, <2>5 DEF HeadRecord, Acceptable, IsHead
<1>4. CASE AskerHead
  BY <1>1, <1>3, <1>4 DEF AskerHead, InTurn, clientVars
<1>5. CASE AskerRefuses
  BY <1>3, <1>5 DEF AskerRefuses
<1>6. CASE AskerBody
  <2>1. /\ client = "head" /\ NoHead(up) /\ expect \in 0 .. Record
        /\ down = BodyRecords(id, expect)
    BY <1>1, <1>6 DEF InTurn, AskerBody, BodyRead
  <2>2. /\ expect = 0 => down = <<>>
        /\ expect # 0 => down = <<Body(id, expect)>>
    <3>1. expect \in Nat /\ (expect # 0 => expect \in 1 .. Record)
      BY <2>1
    <3> QED
      BY <1>2, <2>1, <3>1, BodyIs
  <2>3. Own' /\ down' = <<>>
    <3>1. CASE expect = 0
      <4>1. answer' = NUL /\ down' = down /\ Returned(0, NUL, PtrClear)
        BY <1>6, <3>1 DEF AskerBody, BodyRead
      <4>2. 1 \in RetUnits /\ ~ 1 <= 0 /\ 1 <= PtrClear /\ 0 \in 0 .. PKG_BODY_LEN /\ NUL \in NUL .. MaxRequests
        BY DEF RetUnits
      <4>3. ret'[1] = NUL
        BY <4>1, <4>2, ReturnedIs DEF StepInv
      <4> QED
        BY <3>1, <2>2, <4>1, <4>3 DEF Own
    <3>2. CASE expect # 0
      <4>1. Head(down) = Body(id, expect) /\ Tail(down) = <<>>
        <5> DEFINE b == Body(id, expect)
        <5> HIDE DEF b
        <5>1. Head(<<b>>) = b /\ Tail(<<b>>) = <<>>
          OBVIOUS
        <5> QED
          BY <5>1, <3>2, <2>2 DEF b
      <4>2. /\ answer' = id /\ down' = <<>> /\ expect' = expect /\ id' = id
            /\ expect \in 1 .. PKG_BODY_LEN
            /\ Returned(expect, id, PtrClear)
        <5>1. Head(down).len = expect /\ Head(down).of = id /\ expect \in Nat /\ expect <= PKG_BODY_LEN
          BY <2>1, <4>1 DEF Body
        <5>2. Taken(down, expect) = expect /\ Rest(down, expect) = <<>>
          BY <3>2, <4>1, <5>1 DEF Taken, Least, Rest
        <5> QED
          BY <1>1, <1>6, <3>2, <5>1, <5>2 DEF AskerBody, BodyRead
      <4>3. \A u \in RetUnits : ret'[u] = IF u <= expect THEN id ELSE IF u <= PtrClear THEN NUL ELSE ret[u]
        BY <1>2, <4>2, ReturnedIs DEF StepInv
      <4>4. \A u \in 1 .. expect : u \in RetUnits /\ u <= expect
        BY <4>2 DEF RetUnits
      <4>5. expect < PtrClear /\ expect < PKG_BODY_LEN =>
               expect + 1 \in RetUnits /\ ~ expect + 1 <= expect /\ expect + 1 <= PtrClear
        BY <4>2 DEF RetUnits
      <4> QED
        BY <4>2, <4>3, <4>4, <4>5 DEF Own
    <3> QED
      BY <3>1, <3>2
  <2> QED
    BY <1>1, <1>6, <2>1, <2>3 DEF InTurn, AskerBody, BodyRead, clientVars
<1>7. CASE AskerCutOff
  BY <1>1, <1>7 DEF AskerCutOff
<1> QED
  BY <1>4, <1>5, <1>6, <1>7 DEF Asker

LEMMA TunnelTurn ==
  ASSUME StepInv, InTurn, TunnelHead \/ TunnelSkips \/ TunnelBody \/ TunnelEnds
  PROVE  InTurn'
<1> SUFFICES ASSUME linked', ~longReply' PROVE InTurn'
  BY DEF InTurn
<1>1. linked /\ ~longReply /\ UNCHANGED <<down, askerVars>> /\ up \in Seq(Records) /\ Led(up)
  <2>1. UNCHANGED <<linked, longReply, down, askerVars>>
    BY DEF TunnelHead, HeadRead, TunnelSkips, TunnelBody, TunnelEnds
  <2> QED
    BY <2>1 DEF StepInv, TypeOK
<1>2. CASE TunnelHead
  <2>1. /\ client = "head" /\ up # <<>> /\ IsHead(up) /\ headOf' = Head(up).of
        /\ up' = Rest(up, PKG_HEAD_LEN) /\ client' = "body"
    BY <1>2 DEF TunnelHead, HeadRead, Acceptable
  <2>2. Len(up) \in Nat \ {0} /\ Head(up) = up[1] /\ up[1].kind = "head" /\ up[1].len = PKG_HEAD_LEN
    BY <1>1, <2>1, EmptySeq DEF IsHead, Led
  <2>3. asker = "head" /\ down = <<>> /\ OneHead(up, id)
    BY <1>1, <2>1, <2>2 DEF InTurn, NoHead
  <2>4. up' = Tail(up) /\ Len(Tail(up)) = Len(up) - 1 /\ (\A i \in 1 .. Len(Tail(up)) : Tail(up)[i] = up[i + 1])
    BY <1>1, <2>1, <2>2, HeadTailProperties DEF Rest
  <2>5. headOf' = id
    BY <2>1, <2>2, <2>3, <1>1 DEF OneHead
  <2>6. NoHead(up')
    <3> SUFFICES ASSUME NEW i \in 1 .. Len(Tail(up)) PROVE up[i + 1].kind = "data"
      BY <2>4 DEF NoHead
    <3>1. i + 1 \in 1 .. Len(up) /\ i + 1 # 1 /\ 1 \in 1 .. Len(up)
      BY <2>2, <2>4
    <3>2. up[i + 1].kind # "head"
      BY <3>1, <2>2, <2>3 DEF OneHead
    <3>3. up[i + 1] \in Records
      BY <3>1, <1>1
    <3> QED
      BY <3>2, <3>3, RecordIs
  <2> QED
    BY <1>1, <2>1, <2>3, <2>5, <2>6 DEF InTurn, askerVars, retVars
<1>3. CASE TunnelSkips
  <2>1. client = "head" /\ client' = "head" /\ headOf' = headOf /\ up' = Rest(up, PKG_HEAD_LEN) /\ up # <<>>
    BY <1>3 DEF TunnelSkips
  <2>2. /\ NoHead(up) => NoHead(up')
        /\ OneHead(up, id) => OneHead(up', id)
    BY <1>1, <2>1, RestIs
  <2> QED
    BY <1>1, <2>1, <2>2, OwnKept DEF InTurn, askerVars, retVars
<1>4. CASE TunnelBody
  <2>1. up # <<>> /\ client = "body" /\ client' = "call" /\ headOf' = headOf /\ up' = Rest(up, want)
    BY <1>1, <1>4 DEF TunnelBody
  <2>2. Head(up).kind = "data" /\ want \in Sizes
    BY <2>1 DEF StepInv, BodyNext, Accepted, Body
  <2>4. want \in Nat \ {0}
    BY <2>2
  <2>3. NoHead(up) => NoHead(up')
    BY <1>1, <2>1, <2>2, <2>4, RestIs
  <2> QED
    BY <1>1, <2>1, <2>3 DEF InTurn, askerVars, retVars
<1>5. CASE TunnelEnds
  BY <1>1, <1>5 DEF TunnelEnds
<1> QED
  BY <1>2, <1>3, <1>4, <1>5

LEMMA ReplyTurn ==
  ASSUME StepInv, InTurn, NEW m \in 0 .. MaxReply, Reply(m)
  PROVE  InTurn'
<1> SUFFICES ASSUME linked', ~longReply' PROVE InTurn'
  BY DEF InTurn
<1>1. /\ linked /\ ~longReply /\ m <= Record /\ client = "call" /\ client' = "head"
      /\ down' = down \o Frame(buf[1], m)
      /\ UNCHANGED <<up, askerVars>>
  <2>1. /\ client = "call" /\ client' = "head" /\ linked' = linked
        /\ longReply' = (longReply \/ m > Record)
        /\ UNCHANGED <<up, askerVars>>
    BY DEF Reply, Answered
  <2>2. linked /\ ~longReply /\ ~ m > Record
    BY <2>1
  <2>3. down' = down \o Frame(buf[1], m)
    BY <2>2 DEF Reply, Answered
  <2> QED
    BY <2>1, <2>2, <2>3
<1>2. asker = "head" /\ headOf = id /\ down = <<>> /\ NoHead(up)
  BY <1>1 DEF InTurn
<1>3. buf[1] = id
  <2>1. want \in Sizes /\ want \in Nat \ {0} /\ Holds
    BY <1>1 DEF StepInv, Accepted, Filled
  <2>2. 1 \in 1 .. Least(want, Record)
    BY <2>1 DEF Least
  <2> QED
    BY <1>2, <2>1, <2>2 DEF Holds
<1>4. id \in NUL .. MaxRequests /\ m \in {0} \cup Sizes \cup 1 .. MaxReply /\ m \in 0 .. Least(MaxReply, Record)
  BY <1>1 DEF StepInv, TypeOK, Least
<1>5. down' = Frame(id, m)
  BY <1>1, <1>2, <1>3, <1>4, FrameIs, ConcatEmptySeq
<1> QED
  BY <1>1, <1>2, <1>4, <1>5 DEF InTurn, askerVars, retVars

\* What is cleared of the memory at retMsg, and what is read into it.
LEMMA ReachKept == StepInv /\ Reach /\ [Next]_vars => Reach'
<1> SUFFICES ASSUME StepInv, Reach, [Next]_vars PROVE Reach'
  OBVIOUS
<1>1. CASE UNCHANGED retVars
  BY <1>1 DEF retVars, Reach
<1>2. CASE Asker
  <2>1. ASSUME NEW k \in 0 .. PKG_BODY_LEN, NEW of \in NUL .. MaxRequests, Returned(k, of, PtrClear)
        PROVE  Reach'
    <3>1. /\ longest' \in Nat /\ longest \in Nat /\ k <= longest' /\ longest <= longest'
          /\ \A u \in RetUnits : ret'[u] = IF u <= k THEN of ELSE IF u <= PtrClear THEN NUL ELSE ret[u]
      BY <2>1, ReturnedIs DEF StepInv, TypeOK
    <3>2. ASSUME NEW u \in RetUnits, u > longest' PROVE ~ u <= k /\ u > longest
      BY <3>1, <3>2 DEF RetUnits
    <3> QED
      BY <3>1, <3>2 DEF Reach
  <2> QED
    BY <1>1, <1>2, <2>1, AskerRet DEF StepInv
<1>3. ASSUME ~Asker PROVE UNCHANGED retVars
  BY <1>3 DEF Next, vars, askerVars, Ask, Tunnel, TunnelHead, HeadRead, TunnelSkips, TunnelBody, TunnelEnds,
     Reply, Answered, Break
<1> QED
  BY <1>1, <1>2, <1>3

LEMMA InTurnKept == StepInv /\ InTurn /\ [Next]_vars => InTurn'
<1> SUFFICES ASSUME StepInv, InTurn, [Next]_vars PROVE InTurn'
  OBVIOUS
<1>1. CASE UNCHANGED vars
  BY <1>1, OwnKept DEF vars, askerVars, retVars, clientVars, InTurn
<1>2. CASE Break
  BY <1>2 DEF Break, InTurn
<1> QED
  BY <1>1, <1>2, AskTurn, AskerTurn, TunnelTurn, ReplyTurn DEF Next, Tunnel

\* What EpollServerRun reads back is the answer to what it has sent; what it sends on
\* begins with it, and is no more, unless a pointer's size is less and an older string
\* was longer.
THEOREM OwnAnswers == Spec => []AnswerIsOwn
<1>1. ASSUME Init PROVE InTurn /\ Reach
  <2>1. InTurn
    BY <1>1 DEF Init, InTurn, NoHead
  <2>2. PICK k \in Found : ret = Uninitialized(k) /\ longest = k
    BY <1>1 DEF Init
  <2>3. \A u \in RetUnits : u > k => ~ u <= k
    BY DEF RetUnits
  <2> QED
    BY <2>1, <2>2, <2>3 DEF Reach, Uninitialized
<1>2. ASSUME StepInv, InTurn, Reach PROVE AnswerIsOwn
  <2> SUFFICES ASSUME id > 0, asker = "idle", linked, ~longReply
               PROVE  \/ answer = NUL /\ Sent = {}
                      \/ /\ answer = id
                         /\ 1 .. expect \subseteq Sent /\ \A u \in 1 .. expect : ret[u] = id
                         /\ expect < PtrClear \/ longest <= expect => Sent = 1 .. expect
    BY DEF AnswerIsOwn
  <2>1. Own
    BY <1>2 DEF InTurn
  <2>2. \A u \in Sent : u \in RetUnits /\ \A v \in 1 .. u : ret[v] # NUL
    BY DEF Sent
  <2>3. CASE answer = NUL /\ ret[1] = NUL
    <3>1. \A u \in RetUnits : 1 \in 1 .. u
      BY DEF RetUnits
    <3>2. Sent = {}
      BY <2>2, <2>3, <3>1
    <3> QED
      BY <2>3, <3>2
  <2>4. CASE ~ (answer = NUL /\ ret[1] = NUL)
    <3>1. /\ answer = id /\ expect \in 1 .. PKG_BODY_LEN
          /\ \A u \in 1 .. expect : ret[u] = id
          /\ expect < PtrClear /\ expect < PKG_BODY_LEN => ret[expect + 1] = NUL
      BY <2>1, <2>4 DEF Own
    <3>2. ASSUME NEW u \in 1 .. expect PROVE u \in Sent
      <4>1. u \in RetUnits /\ \A v \in 1 .. u : v \in 1 .. expect
        BY <3>1 DEF RetUnits
      <4> QED
        BY <3>1, <4>1 DEF Sent
    <3>3. ASSUME expect < PtrClear \/ longest <= expect, NEW u \in Sent PROVE u \in 1 .. expect
      <4>1. u \in 1 .. PKG_BODY_LEN /\ \A v \in 1 .. u : ret[v] # NUL
        BY <2>2 DEF RetUnits
      <4>2. longest \in Nat
        BY <1>2 DEF StepInv, TypeOK
      <4>3. ASSUME expect < PKG_BODY_LEN PROVE ret[expect + 1] = NUL
        <5>1. CASE expect < PtrClear
          BY <3>1, <4>3, <5>1
        <5>2. CASE longest <= expect
          <6>1. expect + 1 \in RetUnits /\ expect + 1 > longest
            BY <3>1, <4>2, <4>3, <5>2 DEF RetUnits
          <6> QED
            BY <1>2, <6>1 DEF Reach
        <5> QED
          BY <3>3, <5>1, <5>2
      <4>4. ASSUME u > expect PROVE FALSE
        <5>1. expect < PKG_BODY_LEN /\ expect + 1 \in 1 .. u
          BY <3>1, <4>1, <4>4
        <5> QED
          BY <4>1, <4>3, <5>1
      <4> QED
        BY <3>1, <4>1, <4>4
    <3> QED
      BY <3>1, <3>2, <3>3
  <2> QED
    BY <2>3, <2>4
<1> QED
  BY <1>1, <1>2, InitStepInv, StepInvKept, InTurnKept, ReachKept, PTL DEF Spec

LEMMA FunctionIsSeq ==
  ASSUME NEW L \in Nat, NEW S, NEW b \in [1 .. L -> S]
  PROVE  b \in Seq(S) /\ Len(b) = L
OBVIOUS

LEMMA FirstOf ==
  ASSUME NEW T \in SUBSET Nat, T # {}
  PROVE  \E x \in T : \A y \in T : x <= y
<1> DEFINE Lt == OpToRel(<, Nat)
<1>1. IsWellFoundedOn(Lt, Nat)
  BY NatLessThanWellFounded, Zenon
<1>2. \A y, z \in Nat : y < z => <<y, z>> \in Lt
  BY Zenon DEF OpToRel
<1> HIDE DEF Lt
<1>3. PICK x \in T : \A y \in T : ~ (<<y, x>> \in Lt)
  BY <1>1, WFMin
<1>4. \A y \in T : x <= y
  <2> TAKE y \in T
  <2>1. x \in Nat /\ y \in Nat /\ (y < x => <<y, x>> \in Lt)
    BY <1>2
  <2>2. ~ y < x
    BY <1>3, <2>1
  <2> QED
    BY <2>1, <2>2
<1> QED
  BY <1>4

\* The string passed is the buffer up to its first NUL.
LEMMA PassedIs ==
  ASSUME TypeOK, NEW k \in Units, buf[k] = NUL, \A u \in 1 .. k - 1 : buf[u] # NUL
  PROVE  /\ Passed \in Seq(Int) /\ Len(Passed) = k - 1
         /\ \A u \in 1 .. k - 1 : Passed[u] = buf[u]
<1>1. buf \in Seq(HEAD .. MaxRequests) /\ Len(buf) = PKG_BODY_LEN + 1
  <2>1. buf \in [1 .. PKG_BODY_LEN + 1 -> HEAD .. MaxRequests] /\ PKG_BODY_LEN + 1 \in Nat
    BY DEF TypeOK, Units
  <2> QED
    BY <2>1, FunctionIsSeq
<1> DEFINE I == {i \in 1 .. Len(buf) : buf[i] = NUL}
<1>2. k \in I /\ \A y \in I : k <= y
  BY <1>1 DEF Units
<1>3. Min(I) = k
  BY <1>2, <1>1 DEF Min
<1>4. SelectInSeq(buf, LAMBDA x : x = NUL) = k
  BY <1>2, <1>3, Zenon DEF SelectInSeq
<1>5. Passed = SubSeq(buf, 1, k - 1)
  BY <1>4, Zenon DEF Passed
<1>6. k - 1 \in 0 .. PKG_BODY_LEN /\ \A u \in 1 .. k - 1 : buf[u] \in Int
  <2>1. k \in 1 .. PKG_BODY_LEN + 1
    BY DEF Units
  <2>2. \A u \in 1 .. PKG_BODY_LEN + 1 : buf[u] \in HEAD .. MaxRequests
    BY DEF Units, TypeOK
  <2> QED
    BY <2>1, <2>2
<1> QED
  BY <1>5, <1>6, SubSeqProperties

\* The buffer has an end.
LEMMA Ends ==
  ASSUME TypeOK
  PROVE  \E k \in Units : buf[k] = NUL /\ \A u \in 1 .. k - 1 : buf[u] # NUL
<1> DEFINE Z == {k \in Units : buf[k] = NUL}
<1>1. PKG_BODY_LEN + 1 \in Z /\ Z \in SUBSET Nat
  BY DEF TypeOK, Units
<1>2. PICK k \in Z : \A y \in Z : k <= y
  BY <1>1, FirstOf
<1>3. \A u \in 1 .. k - 1 : u \in Units /\ ~ k <= u
  BY <1>1 DEF Units
<1> QED
  BY <1>2, <1>3

LEMMA PassedHolds ==
  ASSUME StepInv
  PROVE  /\ Passed \in Seq(Int)
         /\ RequestPassed
<1>1. PICK k \in Units : buf[k] = NUL /\ \A u \in 1 .. k - 1 : buf[u] # NUL
  BY Ends DEF StepInv
<1>2. /\ Passed \in Seq(Int) /\ Len(Passed) = k - 1
      /\ \A u \in 1 .. k - 1 : Passed[u] = buf[u]
  BY <1>1, PassedIs DEF StepInv
<1>3. k \in 1 .. PKG_BODY_LEN + 1
  BY DEF Units
<1>4. ASSUME client = "call", Passed # <<>>
      PROVE  /\ Len(Passed) >= Least(want, Record)
             /\ \A i \in 1 .. Least(want, Record) : Passed[i] = headOf
             /\ want < Clear => Len(Passed) = want
  <2> DEFINE t == Least(want, Record)
  <2>1. k # 1
    BY <1>2, <1>4
  <2>2. Holds
    BY <1>1, <1>3, <1>4, <2>1 DEF StepInv, Filled, Blank
  <2>3. headOf \in 1 .. MaxRequests /\ want \in Sizes /\ want \in Nat \ {0}
    BY <1>4 DEF StepInv, Accepted
  <2>4. t \in Nat \ {0} /\ (want < Clear => t = want)
    BY <2>3 DEF Least
  <2>5. \A u \in 1 .. t : buf[u] # NUL
    BY <2>2, <2>3 DEF Holds
  <2>6. k > t
    BY <1>1, <1>3, <2>4, <2>5
  <2>7. \A i \in 1 .. t : Passed[i] = headOf
    <3>1. \A i \in 1 .. t : i \in 1 .. k - 1
      BY <1>3, <2>4, <2>6
    <3>2. \A i \in 1 .. t : buf[i] = headOf
      BY <2>2 DEF Holds
    <3> QED
      BY <1>2, <3>1, <3>2
  <2>8. ASSUME want < Clear PROVE k = want + 1
    <3>1. want + 1 \in t + 1 .. Clear
      BY <2>3, <2>4, <2>8
    <3>2. buf[want + 1] = NUL
      BY <3>1, <2>2 DEF Holds
    <3> QED
      BY <1>1, <1>3, <2>3, <2>4, <2>6, <2>8, <3>2
  <2> QED
    BY <1>2, <1>3, <2>3, <2>4, <2>6, <2>7, <2>8
<1> QED
  BY <1>2, <1>4 DEF RequestPassed

\* gotoClient is called with the request of the head accepted, up to a record of it.
THEOREM RequestsPassed == Spec => []RequestPassed
<1>1. StepInv => RequestPassed
  BY PassedHolds
<1> QED
  BY <1>1, InitStepInv, StepInvKept, PTL DEF Spec

-----------------------------------------------------------------------------
(* The calls to the local server. *)

LEMMA Answers == 2 <= MaxReply /\ \A r \in Totals : r \in 1 .. MaxReply
BY AnswerAssumption

USE Answers

LEMMA InitCall == ExInit => Shape /\ Receipt /\ Calling
<1> SUFFICES ASSUME Local!Init PROVE Shape /\ Receipt /\ Calling
  BY DEF ExInit
<1>1. CallTypes
  <2>1. got \in Seq(Int)
    BY EmptySeq, Zenon DEF Local!Init
  <2>2. edge \in BOOLEAN /\ nospace \in BOOLEAN /\ EPOLLIN \in BOOLEAN /\ odd \in BOOLEAN /\ fin \in BOOLEAN
    BY Zenon DEF Local!Init
  <2> QED
    BY <2>1, <2>2 DEF Local!Init, CallTypes
<1>2. Shape
  BY <1>1 DEF Local!Init, Shape, AnswerLength, Begun, Fresh, Epolls, Before, Early
<1>3. Receipt
  BY DEF Local!Init, Receipt, Count, Due, One, Got, Placed
<1> QED
  BY <1>2, <1>3 DEF Calling, Local!Init

LEMMA NothingYet ==
  ASSUME NEW L \in Nat, NEW a, NEW b, NEW c \in 1 .. L, a = 0, b = 0
  PROVE  a + b + c <= L
OBVIOUS

LEMMA CallShape ==
  ASSUME Shape, NEW len \in Nat, Local!Call(len)
  PROVE  Shape'
<1>1. /\ pc = "idle" /\ pc' = "connect" /\ length' = len /\ rest' \in 1 .. MaxReply
      /\ UNCHANGED <<edge, EPOLLIN, nsend, n, nospace, sends, got, short, odd, reply, avail, fin, efds, cut>>
  BY DEF Local!Call, Local!sending, Local!epolls
<1>2. got = <<>> /\ n = 0 /\ nsend = 0 /\ sends = 0 /\ ~nospace /\ reply = 0 /\ avail = 0 /\ ~EPOLLIN
  BY <1>1 DEF Shape, Fresh
<1>3. CallTypes'
  BY <1>1 DEF Shape, CallTypes
<1>4. AnswerLength'
  <2>1. reply' = 0 /\ avail' = 0 /\ rest' \in 1 .. MaxReply
    BY <1>1, <1>2
  <2>2. reply' + avail' + rest' <= MaxReply
    BY <2>1, NothingYet
  <2>3. reply' # -1 /\ reply' >= 0
    BY <2>1
  <2> QED
    BY <2>2, <2>3, Zenon DEF AnswerLength
<1>5. Begun' /\ Fresh' /\ Before' /\ Early'
  BY <1>1, <1>2 DEF Begun, Fresh, Before, Early
<1>6. Epolls'
  BY <1>1 DEF Shape, Epolls
<1> QED
  BY <1>3, <1>4, <1>5, <1>6 DEF Shape

LEMMA ReturnShape ==
  ASSUME Shape, Local!Return
  PROVE  Shape'
<1>1. CallTypes'
  <2>1. /\ edge' = FALSE /\ EPOLLIN' = FALSE /\ odd' = FALSE /\ fin' = FALSE /\ got' = <<>>
        /\ pc' = "idle" /\ length' = 0 /\ nsend' = 0 /\ n' = 0 /\ reply' = 0 /\ rest' = 0 /\ avail' = 0
        /\ nospace' = FALSE /\ sends' = 0 /\ short' = 0 /\ UNCHANGED <<efds, cut>>
    BY DEF Local!Return, Local!epolls
  <2>2. got' \in Seq(Int)
    BY <2>1, EmptySeq, Zenon
  <2>3. /\ edge' \in BOOLEAN /\ nospace' \in BOOLEAN /\ EPOLLIN' \in BOOLEAN /\ odd' \in BOOLEAN /\ fin' \in BOOLEAN
    BY <2>1, Zenon
  <2> QED
    BY <2>1, <2>2, <2>3 DEF Shape, CallTypes
<1> QED
  BY <1>1 DEF Local!Return, Local!epolls, Shape, CallTypes, AnswerLength, Begun, Fresh, Epolls, Before, Early

LEMMA ConnectShape ==
  ASSUME Shape, Local!ConnectFails \/ Local!Connect \/ Local!Getchar
  PROVE  Shape'
<1>1. CASE Local!ConnectFails
  BY <1>1 DEF Local!ConnectFails, Local!sending, Local!server, Local!epolls, Local!Failed,
     Shape, CallTypes, AnswerLength, Begun, Fresh, Epolls, Before, Early
<1>2. CASE Local!Connect
  <2>1. CallTypes'
    BY <1>2 DEF Local!Connect, Local!sending, Local!server, Shape, CallTypes
  <2> QED
    BY <1>2, <2>1 DEF Local!Connect, Local!sending, Local!server, Shape, CallTypes,
     AnswerLength, Begun, Fresh, Epolls, Before, Early
<1>3. CASE Local!Getchar
  BY <1>3 DEF Local!Getchar, Local!sending, Local!server, Local!epolls,
     Shape, CallTypes, AnswerLength, Begun, Fresh, Epolls, Before, Early
<1> QED
  BY <1>1, <1>2, <1>3

LEMMA WakeShape ==
  ASSUME Shape, Local!Wake
  PROVE  Shape'
<1>1. /\ pc = "wait" /\ edge' = FALSE /\ EPOLLIN' = (avail > 0 \/ fin)
      /\ \/ pc' = "send" /\ n' = length /\ nsend' = 0 /\ sends' = sends + 1
         \/ EPOLLIN' /\ pc' = "recv" /\ n' = n /\ nsend' = nsend /\ sends' = sends
      /\ UNCHANGED <<length, nospace, got, short, odd, reply, rest, avail, fin, efds, cut>>
  BY DEF Local!Wake, Local!server, Local!epolls
<1>2. EPOLLIN' \in BOOLEAN /\ edge' \in BOOLEAN /\ odd' \in BOOLEAN /\ fin' \in BOOLEAN
  BY <1>1, Zenon DEF Shape, CallTypes
<1>4. pc' \in {"send", "recv"} /\ n' \in Nat /\ nsend' \in Int /\ sends' \in Nat
  BY <1>1 DEF Shape, CallTypes
<1>3. CallTypes'
  BY <1>1, <1>2, <1>4 DEF Shape, CallTypes
<1> QED
  BY <1>1, <1>3 DEF Shape, CallTypes, AnswerLength, Begun, Fresh, Epolls, Before, Early

LEMMA WriteIs ==
  ASSUME Shape, NEW k \in 1 .. n, Local!Write(k)
  PROVE  /\ got' \in Seq(Int) /\ Len(got') = Len(got) + k
         /\ \A i \in 1 .. Len(got) : got'[i] = got[i]
         /\ \A i \in Len(got) + 1 .. Len(got) + k : got'[i] = nsend + (i - Len(got))
<1> DEFINE new == [i \in 1 .. k |-> nsend + i]
<1>1. got \in Seq(Int) /\ n \in Nat /\ nsend \in Int /\ k \in Nat /\ Len(got) \in Nat
  BY DEF Shape, CallTypes
<1>2. new \in Seq(Int) /\ Len(new) = k /\ (\A i \in 1 .. k : new[i] = nsend + i)
  BY <1>1
<1>3. got' = got \o new
  BY DEF Local!Write, Local!WriteFrom
<1> HIDE DEF new
<1>4. /\ got \o new \in Seq(Int) /\ Len(got \o new) = Len(got) + Len(new)
      /\ \A i \in 1 .. Len(got) + Len(new) :
            (got \o new)[i] = IF i <= Len(got) THEN got[i] ELSE new[i - Len(got)]
  BY <1>1, <1>2, ConcatProperties
<1> QED
  BY <1>1, <1>2, <1>3, <1>4

LEMMA SendShape ==
  ASSUME Shape,
         (\E k \in 1 .. n : Local!Write(k)) \/ Local!WriteAgain \/ Local!WriteFails \/ Local!Sent
  PROVE  Shape'
<1>1. ASSUME NEW k \in 1 .. n, Local!Write(k) PROVE Shape'
  <2>1. got' \in Seq(Int)
    BY <1>1, WriteIs
  <2> QED
    BY <1>1, <2>1 DEF Local!Write, Local!WriteFrom, Local!server, Local!epolls,
       Shape, CallTypes, AnswerLength, Begun, Fresh, Epolls, Before, Early
<1>2. CASE Local!WriteAgain
  BY <1>2 DEF Local!WriteAgain, Local!server, Local!epolls,
       Shape, CallTypes, AnswerLength, Begun, Fresh, Epolls, Before, Early
<1>3. CASE Local!WriteFails
  BY <1>3 DEF Local!WriteFails, Local!server, Local!sending, Local!Failed,
       Shape, CallTypes, AnswerLength, Begun, Fresh, Epolls, Before, Early
<1>4. CASE Local!Sent
  BY <1>4 DEF Local!Sent, Local!SentTo, Local!server, Local!sending, Local!epolls,
       Shape, CallTypes, AnswerLength, Begun, Fresh, Epolls, Before, Early
<1> QED
  BY <1>1, <1>2, <1>3, <1>4

LEMMA ReadShape ==
  ASSUME Shape, Local!Read \/ Local!ReadEnds \/ Local!Serve \/ Local!Close \/ Local!Room
  PROVE  Shape'
<1>1. CASE Local!Read
  BY <1>1 DEF Local!Read, Local!sending, Local!epolls,
       Shape, CallTypes, AnswerLength, Begun, Fresh, Epolls, Before, Early
<1>2. CASE Local!ReadEnds
  BY <1>2 DEF Local!ReadEnds, Local!ReadStops, Local!sending, Local!server,
       Shape, CallTypes, AnswerLength, Begun, Fresh, Epolls, Before, Early
<1>3. CASE Local!Serve
  BY <1>3 DEF Local!Serve, Local!Connected, Local!sending, Local!epolls,
       Shape, CallTypes, AnswerLength, Begun, Fresh, Epolls, Before, Early
<1>4. CASE Local!Close
  BY <1>4 DEF Local!Close, Local!Connected, Local!sending, Local!epolls,
       Shape, CallTypes, AnswerLength, Begun, Fresh, Epolls, Before, Early
<1>5. CASE Local!Room
  BY <1>5 DEF Local!Room, Local!Connected, Local!server, Local!epolls,
       Shape, CallTypes, AnswerLength, Begun, Fresh, Epolls, Before, Early
<1> QED
  BY <1>1, <1>2, <1>3, <1>4, <1>5

\* Products of the number of sendings and the length of the request.
LEMMA Product == ASSUME NEW s \in Nat, NEW L \in Nat PROVE s * L \in Nat
OBVIOUS

LEMMA Whole == ASSUME NEW s \in Nat, NEW L \in Nat PROVE s * L = (s - 1) * L + L
OBVIOUS

\* A sending's units are before those of a later one.
LEMMA Earlier ==
  ASSUME NEW s \in Nat, NEW r \in 1 .. s - 1, NEW L \in Nat
  PROVE  (r - 1) * L + L <= (s - 1) * L
<1> DEFINE d == s - 1 - r
<1>1. d \in Nat /\ s - 1 = r + d
  OBVIOUS
<1>2. d * L \in Nat
  BY <1>1, Product
<1>3. (r - 1) * L + L = r * L
  OBVIOUS
<1>4. (r + d) * L = r * L + d * L
  BY <1>1
<1> QED
  BY <1>1, <1>2, <1>3, <1>4, Product

\* A count and what it is compared with grow alike.
LEMMA OneMore ==
  ASSUME NEW s \in Nat, NEW w \in Nat, NEW x \in Nat, NEW y \in Nat, NEW z \in Nat,
         NEW a \in Nat, NEW b \in Nat, y <= x + (b - a), s + (w + x) <= a + 1 + z
  PROVE  s + (w + y) <= b + 1 + z
OBVIOUS

\* What has been received after a write.
LEMMA WriteReceipt ==
  ASSUME Shape, Receipt, NEW k \in 1 .. n, Local!Write(k)
  PROVE  Receipt'
<1>1. /\ pc = "send" /\ pc' = "send" /\ n > 0 /\ nsend' = k /\ n' = n - k
      /\ UNCHANGED <<length, edge, EPOLLIN, sends, avail, fin>>
      /\ short' = (IF k < n THEN short + 1 ELSE short) /\ nospace' = (nospace \/ k < n)
      /\ ~odd' => ~odd /\ nsend # -1 /\ ~ (nsend > 0 /\ n + nsend # length)
  BY DEF Local!Write, Local!WriteFrom, Local!server
<1>2. n \in Nat /\ nsend \in Int /\ length \in Nat /\ k \in Nat /\ Len(got) \in Nat /\ sends \in Nat /\ short \in Nat
  BY DEF Shape, CallTypes
<1>3. Count'
  <2>1. One(nospace)' <= One(nospace) + (short' - short) /\ short' \in Nat
    <3>1. CASE k < n
      <4>1. short' = short + 1
        BY <1>1, <3>1
      <4>2. One(nospace) \in 0 .. 1 /\ One(nospace)' \in 0 .. 1
        BY DEF One
      <4> QED
        BY <1>2, <4>1, <4>2
    <3>2. CASE ~ k < n
      <4>1. short' = short /\ (nospace' <=> nospace)
        BY <1>1, <3>2
      <4>2. One(nospace)' = One(nospace) /\ One(nospace) \in Nat
        BY <4>1 DEF One
      <4> QED
        BY <1>2, <4>1, <4>2
    <3> QED
      BY <3>1, <3>2
  <2>2. One(edge /\ ~ (avail > 0 \/ fin))' = One(edge /\ ~ (avail > 0 \/ fin)) /\ One(EPOLLIN)' = One(EPOLLIN)
    BY <1>1
  <2>3. /\ One(nospace) \in Nat /\ One(nospace)' \in Nat /\ One(EPOLLIN) \in Nat
        /\ One(edge /\ ~ (avail > 0 \/ fin)) \in Nat
    BY DEF One
  <2>4. sends + Due <= short + 1 + One(EPOLLIN)
    BY <1>1 DEF Receipt, Count
  <2>5. sends' + Due' <= short' + 1 + One(EPOLLIN)'
    <3>1. /\ Due = One(edge /\ ~ (avail > 0 \/ fin)) + One(nospace)
          /\ Due' = One(edge /\ ~ (avail > 0 \/ fin)) + One(nospace)'
      BY <2>2 DEF Due
    <3>2. sends + (One(edge /\ ~ (avail > 0 \/ fin)) + One(nospace)) <= short + 1 + One(EPOLLIN)
      BY <2>4, <3>1
    <3>3. sends + (One(edge /\ ~ (avail > 0 \/ fin)) + One(nospace)') <= short' + 1 + One(EPOLLIN)
      BY <1>2, <2>1, <2>3, <3>2, OneMore
    <3> QED
      BY <1>1, <2>2, <3>1, <3>3
  <2> QED
    BY <1>1, <2>5 DEF Count
<1>4. ASSUME ~odd' PROVE Got'
  <2> DEFINE p == (sends - 1) * length
  <2>1. /\ sends > 0 /\ n <= length /\ Len(got) = p + (length - n)
        /\ \/ nsend = 0 /\ n = length
           \/ nsend > 0 /\ n + nsend = length
           \/ nsend > 0 /\ n + nsend < length
    BY <1>1, <1>4 DEF Receipt, Got
  <2>2. nsend = length - n /\ sends - 1 \in Nat /\ p \in Nat
    BY <1>1, <1>2, <1>4, <2>1, Product
  <2> HIDE DEF p
  <2>3. /\ Len(got') = Len(got) + k
        /\ \A i \in 1 .. Len(got) : got'[i] = got[i]
        /\ \A i \in Len(got) + 1 .. Len(got) + k : got'[i] = nsend + (i - Len(got))
    BY WriteIs
  <2>4. ASSUME NEW s \in 1 .. sends, NEW i \in 1 .. length, (s - 1) * length + i <= Len(got')
        PROVE  got'[(s - 1) * length + i] = i
    <3> DEFINE at == (s - 1) * length + i
    <3>1. s - 1 \in Nat /\ (s - 1) * length \in Nat /\ at \in Nat /\ at >= 1
      <4>1. s - 1 \in Nat
        BY <1>2
      <4> QED
        BY <4>1, <1>2, Product
    <3>2. CASE at <= Len(got)
      <4>1. got[at] = i
        BY <1>1, <1>4, <3>2 DEF Receipt, Got, Placed
      <4> HIDE DEF at
      <4> QED
        BY <1>2, <2>3, <3>1, <3>2, <4>1 DEF at
    <3>3. CASE ~ at <= Len(got)
      <4>1. s = sends
        <5>1. ASSUME s # sends PROVE FALSE
          <6>1. s \in 1 .. sends - 1
            BY <1>2, <5>1
          <6>2. (s - 1) * length + length <= p
            BY <1>2, <6>1, Earlier DEF p
          <6> QED
            BY <1>2, <2>1, <2>2, <3>1, <3>3, <6>2
        <5> QED
          BY <5>1
      <4>2. at = p + i
        BY <4>1 DEF p
      <4> HIDE DEF at
      <4>3. at \in Len(got) + 1 .. Len(got) + k
        BY <1>2, <2>3, <2>4, <3>1, <3>3 DEF at
      <4>4. got'[at] = nsend + (at - Len(got))
        BY <2>3, <4>3
      <4>5. got'[at] = i
        BY <1>2, <2>1, <2>2, <4>2, <4>4
      <4> QED
        BY <4>5 DEF at
    <3> QED
      BY <3>2, <3>3
  <2>5. Placed'
    BY <1>1, <2>4 DEF Placed
  <2>6. /\ sends' > 0 /\ n' <= length' /\ Len(got') = p + (length' - n')
        /\ nsend' > 0 /\ (n' + nsend' = length' \/ n' + nsend' < length')
    BY <1>1, <1>2, <2>1, <2>2, <2>3
  <2>7. (sends' - 1) * length' = p
    BY <1>1 DEF p
  <2> QED
    BY <1>1, <2>5, <2>6, <2>7 DEF Got
<1> QED
  BY <1>3, <1>4 DEF Receipt, Got

\* Steps that leave alone what has been received: the number of sendings,
LEMMA QuietCount ==
  ASSUME Shape, Count,
         \/ Local!ConnectFails \/ Local!Connect \/ Local!Getchar \/ Local!Wake
         \/ Local!WriteAgain \/ Local!WriteFails \/ Local!Sent
         \/ Local!Read \/ Local!ReadEnds \/ Local!Serve \/ Local!Close \/ Local!Room
  PROVE  Count'
<1>1. sends \in Nat /\ short \in Nat /\ avail \in Nat /\ rest \in Nat
  BY DEF Shape, CallTypes
<1>2. CASE Local!ConnectFails \/ Local!Connect \/ Local!Getchar
  BY <1>1, <1>2 DEF Local!ConnectFails, Local!Connect, Local!Getchar, Local!sending, Local!server,
     Shape, Early, Before, Count, Due, One
<1>3. CASE Local!Wake
  <2>1. /\ pc = "wait" /\ edge /\ ~edge' /\ (EPOLLIN' <=> avail > 0 \/ fin) /\ ~EPOLLIN
        /\ UNCHANGED <<nospace, short>>
        /\ sends' \in {sends, sends + 1} /\ (~EPOLLIN' => pc' = "send") /\ pc' \in {"send", "recv"}
    BY <1>3 DEF Local!Wake, Shape, Before
  <2>2. sends + One(~ (avail > 0 \/ fin)) + One(nospace) <= short + 1
    BY <1>1, <2>1 DEF Count, Due, One
  <2>3. Due' = One(nospace)
    BY <2>1 DEF Due, One
  <2>4. One(nospace) \in Nat
    BY DEF One
  <2>5. CASE EPOLLIN'
    <3>1. One(~ (avail > 0 \/ fin)) = 0 /\ One(EPOLLIN') = 1
      BY <2>1, <2>5 DEF One
    <3>2. sends' + Due' <= short' + 1 + One(EPOLLIN') /\ sends' <= short' + 2
      BY <1>1, <2>1, <2>2, <2>3, <2>4, <3>1
    <3> QED
      BY <3>2 DEF Count
  <2>6. CASE ~EPOLLIN'
    <3>1. One(~ (avail > 0 \/ fin)) = 1 /\ One(EPOLLIN') = 0
      BY <2>1, <2>6 DEF One
    <3>2. sends' + Due' <= short' + 1 + One(EPOLLIN') /\ pc' = "send"
      BY <1>1, <2>1, <2>2, <2>3, <2>4, <2>6, <3>1
    <3> QED
      BY <3>2 DEF Count
  <2> QED
    BY <2>5, <2>6
<1>4. CASE Local!WriteAgain \/ Local!WriteFails
  BY <1>1, <1>4 DEF Local!WriteAgain, Local!WriteFails, Local!server, Local!sending, Count, Due, One
<1>5. CASE Local!Sent
  BY <1>1, <1>5 DEF Local!Sent, Local!SentTo, Local!server, Local!sending, Count, Due, One
<1>6. CASE Local!Read \/ Local!ReadEnds
  BY <1>1, <1>6 DEF Local!Read, Local!ReadEnds, Local!ReadStops, Local!sending, Count
<1>7. CASE Local!Serve \/ Local!Close
  BY <1>1, <1>7 DEF Local!Serve, Local!Close, Local!sending, Count, Due, One
<1>8. CASE Local!Room
  BY <1>1, <1>8 DEF Local!Room, Local!server, Count, Due, One
<1> QED
  BY <1>2, <1>3, <1>4, <1>5, <1>6, <1>7, <1>8

\* and its place in each.
LEMMA QuietGot ==
  ASSUME Shape, Got, ~odd',
         \/ Local!ConnectFails \/ Local!Connect \/ Local!Getchar \/ Local!Wake
         \/ Local!WriteAgain \/ Local!WriteFails \/ Local!Sent
         \/ Local!Read \/ Local!ReadEnds \/ Local!Serve \/ Local!Close \/ Local!Room
  PROVE  Got'
<1>1. /\ UNCHANGED <<got, length, odd>>
      /\ length \in Nat /\ Len(got) \in Nat /\ n \in Nat /\ sends \in Nat /\ got \in Seq(Int)
  BY DEF Local!ConnectFails, Local!Connect, Local!Getchar, Local!Wake, Local!WriteAgain,
         Local!WriteFails, Local!Sent, Local!SentTo, Local!Read, Local!ReadEnds, Local!ReadStops,
         Local!Serve, Local!Close, Local!Room, Local!sending, Shape, CallTypes
<1>2. ~odd /\ Placed
  BY <1>1 DEF Got
<1>3. ASSUME sends' = sends PROVE Placed'
  BY <1>1, <1>2, <1>3 DEF Placed
<1>4. CASE Local!ConnectFails \/ Local!Connect \/ Local!Getchar
  <2>1. got = <<>> /\ sends = 0 /\ sends' = 0 /\ pc' \in {"done", "getchar", "wait"}
    BY <1>4 DEF Local!ConnectFails, Local!Connect, Local!Getchar, Local!sending, Shape, Early
  <2>2. 0 * length = 0 /\ Len(got) = 0
    BY <1>1, <2>1
  <2> QED
    BY <1>1, <1>3, <2>1, <2>2 DEF Got
<1>5. CASE Local!Wake
  <2>1. /\ pc = "wait"
        /\ \/ pc' = "send" /\ n' = length /\ nsend' = 0 /\ sends' = sends + 1
           \/ pc' = "recv" /\ sends' = sends
    BY <1>5 DEF Local!Wake
  <2>2. Len(got) = sends * length
    BY <1>2, <2>1 DEF Got
  <2>3. CASE pc' = "recv" /\ sends' = sends
    BY <1>1, <1>3, <2>2, <2>3 DEF Got
  <2>4. CASE pc' = "send" /\ n' = length /\ nsend' = 0 /\ sends' = sends + 1
    <3>1. ASSUME NEW s \in 1 .. sends', NEW i \in 1 .. length, (s - 1) * length + i <= Len(got)
          PROVE  got[(s - 1) * length + i] = i
      <4>1. s # sends'
        <5>1. ASSUME s = sends' PROVE FALSE
          <6>1. s - 1 = sends
            BY <1>1, <2>4, <5>1
          <6>2. sends * length \in Nat
            BY <1>1, Product
          <6> QED
            BY <1>1, <2>2, <3>1, <6>1, <6>2
        <5> QED
          BY <5>1
      <4>2. s \in 1 .. sends
        BY <1>1, <2>4, <4>1
      <4> QED
        BY <1>2, <3>1, <4>2 DEF Placed
    <3>2. Placed'
      BY <1>1, <3>1 DEF Placed
    <3>3. (sends' - 1) * length' = Len(got')
      <4>1. sends' - 1 = sends
        BY <1>1, <2>4
      <4> QED
        BY <1>1, <2>2, <4>1
    <3> QED
      BY <1>1, <2>4, <3>2, <3>3 DEF Got
  <2> QED
    BY <2>1, <2>3, <2>4
<1>6. CASE Local!WriteAgain
  BY <1>6 DEF Local!WriteAgain
<1>7. CASE Local!WriteFails \/ Local!Sent
  <2>1. /\ pc = "send" /\ sends' = sends /\ sends > 0 /\ n <= length
        /\ Len(got) = (sends - 1) * length + (length - n)
    BY <1>2, <1>7 DEF Got, Local!WriteFails, Local!Sent, Local!SentTo, Local!sending
  <2>2. sends * length = (sends - 1) * length + length /\ (sends - 1) * length \in Nat
    <3>1. sends - 1 \in Nat
      BY <1>1, <2>1
    <3> QED
      BY <1>1, <3>1, Product, Whole
  <2>3. Len(got) <= sends * length /\ (n = 0 => Len(got) = sends * length)
    BY <1>1, <2>1, <2>2
  <2>4. \/ pc' = "done"
        \/ n = 0 /\ pc' \in {"recv", "wait"}
    BY <1>7 DEF Local!WriteFails, Local!Sent, Local!SentTo
  <2> QED
    BY <1>1, <1>3, <2>1, <2>3, <2>4 DEF Got
<1>8. CASE Local!Read \/ Local!ReadEnds
  <2>1. pc = "recv" /\ pc' \in {"recv", "done"} /\ sends' = sends
    BY <1>8 DEF Local!Read, Local!ReadEnds, Local!ReadStops, Local!sending
  <2>2. Len(got) = sends * length
    BY <1>2, <2>1 DEF Got
  <2> QED
    BY <1>1, <1>3, <2>1, <2>2 DEF Got
<1>9. CASE Local!Serve \/ Local!Close \/ Local!Room
  <2>1. UNCHANGED <<pc, n, nsend, sends>>
    BY <1>9 DEF Local!Serve, Local!Close, Local!Room, Local!sending
  <2> QED
    BY <1>1, <1>2, <1>3, <2>1 DEF Got
<1> QED
  BY <1>4, <1>5, <1>6, <1>7, <1>8, <1>9

LEMMA QuietReceipt ==
  ASSUME Shape, Receipt,
         \/ Local!ConnectFails \/ Local!Connect \/ Local!Getchar \/ Local!Wake
         \/ Local!WriteAgain \/ Local!WriteFails \/ Local!Sent
         \/ Local!Read \/ Local!ReadEnds \/ Local!Serve \/ Local!Close \/ Local!Room
  PROVE  Receipt'
<1>1. Count'
  BY QuietCount DEF Receipt
<1>2. odd' => Got'
  BY DEF Got
<1> QED
  BY <1>1, <1>2, QuietGot DEF Receipt

\* The string in buffer b.
Ended(b) == LET Z == {i \in 1 .. Len(b) : b[i] = NUL}
            IN SubSeq(b, 1, (IF Z # {} THEN Min(Z) ELSE 0) - 1)

LEMMA PassedEnded == Passed = Ended(buf)
BY Zenon DEF Passed, SelectInSeq, Ended

LEMMA PassedKept == buf' = buf => Passed' = Passed
<1>1. (Passed = Ended(buf))'
  BY PassedEnded, PTL
<1> QED
  BY <1>1, PassedEnded

LEMMA GotoClientParts ==
  ASSUME Local!gotoClient \/ Local!Serve \/ Local!Close \/ Local!Room
  PROVE  /\ pc # "idle" /\ length' = length
         /\ \/ \E k \in 1 .. n : Local!Write(k)
            \/ Local!ConnectFails \/ Local!Connect \/ Local!Getchar \/ Local!Wake
            \/ Local!WriteAgain \/ Local!WriteFails \/ Local!Sent
            \/ Local!Read \/ Local!ReadEnds \/ Local!Serve \/ Local!Close \/ Local!Room
  BY DEF Local!gotoClient, Local!Write, Local!WriteFrom, Local!ConnectFails, Local!Connect,
         Local!Getchar, Local!Wake, Local!WriteAgain, Local!WriteFails, Local!Sent, Local!SentTo,
         Local!Read, Local!ReadEnds, Local!ReadStops, Local!Serve, Local!Close, Local!Room, Local!Connected

LEMMA CallsKept ==
  ASSUME ExInv, [ExNext]_exvars
  PROVE  Shape' /\ Receipt' /\ Calling'
<1>1. CASE CallLocal
  <2>1. Local!Call(Len(Passed)) /\ client = "call" /\ buf' = buf /\ client' = client /\ Len(Passed) \in Nat
    BY <1>1, PassedHolds DEF CallLocal, ExInv, vars, clientVars
  <2>2. Shape'
    BY <2>1, CallShape DEF ExInv
  <2>3. pc' = "connect" /\ length' = Len(Passed) /\ got' = <<>> /\ sends' = 0 /\ short' = 0 /\ ~edge' /\ ~nospace' /\ ~EPOLLIN'
    BY <2>1 DEF Local!Call, Local!sending, ExInv, Shape, Fresh
  <2>4. Receipt'
    BY <2>3 DEF Receipt, Count, Due, One, Got, Placed
  <2>5. Calling'
    BY <2>1, <2>3, PassedKept DEF Calling
  <2> QED
    BY <2>2, <2>4, <2>5
<1>2. CASE Call
  <2>1. (Local!gotoClient \/ Local!Serve \/ Local!Close \/ Local!Room) /\ buf' = buf /\ client' = client
    BY <1>2 DEF Call, vars, clientVars
  <2>2. Shape'
    BY <2>1, GotoClientParts, ConnectShape, WakeShape, SendShape, ReadShape DEF ExInv
  <2>3. Receipt'
    BY <2>1, GotoClientParts, WriteReceipt, QuietReceipt DEF ExInv
  <2>4. Calling'
    BY <2>1, GotoClientParts, PassedKept DEF ExInv, Calling
  <2> QED
    BY <2>2, <2>3, <2>4
<1>3. CASE ReplyLocal
  <2>1. /\ pc' = "idle" /\ got' = <<>> /\ length' = 0 /\ Shape'
        /\ sends' = 0 /\ short' = 0 /\ ~edge' /\ ~nospace' /\ ~EPOLLIN'
    BY <1>3, ReturnShape DEF ReplyLocal, Local!Return, ExInv
  <2> QED
    BY <2>1 DEF Receipt, Count, Due, One, Got, Placed, Calling
<1>4. CASE Elsewhere \/ UNCHANGED exvars
  <2>1. UNCHANGED callVars
    BY <1>4 DEF Elsewhere, exvars
  <2>2. Shape'
    BY <2>1 DEF callVars, ExInv, Shape, CallTypes, AnswerLength, Begun, Fresh, Epolls, Before, Early
  <2>3. Receipt'
    BY <2>1 DEF callVars, ExInv, Receipt, Count, Due, One, Got, Placed
  <2>4. client = "call" => buf' = buf /\ client' = client
    BY <1>4 DEF Elsewhere, exvars, vars, clientVars, Ask, Asker, AskerHead, AskerRefuses, AskerBody, BodyRead,
       AskerCutOff, Between, TunnelHead, HeadRead, TunnelSkips, TunnelBody, TunnelEnds, Break
  <2>5. Calling'
    BY <2>1, <2>4, PassedKept DEF callVars, ExInv, Calling
  <2> QED
    BY <2>2, <2>3, <2>5
<1> QED
  BY <1>1, <1>2, <1>3, <1>4 DEF ExNext

LEMMA StepMaps == ExInv /\ [ExNext]_exvars => [Next]_vars
<1> SUFFICES ASSUME ExInv, [ExNext]_exvars PROVE [Next]_vars
  OBVIOUS
<1>1. CASE CallLocal \/ Call \/ UNCHANGED exvars
  BY <1>1 DEF CallLocal, Call, exvars
<1>2. CASE ReplyLocal
  <2>1. Local!ReplyLength \in 0 .. MaxReply
    BY <1>2 DEF ExInv, Shape, AnswerLength, CallTypes, ReplyLocal, Local!ReplyLength, Local!Failed
  <2> QED
    BY <1>2, <2>1 DEF ReplyLocal, Next, Tunnel
<1>3. CASE Elsewhere
  BY <1>3 DEF Elsewhere, Between, Next, Tunnel
<1> QED
  BY <1>1, <1>2, <1>3 DEF ExNext

\* The strengthened invariant of the composition, and the steps it makes of the tunnel.
LEMMA ExInvHolds == ExSpec => []ExInv /\ [][Next]_vars
<1>1. ExInit => ExInv
  BY InitCall, InitStepInv DEF ExInit, ExInv
<1>2. ExInv /\ [ExNext]_exvars => ExInv'
  BY StepMaps, StepInvKept, CallsKept DEF ExInv
<1> QED
  BY <1>1, <1>2, StepMaps, PTL DEF ExSpec

\* Every step of the composition is a step of FenglingTunnel or a stutter: the
\* calls take the place of its answers.
THEOREM StepsOfTunnel == ExSpec => Spec
<1>1. ExInit => Init
  BY DEF ExInit
<1> QED
  BY <1>1, ExInvHolds, PTL DEF ExSpec, Spec

\* The server receives what gotoClient was called with, each sending from its front, and
\* there are two sendings, and one for each write that found the socket full, at most.
THEOREM Delivered == ExSpec => []RequestDelivered
<1>1. ASSUME ExInv PROVE RequestDelivered
  <2>1. RequestPassed
    BY <1>1, PassedHolds DEF ExInv
  <2>2. sends \in Nat /\ short \in Nat /\ length \in Nat /\ n \in Nat /\ Len(got) \in Nat
    BY <1>1 DEF ExInv, Shape, CallTypes
  <2>3. ASSUME pc # "idle" PROVE length = Len(Passed) /\ sends <= 2 + short
    BY <1>1, <2>2, <2>3 DEF ExInv, Calling, Receipt, Count, Due, One
  <2>4. ASSUME ~odd PROVE Len(got) <= sends * length
    <3>1. CASE pc \in {"idle", "connect", "getchar"}
      <4>1. Len(got) = 0
        BY <1>1, <3>1 DEF ExInv, Shape, Early
      <4> QED
        BY <2>2, <4>1, Product
    <3>2. CASE pc \in {"wait", "recv", "done"}
      BY <1>1, <2>2, <2>4, <3>2, Product DEF ExInv, Receipt, Got
    <3>3. CASE pc = "send"
      <4>1. sends > 0 /\ n <= length /\ Len(got) = (sends - 1) * length + (length - n)
        BY <1>1, <2>4, <3>3 DEF ExInv, Receipt, Got
      <4>2. sends - 1 \in Nat
        BY <2>2, <4>1
      <4>3. sends * length = (sends - 1) * length + length /\ (sends - 1) * length \in Nat
        BY <2>2, <4>2, Product, Whole
      <4> QED
        BY <2>2, <4>1, <4>3
    <3> QED
      BY <1>1, <3>1, <3>2, <3>3 DEF ExInv, Shape, CallTypes
  <2>5. ~odd => Placed
    BY <1>1 DEF ExInv, Receipt, Got
  <2> QED
    BY <2>1, <2>3, <2>4, <2>5 DEF RequestDelivered, Placed
<1> QED
  BY <1>1, ExInvHolds, PTL

\* gotoClient returns some of the answer, "-1", or nothing from a server that has closed.
THEOREM BeginsAnswer == ExSpec => []AnswerBegun
<1>1. ExInv => AnswerBegun
  BY DEF ExInv, Shape, Begun, AnswerBegun
<1> QED
  BY <1>1, ExInvHolds, PTL

\* gotoClient leaves an epoll descriptor behind at each sending cut off, and only there.
THEOREM Descriptors == ExSpec => []DescriptorsKept
<1>1. ExInv => DescriptorsKept
  BY DEF ExInv, Shape, CallTypes, Epolls, DescriptorsKept
<1> QED
  BY <1>1, ExInvHolds, PTL
====
