--------------------------- MODULE FenglingServer ---------------------------
(***************************************************************************)
(* The server as its clients and the browsers meet it: the CA process,     *)
(* which accepts tunnels and reads their announcements one at a time       *)
(* (CAServerInit); the clients' processes that open, announce and lose     *)
(* them (CARun); the workers' lookups (parseHtmlHead, GetFLRoute); and a   *)
(* program start that clears the table under them all (CAShmInit).         *)
(*                                                                         *)
(* SetFLRoute and GetFLRoute are one step each here, and all names have    *)
(* one home; FenglingRoute has their statements, and what lies behind the  *)
(* handles of a slot.  Text is short sequences of characters, because both *)
(* ends cut it with strtok; a word or a mark that strstr looks for, and an *)
(* end of line, are one of them.                                           *)
(***************************************************************************)
EXTENDS Integers, FiniteSets, SequencesExt

CONSTANTS Tunnels,      \* connections opened by processes of clients
          Strangers,    \* connections of others: they may say nothing, or anything
          Says,         \* Says[c]: the body of stranger c, if it says FL before it
          SubDomain,    \* SubDomain[c]: that of the client of tunnel c
          CMaxPoll,     \* CMaxPoll[c]: that of the client's process, in digits
          Chars,        \* the characters of text
          Value,        \* the numbers the digits are
          Domain,       \* the characters of the server's Domain
          Requests,     \* what browsers send
          MAXSUBDOMAIN, \* length of a name in the table, with the 0 that ends it
          S1MaxListen,  \* limit of a slot, and of the connections that wait
          MaxSlots,     \* slots that can be reached from the home
          MaxCursor,    \* bound: how far the cursor of a slot runs
          MaxWipes,     \* bound: starts that clear the table
          NoConn

Conns == Tunnels \cup Strangers

ASSUME PeerAssumption == /\ Tunnels \cap Strangers = {} /\ NoConn \notin Conns
                         /\ SubDomain \in [Tunnels -> Seq(Chars)]
                         /\ CMaxPoll \in [Tunnels -> DOMAIN Value]
                         /\ Says \in [Strangers -> Seq(Chars)]
                         /\ Requests \subseteq Seq(Chars)
ASSUME DigitAssumption == /\ Value \in [DOMAIN Value -> Nat]
                          /\ "-" \in Chars /\ DOMAIN Value \subseteq Chars \ {"-"}
ASSUME LimitAssumption == /\ {S1MaxListen, MaxSlots, MaxCursor, MaxWipes} \subseteq Nat
                          /\ MAXSUBDOMAIN \in Nat \ {0}

VARIABLES
    slots,      \* the used slots, in the order of probing
    offPage,    \* the home is above the wrap: behind MaxSlots slots the page ends
    ca,         \* CA's process: accept, shake, head, body; crashed, killed
    cur,        \* the connection it has at hand
    badLen,     \* its client_len, never initialised, is negative
    queue,      \* connections not accepted yet
    peer,       \* peer[c]: new, up, over
    sent,       \* records of its announcement cur has written: the head, the body
    fate,       \* fate[c]: none, ok, full (not registered), wiped (history)
    wipes

vars == <<slots, offPage, ca, cur, badLen, queue, peer, sent, fate, wipes>>

-----------------------------------------------------------------------------
(* strtok: the first run of characters that are no delimiters, with what    *)
(* comes after the delimiter that ends it; <<>> is NULL.                    *)

Skipped(s, delims) == LET i == SelectInSeq(s, LAMBDA x : x \notin delims)
                      IN IF i = 0 THEN <<>> ELSE SubSeq(s, i, Len(s))
End(s, delims) == LET i == SelectInSeq(s, LAMBDA x : x \in delims)
                  IN IF i = 0 THEN Len(s) + 1 ELSE i

strtok(s, delims) ==
    LET t == Skipped(s, delims)
        e == End(t, delims)
    IN [token |-> SubSeq(t, 1, e - 1), rest |-> SubSeq(t, e + 1, Len(t))]

atoi(s) == IF s[1] \in DOMAIN Value THEN Value[s[1]] ELSE 0

Hyphen == {"-"}
EOL == {"eol"}
FAULT == "fault"

\* What a connection writes behind FL and a length, if it does.
Text(c) == IF c \in Tunnels THEN SubDomain[c] \o <<"-", CMaxPoll[c]>> ELSE Says[c]

\* The body CA reads after so many records, and what it finds in it.
Body(c, records) == IF records = 2 THEN Text(c) ELSE <<>>
Subdomian == [c \in Conns |-> [records \in 0 .. 2 |->
                 strtok(Body(c, records), Hyphen).token]]
stotal == [c \in Conns |-> [records \in 0 .. 2 |->
              strtok(strtok(Body(c, records), Hyphen).rest, Hyphen).token]]

\* A name that does not fit is stored cut.  It is compared uncut, to one character
\* more than is stored, and so it matches nothing.
Stored(name) ==
    SubSeq(name, 1, IF Len(name) < MAXSUBDOMAIN THEN Len(name) ELSE MAXSUBDOMAIN - 1)

NameOf(c) == Stored(Subdomian[c][2])
TotalOf(c) == atoi(stotal[c][2])

\* strstr; <<>> is NULL.
From(s, word) == LET i == SelectInSeq(s, LAMBDA x : x = word)
                 IN IF i = 0 THEN <<>> ELSE SubSeq(s, i, Len(s))

\* The first line of a request, from the first "//" behind the first Referer on.
Pot(request) == From(From(strtok(request, EOL).token, "Referer"), "//")
Host(request) == SubSeq(Pot(request), 2, Len(Pot(request)))

\* (mutant) the name taken up to the end of the line
parseHtmlHeadWhole == [request \in Requests |-> Host(request)]

\* The name of a request; <<>> if one of the calls makes NULL, which the next of
\* them, or GetFLRoute, reads from: a fault.  Domain is taken for a set of
\* delimiters.
parseHtmlHead == [request \in Requests |-> strtok(Host(request), Domain).token]

-----------------------------------------------------------------------------
(* The table. *)

Slot(name, total, c) == [name |-> name, total |-> total, fd |-> <<c>>, now |-> 0]

\* The slot a registration joins, and the one a lookup ends at; 0 for none.
Joined(name) == SelectInSeq(slots, LAMBDA s : s.name = name /\ Len(s.fd) <= S1MaxListen)
Found(name) == SelectInSeq(slots, LAMBDA s : s.name = name)

Full == Len(slots) >= MaxSlots

SetFLRoute(name, c, total) ==
    LET i == Joined(name)
    IN \/ /\ i # 0
          /\ slots' = [slots EXCEPT ![i].total = total, ![i].fd = Append(@, c)]
          /\ fate' = [fate EXCEPT ![c] = "ok"]
       \/ /\ i = 0 /\ ~ Full
          /\ slots' = Append(slots, Slot(Stored(name), total, c))
          /\ fate' = [fate EXCEPT ![c] = "ok"]
       \/ /\ i = 0 /\ Full /\ ~ offPage
          /\ slots' = slots /\ fate' = [fate EXCEPT ![c] = "full"]

\* Otherwise the walk leaves the page.
WalksOff(name) == Joined(name) = 0 /\ Full /\ offPage

Handle(s) == IF s.now < Len(s.fd) THEN s.fd[s.now + 1] ELSE NoConn

\* What a worker gets for a request.
Dealt(request) ==
    LET name == parseHtmlHead[request]
        i == Found(name)
    IN CASE name = <<>>                          -> FAULT
         [] name # <<>> /\ i # 0                 -> Handle(slots[i])
         [] name # <<>> /\ i = 0 /\ Full /\ offPage -> FAULT
         [] OTHER                                -> NoConn

\* (mutant) the cursor compared before it is moved
TurnEarly(s) == IF s.now = s.total THEN 0 ELSE s.now + 1
Turn(s) == IF s.now + 1 = s.total THEN 0 ELSE s.now + 1

-----------------------------------------------------------------------------
Init == /\ slots = <<>> /\ queue = <<>> /\ wipes = 0
        /\ ca = "accept" /\ cur = NoConn /\ badLen \in BOOLEAN
        /\ peer = [c \in Conns |-> "new"] /\ sent = 0
        /\ fate = [c \in Conns |-> "none"] /\ offPage \in BOOLEAN

(* The peers. *)
Connect(c) == /\ peer[c] = "new" /\ ca \notin {"crashed", "killed"}
              /\ Len(queue) <= S1MaxListen
              /\ peer' = [peer EXCEPT ![c] = "up"] /\ queue' = Append(queue, c)
              /\ UNCHANGED <<slots, offPage, ca, cur, badLen, sent, fate, wipes>>

\* CA has shaken hands with it: it writes the head, and then the body.
Announce(c) == /\ c = cur /\ ca \in {"head", "body"}
               /\ peer[c] = "up" /\ sent < 2
               /\ sent' = sent + 1
               /\ UNCHANGED <<slots, offPage, ca, cur, badLen, queue, peer, fate, wipes>>

\* The connection ends, for any reason; what has not been read may be lost.
\* (A stranger's end matters only while CA waits for it, and to the table.)
Drop(c) == /\ peer[c] = "up"
           /\ peer' = [peer EXCEPT ![c] = "over"]
           /\ IF c # cur THEN sent' = sent
              ELSE sent' \in (IF ca = "body" THEN 1 ELSE 0) .. sent
           /\ c \in Tunnels \cup {cur} \/ fate[c] # "none"
           /\ UNCHANGED <<slots, offPage, ca, cur, badLen, queue, fate, wipes>>

-----------------------------------------------------------------------------
(* CA's loop. *)

\* With a negative client_len, accept fails and the connection is closed.
Accept == /\ ca = "accept" /\ queue # <<>>
          /\ queue' = Tail(queue)
          /\ IF badLen THEN /\ peer' = [peer EXCEPT ![Head(queue)] = "over"]
                            /\ UNCHANGED <<ca, cur>>
                       ELSE ca' = "shake" /\ cur' = Head(queue) /\ peer' = peer
          /\ UNCHANGED <<slots, offPage, badLen, sent, fate, wipes>>

To(label) == /\ ca' = label
             /\ IF label = "accept" THEN cur' = NoConn /\ sent' = 0
                                    ELSE UNCHANGED <<cur, sent>>
             /\ UNCHANGED <<offPage, badLen, queue, peer, wipes>>

\* SSL_accept waits for the peer.  Its result is not looked at: when it fails, so
\* does the read of the head, and what is not FL is left, not closed.
Shake == /\ ca = "shake"
         /\ \/ peer[cur] = "up" /\ cur \in Tunnels /\ To("head")
            \/ peer[cur] = "over" /\ To("accept")
         /\ UNCHANGED <<slots, fate>>

\* A stranger may shake hands, and may say something else than FL, and is left.
MeetStranger == /\ cur \in Strangers /\ peer[cur] = "up"
                /\ \/ ca = "shake" /\ To("head")
                   \/ ca \in {"shake", "head"} /\ sent = 0 /\ To("accept")
                /\ UNCHANGED <<slots, fate>>

HeadRead(without) == /\ ca = "head"
                     /\ IF sent > 0 THEN To("body") ELSE without
                     /\ UNCHANGED <<slots, fate>>

\* (mutants) a head that is not there taken for one; a read that does not wait for
\* it; a read tried until it is there
ReadHeadUnchecked == HeadRead(peer[cur] = "over" /\ To("body"))
ReadHeadHasty == HeadRead(To("accept"))
ReadHeadAgain == HeadRead(FALSE)

ReadHead == HeadRead(peer[cur] = "over" /\ To("accept"))

\* The line stays empty if the connection has ended before the body.
BodyRead == ca = "body" /\ (sent = 2 \/ peer[cur] = "over")

\* The connection is registered, or refused: CA does not look at what SetFLRoute
\* returns.
Register == /\ BodyRead /\ stotal[cur][sent] # <<>>
            /\ SetFLRoute(Subdomian[cur][sent], cur, atoi(stotal[cur][sent]))
            /\ To("accept")

\* CA's process ends, and its connections with it: it alone has them.
Ends(how) == /\ ca' = how
             /\ IF how = "killed" THEN cur' = NoConn /\ sent' = 0 ELSE UNCHANGED <<cur, sent>>
             /\ peer' = [c \in Conns |-> IF peer[c] = "up" THEN "over" ELSE peer[c]]
             /\ queue' = <<>>
             /\ UNCHANGED <<slots, offPage, badLen, fate, wipes>>

\* No second token: atoi(NULL); or SetFLRoute walks off.
Crash == /\ BodyRead
         /\ stotal[cur][sent] = <<>> \/ WalksOff(Subdomian[cur][sent])
         /\ Ends("crashed")

Kill == ca \notin {"crashed", "killed"} /\ Ends("killed")

-----------------------------------------------------------------------------
\* A worker looks up the tunnel for a request; a lookup that faults or finds none
\* changes nothing here (<<>> is in no slot).
Deal(request) ==
    /\ Found(parseHtmlHead[request]) # 0
    /\ LET i == Found(parseHtmlHead[request])
       IN /\ slots[i].now < MaxCursor
          /\ slots' = [slots EXCEPT ![i].now = Turn(slots[i])]
    /\ UNCHANGED <<offPage, ca, cur, badLen, queue, peer, sent, fate, wipes>>

\* CAShmInit, in a second start of the program or in a client on the same host.
CAShmInit == /\ wipes < MaxWipes
             /\ wipes' = wipes + 1 /\ slots' = <<>>
             /\ fate' = [c \in Conns |-> IF fate[c] = "ok" THEN "wiped" ELSE fate[c]]
             /\ UNCHANGED <<offPage, ca, cur, badLen, queue, peer, sent>>

CAServer == Accept \/ Shake \/ ReadHead \/ Register \/ Crash

Next == \/ \E c \in Conns : Connect(c) \/ Announce(c) \/ Drop(c)
        \/ CAServer \/ MeetStranger \/ Kill \/ CAShmInit
        \/ \E request \in Requests : Deal(request)

\* CA's process runs, and so do those of its clients; nothing is asked of
\* strangers.
Spec == /\ Init /\ [][Next]_vars
        /\ WF_vars(CAServer) /\ WF_vars(\E c \in Tunnels : Announce(c))

-----------------------------------------------------------------------------
\* A tunnel that waits for requests, and that CA is through with, was registered
\* or refused: none is overlooked, whatever the connections around it do.
NoneOverlooked ==
    \A c \in Tunnels :
        peer[c] = "up" /\ c # cur /\ c \notin ToSet(queue) => fate[c] # "none"

\* The cursor of a slot is below its total, so that it comes round, as long as all
\* its connections announced the same total, and not none (a hyphen in SubDomain):
\* a client that comes back with a smaller CMaxPoll may leave it beyond.
Own(k) == {c \in Conns : fate[c] = "ok" /\ NameOf(c) = k}

TurnInRange ==
    \A i \in DOMAIN slots :
        LET s == slots[i]
        IN s.total > 0 /\ (\A c \in Own(s.name) : TotalOf(c) = s.total) => s.now < s.total

\* A request asks for k: in its first line, the first "//" behind the first Referer
\* has k behind it, and a dot.
Asks(request, k) ==
    \E i, j \in DOMAIN request :
        /\ i < j /\ request[i] = "Referer" /\ request[j] = "//"
        /\ \A h \in 1 .. j : request[h] \notin EOL
        /\ \A h \in 1 .. i - 1 : request[h] # "Referer"
        /\ \A h \in i .. j - 1 : request[h] # "//"
        /\ Len(k) > 0 /\ j + Len(k) < Len(request)
        /\ \A h \in 1 .. Len(k) : request[j + h] = k[h]
        /\ request[j + Len(k) + 1] = "."

\* The ordinary request: no Referer before the end of its first line.
Ordinary(request) ==
    \A i \in DOMAIN request :
        request[i] = "Referer" =>
            \E g, h \in 1 .. i : h < g /\ request[h] \notin EOL /\ request[g] \in EOL

\* The client of k has all its connections registered, none of them ended; none of
\* another name, longer than is stored, looks like one of them.
InService(k) ==
    /\ Own(k) # {} /\ Cardinality(Own(k)) <= S1MaxListen + 1
    /\ \A c \in Own(k) : /\ peer[c] = "up" /\ Subdomian[c][2] = k
                         /\ TotalOf(c) = Cardinality(Own(k))

\* A request that asks for a subdomain in service is dealt one of its connections,
\* if Domain has no character of the name and the name fits in a slot: a longer one
\* is registered and never found.  The ordinary request has no name to look up: the
\* worker that reads it faults.
Plain(k) == ToSet(k) \cap (Domain \cup EOL) = {}

DealsLive ==
    \A request \in Requests :
        /\ \A c \in Conns :
              LET k == Subdomian[c][2]
              IN Asks(request, k) /\ Plain(k) /\ Len(k) < MAXSUBDOMAIN /\ InService(k)
                    => Dealt(request) \in Own(k)
        /\ Ordinary(request) => Dealt(request) = FAULT

\* CA's process faults for three reasons only: the connection at hand was cut off
\* between the head and the body of its announcement; or the body, a tunnel's or a
\* stranger's, has no two parts with a hyphen between them; or its name finds no
\* room before the end of the page.  No peer that is silent, that says something
\* else or ends at another moment, and no text besides, takes it down.
OneToken(s) == ~ \E i, j, k \in DOMAIN s : /\ i < j /\ j < k
                                          /\ s[j] \in Hyphen /\ {s[i], s[k]} \cap Hyphen = {}

NoRoom == /\ offPage /\ Full
          /\ \A i \in DOMAIN slots :
                slots[i].name = Subdomian[cur][2] => Len(slots[i].fd) > S1MaxListen

CrashesHalfway ==
    [][ca' = "crashed" /\ ca # "crashed" =>
          \/ sent = 1
          \/ sent = 2 /\ (OneToken(Text(cur)) \/ NoRoom)]_vars

\* CA is through with every connection at some time and takes the next, whatever
\* becomes of the connection meanwhile, unless it waits for a stranger: then it
\* waits as long as the stranger likes.
Held == cur \in Strangers

CAComesBack ==
    ca \in {"shake", "head", "body"} ~> ca \in {"accept", "crashed", "killed"} \/ Held
=============================================================================
