----------------------- MODULE FenglingServer_proofs -----------------------
(***************************************************************************)
(* The server as its clients and the browsers meet it, for any number of   *)
(* tunnels, of strangers and of slots and for any text.  Three parts: what *)
(* strtok leaves of a sequence of characters; what CA's loop knows of the  *)
(* peers it has met (PeersInv); what the table says of the tunnels that    *)
(* were registered (SlotsInv).                                             *)
(***************************************************************************)
EXTENDS FenglingServer, SequenceTheorems, FiniteSetTheorems, WellFoundedInduction, TLAPS

\* What a slot may hold.
Names == {k \in Seq(Chars) : Len(k) < MAXSUBDOMAIN}
SlotType == [name : Names, total : Nat, fd : Seq(Conns), now : Nat]
\* CA's process has ended.
Gone == ca \in {"crashed", "killed"}

\* The types of all but the table.
PeersOK == /\ ca \in {"accept", "shake", "head", "body", "crashed", "killed"}
          /\ cur \in Conns \cup {NoConn}
          /\ badLen \in BOOLEAN
          /\ queue \in Seq(Conns)
          /\ peer \in [Conns -> {"new", "up", "over"}]
          /\ sent \in 0 .. 2
          /\ offPage \in BOOLEAN
          /\ fate \in [Conns -> {"none", "ok", "full", "wiped"}]
          /\ wipes \in Nat

\* Who CA has at hand; when its process ends, so do its connections.
AtHand == /\ ca \in {"accept", "killed"} => cur = NoConn
          /\ ca \in {"shake", "head", "body", "crashed"} => cur \in Conns
          /\ ca = "body" => sent > 0
          /\ Gone => \A c \in Conns : peer[c] # "up"

\* Nothing was done about the connection yet.
Fresh(c) == fate[c] = "none"

\* A connection is met once: in the queue, then at hand, then never again.
MetOnce == /\ \A c \in Conns : peer[c] = "new" => Fresh(c)
           /\ \A i \in DOMAIN queue :
                 /\ peer[queue[i]] # "new" /\ Fresh(queue[i]) /\ queue[i] # cur
                 /\ \A j \in DOMAIN queue : queue[i] = queue[j] => i = j
           /\ cur \in Conns => peer[cur] # "new" /\ Fresh(cur)

\* The connections in the table.
Registered == {c \in Conns : fate[c] = "ok"}
\* What a slot says of its connections.
Filled == \A i \in DOMAIN slots :
             LET s == slots[i]
             IN /\ Len(s.fd) \in 1 .. S1MaxListen + 1
                /\ s.total = TotalOf(s.fd[Len(s.fd)])
                /\ \A k \in DOMAIN s.fd : s.fd[k] \in Own(s.name)

\* A connection is registered in one place.
InOnePlace ==
    /\ \A c \in Registered : \E i \in DOMAIN slots : \E k \in DOMAIN slots[i].fd :
          slots[i].fd[k] = c
    /\ \A i, j \in DOMAIN slots : \A k \in DOMAIN slots[i].fd, l \in DOMAIN slots[j].fd :
          slots[i].fd[k] = slots[j].fd[l] => i = j /\ k = l

\* Its name was stored as it is.
Fits(c) == Len(Subdomian[c][2]) < MAXSUBDOMAIN

\* A name's second slot is begun when the first is full, or with a longer name,
\* which joins none.
InOrder == \A i, j \in DOMAIN slots :
              i < j /\ slots[i].name = slots[j].name /\ Fits(slots[j].fd[1])
                  => Len(slots[i].fd) > S1MaxListen

\* The table is the book of what was registered.
Booked == IsFiniteSet(Registered) /\ Filled /\ InOnePlace /\ InOrder

\* The inductive invariant of the table: the cursor of a slot stays in range
\* because its total is what its last tunnel, which is still its own, announced.
SlotsInv == slots \in Seq(SlotType) /\ Booked /\ TurnInRange

\* The inductive invariant of CA's side.
PeersInv == PeersOK /\ AtHand /\ MetOnce /\ NoneOverlooked

-----------------------------------------------------------------------------

\* A set of numbers has a first.
LEMMA FirstOf ==
  ASSUME NEW T \in SUBSET Nat, T # {}
  PROVE  \E x \in T : \A y \in T : x <= y
<1> DEFINE Lt == OpToRel(<, Nat)
<1>1. IsWellFoundedOn(Lt, Nat)
  BY NatLessThanWellFounded, Zenon
<1>2. \A y, z \in Nat : y < z => <<y, z>> \in Lt
  BY Zenon DEF OpToRel
<1> HIDE DEF Lt
<1>3. PICK x \in T : \A y \in T : ~ (<<y, x>> \in Lt)
  BY <1>1, WFMin
<1>4. \A y \in T : x <= y
  <2> TAKE y \in T
  <2>1. x \in Nat /\ y \in Nat /\ (y < x => <<y, x>> \in Lt)
    BY <1>2
  <2>2. ~ y < x
    BY <1>3, <2>1
  <2> QED
    BY <2>1, <2>2
<1> QED
  BY <1>4

\* Min is that of the community modules, by CHOOSE.
LEMMA MinIs ==
  ASSUME NEW T \in SUBSET Nat, T # {}
  PROVE  Min(T) \in T /\ \A y \in T : Min(T) <= y
BY FirstOf, Zenon DEF Min

\* The least is the only one.
LEMMA MinAt ==
  ASSUME NEW T \in SUBSET Nat, NEW p \in T, \A y \in T : p <= y
  PROVE  Min(T) = p
<1>1. T # {}
  OBVIOUS
<1>2. Min(T) \in T /\ Min(T) <= p
  BY <1>1, MinIs
<1>3. \A m \in T : m <= p => m = p
  OBVIOUS
<1> QED
  BY <1>2, <1>3, Zenon

\* A part of what is left of a sequence is a part of the sequence.
LEMMA PartOfRest ==
  ASSUME NEW s \in Seq(Chars), NEW p \in 1 .. Len(s),
         NEW a \in 1 .. Len(s) + 1, NEW b \in 0 .. Len(s) - p + 1
  PROVE  SubSeq(SubSeq(s, p, Len(s)), a, b) = SubSeq(s, p + a - 1, p + b - 1)
<1> DEFINE t == SubSeq(s, p, Len(s))
           u == SubSeq(t, a, b)
           v == SubSeq(s, p + a - 1, p + b - 1)
<1>1. Len(s) \in Nat
  OBVIOUS
<1>2. t \in Seq(Chars) /\ Len(t) = Len(s) - p + 1
      /\ \A k \in 1 .. Len(t) : t[k] = s[p + k - 1]
  BY <1>1, SubSeqProperties
<1> HIDE DEF t
<1>3. u \in Seq(Chars) /\ Len(u) = (IF a <= b THEN b - a + 1 ELSE 0)
      /\ \A k \in 1 .. b - a + 1 : u[k] = t[a + k - 1]
  BY <1>1, <1>2, SubSeqProperties
<1>4. v \in Seq(Chars) /\ Len(v) = (IF a <= b THEN b - a + 1 ELSE 0)
      /\ \A k \in 1 .. b - a + 1 : v[k] = s[p + a + k - 2]
  BY <1>1, SubSeqProperties
<1> HIDE DEF u, v
<1>5. ASSUME NEW k \in 1 .. Len(u)
      PROVE  u[k] = v[k]
  <2>1. k \in 1 .. b - a + 1 /\ a + k - 1 \in 1 .. Len(t)
    BY <1>1, <1>2, <1>3
  <2>2. u[k] = t[a + k - 1] /\ v[k] = s[p + a + k - 2]
    BY <1>3, <1>4, <2>1
  <2>3. t[a + k - 1] = s[p + (a + k - 1) - 1] /\ p + (a + k - 1) - 1 = p + a + k - 2
    BY <1>2, <2>1
  <2> QED
    BY <2>2, <2>3
<1>6. u = v
  BY <1>3, <1>4, <1>5, SeqEqual
<1> QED
  BY <1>6 DEF u, v, t

\* The characters before the first that is no delimiter are skipped.
LEMMA SkippedIs ==
  ASSUME NEW s \in Seq(Chars), NEW d, NEW p \in 1 .. Len(s),
         \A k \in 1 .. p - 1 : s[k] \in d, s[p] \notin d
  PROVE  Skipped(s, d) = SubSeq(s, p, Len(s))
<1> DEFINE I == {i \in 1 .. Len(s) : s[i] \notin d}
<1>1. I \in SUBSET Nat /\ p \in I /\ I # {} /\ \A y \in I : p <= y
  OBVIOUS
<1> HIDE DEF I
<1>2. Min(I) = p
  BY <1>1, MinAt
<1>3. SelectInSeq(s, LAMBDA x : x \notin d) = p
  BY <1>1, <1>2, Zenon DEF SelectInSeq, I
<1>4. p # 0
  OBVIOUS
<1> QED
  BY <1>3, <1>4, Zenon DEF Skipped

\* If all are delimiters nothing is left.
LEMMA NothingSkipped ==
  ASSUME NEW s \in Seq(Chars), NEW d, \A k \in 1 .. Len(s) : s[k] \in d
  PROVE  Skipped(s, d) = <<>>
<1> DEFINE I == {i \in 1 .. Len(s) : s[i] \notin d}
<1>1. I = {}
  OBVIOUS
<1>3. SelectInSeq(s, LAMBDA x : x \notin d) = 0
  BY <1>1, Zenon DEF SelectInSeq
<1> QED
  BY <1>3, Zenon DEF Skipped

\* A token ends at the first delimiter, or where the sequence does.
LEMMA EndIs ==
  ASSUME NEW s \in Seq(Chars), NEW d, NEW e \in 1 .. Len(s) + 1,
         \A k \in 1 .. e - 1 : s[k] \notin d, e = Len(s) + 1 \/ s[e] \in d
  PROVE  End(s, d) = e
<1> DEFINE I == {i \in 1 .. Len(s) : s[i] \in d}
<1>1. CASE e = Len(s) + 1
  <2>1. I = {}
    BY <1>1
  <2>2. SelectInSeq(s, LAMBDA x : x \in d) = 0
    BY <2>1, Zenon DEF SelectInSeq
  <2> QED
    BY <1>1, <2>2, Zenon DEF End
<1>2. CASE e # Len(s) + 1
  <2>1. I \in SUBSET Nat /\ e \in I /\ I # {} /\ \A y \in I : e <= y
    BY <1>2
  <2> HIDE DEF I
  <2>2. Min(I) = e
    BY <2>1, MinAt
  <2>3. SelectInSeq(s, LAMBDA x : x \in d) = e
    BY <2>1, <2>2, Zenon DEF SelectInSeq, I
  <2>4. e # 0
    OBVIOUS
  <2> QED
    BY <2>3, <2>4, Zenon DEF End
<1> QED
  BY <1>1, <1>2

\* What strtok cuts out, and what it leaves for the next call.
LEMMA TokenAt ==
  ASSUME NEW s \in Seq(Chars), NEW d,
         NEW p \in 1 .. Len(s), NEW e \in 2 .. Len(s) + 1, p < e,
         \A k \in 1 .. p - 1 : s[k] \in d, \A k \in p .. e - 1 : s[k] \notin d,
         e = Len(s) + 1 \/ s[e] \in d
  PROVE  /\ strtok(s, d).token = SubSeq(s, p, e - 1)
         /\ strtok(s, d).rest = SubSeq(s, e + 1, Len(s))
<1> DEFINE t == SubSeq(s, p, Len(s))
           g == e - p + 1
<1>1. Len(s) \in Nat /\ g \in 2 .. Len(s) - p + 2 /\ s[p] \notin d
  OBVIOUS
<1>2. t \in Seq(Chars) /\ Len(t) = Len(s) - p + 1
      /\ \A k \in 1 .. Len(t) : t[k] = s[p + k - 1]
  BY <1>1, SubSeqProperties
<1>3. Skipped(s, d) = t
  BY <1>1, SkippedIs
<1>4. SubSeq(t, 1, g - 1) = SubSeq(s, p, e - 1)
  BY <1>1, PartOfRest
<1>5. SubSeq(t, g + 1, Len(t)) = SubSeq(s, e + 1, Len(s))
  <2>1. CASE g + 1 \in 1 .. Len(s) + 1
    BY <1>1, <1>2, <2>1, PartOfRest
  <2>2. CASE g + 1 > Len(s) + 1
    <3>1. g + 1 > Len(t) /\ e + 1 > Len(s)
      BY <1>1, <1>2, <2>2
    <3> QED
      BY <1>1, <1>2, <3>1, SubSeqProperties
  <2> QED
    BY <1>1, <2>1, <2>2
<1>g. g = e - p + 1
  OBVIOUS
<1> HIDE DEF t, g
<1>6. End(t, d) = g
  <2>1. g \in 1 .. Len(t) + 1
    BY <1>1, <1>2
  <2>2. ASSUME NEW k \in 1 .. g - 1
        PROVE  t[k] \notin d
    <3>1. k \in 1 .. Len(t) /\ p + k - 1 \in p .. e - 1
      BY <1>1, <1>2, <1>g
    <3>2. t[k] = s[p + k - 1] /\ s[p + k - 1] \notin d
      BY <1>2, <3>1
    <3> QED
      BY <3>2
  <2>3. g = Len(t) + 1 \/ t[g] \in d
    <3>1. CASE e = Len(s) + 1
      BY <1>1, <1>2, <1>g, <3>1
    <3>2. CASE e # Len(s) + 1
      <4>1. g \in 1 .. Len(t) /\ p + g - 1 = e
        <5>1. e \in Nat /\ p \in Nat /\ Len(s) \in Nat /\ e <= Len(s) /\ Len(t) \in Nat
          BY <1>1, <1>2, <3>2
        <5>2. p < e
          OBVIOUS
        <5> QED
          BY <5>1, <5>2, <1>2, <1>g
      <4>2. t[g] = s[e]
        BY <1>2, <4>1
      <4> QED
        BY <3>2, <4>2
    <3> QED
      BY <3>1, <3>2
  <2> QED
    BY <1>2, <2>1, <2>2, <2>3, EndIs
<1> QED
  BY <1>3, <1>4, <1>5, <1>6, Zenon DEF strtok

\* Of delimiters only, strtok makes NULL, and leaves nothing.
LEMMA NoToken ==
  ASSUME NEW s \in Seq(Chars), NEW d, \A k \in 1 .. Len(s) : s[k] \in d
  PROVE  strtok(s, d).token = <<>> /\ strtok(s, d).rest = <<>>
<1>1. Skipped(s, d) = <<>>
  BY NothingSkipped
<1>2. /\ strtok(s, d).token = SubSeq(<<>>, 1, End(<<>>, d) - 1)
      /\ strtok(s, d).rest = SubSeq(<<>>, End(<<>>, d) + 1, Len(<<>>))
  BY <1>1, Zenon DEF strtok
<1>3. End(<<>>, d) = 1
  <2>1. <<>> \in Seq(Chars) /\ Len(<<>>) = 0 /\ 1 = Len(<<>>) + 1
        /\ 1 \in 1 .. Len(<<>>) + 1 /\ \A k \in 1 .. 1 - 1 : <<>>[k] \notin d
    OBVIOUS
  <2> QED
    BY <2>1, EndIs
<1>4. SubSeq(<<>>, 1, 1 - 1) = <<>> /\ SubSeq(<<>>, 1 + 1, Len(<<>>)) = <<>>
  OBVIOUS
<1> QED
  BY <1>2, <1>3, <1>4

\* A sequence with a character that is no delimiter has a token.
LEMMA TokenEnds ==
  ASSUME NEW s \in Seq(Chars), NEW d, ~ \A k \in 1 .. Len(s) : s[k] \in d
  PROVE  \E p \in 1 .. Len(s), e \in 2 .. Len(s) + 1 :
            /\ p < e
            /\ \A k \in 1 .. p - 1 : s[k] \in d
            /\ \A k \in p .. e - 1 : s[k] \notin d
            /\ e = Len(s) + 1 \/ s[e] \in d
<1> DEFINE T == {k \in 1 .. Len(s) : s[k] \notin d}
<1>1. T \in SUBSET Nat /\ T # {}
  OBVIOUS
<1>2. PICK p \in T : \A y \in T : p <= y
  BY <1>1, FirstOf
<1> DEFINE U == {k \in p + 1 .. Len(s) + 1 : k = Len(s) + 1 \/ s[k] \in d}
<1>3. U \in SUBSET Nat /\ Len(s) + 1 \in U
  OBVIOUS
<1>4. PICK e \in U : \A y \in U : e <= y
  BY <1>3, FirstOf
<1>5. p \in 1 .. Len(s) /\ s[p] \notin d /\ \A k \in 1 .. p - 1 : s[k] \in d
  BY <1>2
<1>6. e \in p + 1 .. Len(s) + 1 /\ (e = Len(s) + 1 \/ s[e] \in d)
  BY <1>4
<1>7. \A k \in p .. e - 1 : s[k] \notin d
  BY <1>4, <1>5, <1>6
<1> QED
  BY <1>5, <1>6, <1>7

\* What a connection may write is text, and nothing of it is there before the
\* second record.
LEMMA BodyIs ==
  ASSUME NEW c \in Conns
  PROVE  /\ Body(c, 0) = <<>> /\ Body(c, 1) = <<>>
         /\ Body(c, 2) = Text(c)
         /\ Text(c) \in Seq(Chars)
<1>1. CASE c \in Tunnels
  <2>1. SubDomain[c] \in Seq(Chars) /\ CMaxPoll[c] \in Chars /\ "-" \in Chars
    BY <1>1, PeerAssumption, DigitAssumption
  <2>2. SubDomain[c] \o <<"-", CMaxPoll[c]>> \in Seq(Chars)
    BY <2>1
  <2> QED
    BY <1>1, <2>2 DEF Text, Body
<1>2. CASE c \notin Tunnels
  <2>1. Says[c] \in Seq(Chars)
    BY <1>2, PeerAssumption DEF Conns
  <2> QED
    BY <1>2, <2>1 DEF Text, Body
<1> QED
  BY <1>1, <1>2

\* What CA finds in it, by definition.
LEMMA Announcement ==
  ASSUME NEW c \in Conns, NEW r \in 0 .. 2
  PROVE  /\ Subdomian[c][r] = strtok(Body(c, r), Hyphen).token
         /\ stotal[c][r] = strtok(strtok(Body(c, r), Hyphen).rest, Hyphen).token
  BY DEF Subdomian, stotal

\* An announcement cut short has no second token: atoi(NULL).
LEMMA CutShort ==
  ASSUME NEW c \in Conns, NEW r \in 0 .. 1
  PROVE  stotal[c][r] = <<>>
<1>1. Body(c, r) = <<>>
  BY BodyIs DEF Body
<1>2. <<>> \in Seq(Chars) /\ \A k \in 1 .. Len(<<>>) : <<>>[k] \in Hyphen
  OBVIOUS
<1>3. r \in 0 .. 2
  OBVIOUS
<1>4. strtok(<<>>, Hyphen).rest = <<>> /\ strtok(<<>>, Hyphen).token = <<>>
  BY <1>2, NoToken
<1> QED
  BY <1>1, <1>3, <1>4, Announcement

\* A character that is no delimiter makes a token.
LEMMA SomeToken ==
  ASSUME NEW d, NEW r \in Seq(Chars), NEW q \in 1 .. Len(r), r[q] \notin d
  PROVE  strtok(r, d).token # <<>>
<1>1. PICK p \in 1 .. Len(r), e \in 2 .. Len(r) + 1 :
            /\ p < e
            /\ \A k \in 1 .. p - 1 : r[k] \in d
            /\ \A k \in p .. e - 1 : r[k] \notin d
            /\ e = Len(r) + 1 \/ r[e] \in d
  BY TokenEnds
<1>2. strtok(r, d).token = SubSeq(r, p, e - 1)
  BY <1>1, TokenAt, Zenon
<1>3. SubSeq(r, p, e - 1) \in Seq(Chars) /\ Len(SubSeq(r, p, e - 1)) = e - p /\ e - p > 0
  BY <1>1, SubSeqProperties
<1>4. \A x \in Seq(Chars) : Len(x) > 0 => x # <<>>
  OBVIOUS
<1> QED
  BY <1>2, <1>3, <1>4

\* A part of a sequence, element by element.
LEMMA PartIs ==
  ASSUME NEW s \in Seq(Chars), NEW a \in 1 .. Len(s), NEW b \in a .. Len(s)
  PROVE  /\ SubSeq(s, a, b) \in Seq(Chars) /\ Len(SubSeq(s, a, b)) = b - a + 1
         /\ \A q \in 1 .. b - a + 1 : SubSeq(s, a, b)[q] = s[a + q - 1]
BY SubSeqProperties

\* A text with two parts and a hyphen between them has a second token.
LEMMA SecondToken ==
  ASSUME NEW s \in Seq(Chars),
         strtok(strtok(s, Hyphen).rest, Hyphen).token = <<>>
  PROVE  OneToken(s)
<1>1. SUFFICES ASSUME NEW i \in DOMAIN s, NEW j \in DOMAIN s, NEW k \in DOMAIN s,
                      i < j, j < k, s[j] \in Hyphen, {s[i], s[k]} \cap Hyphen = {}
               PROVE  FALSE
  BY DEF OneToken
<1>2. /\ i \in 1 .. Len(s) /\ j \in 1 .. Len(s) /\ k \in 1 .. Len(s) /\ Len(s) \in Nat
      /\ s[i] \notin Hyphen /\ s[k] \notin Hyphen
  BY <1>1
<1>3. PICK p \in 1 .. Len(s), e \in 2 .. Len(s) + 1 :
            /\ p < e
            /\ \A q \in 1 .. p - 1 : s[q] \in Hyphen
            /\ \A q \in p .. e - 1 : s[q] \notin Hyphen
            /\ e = Len(s) + 1 \/ s[e] \in Hyphen
  BY <1>2, TokenEnds
<1>4. p <= i /\ e <= j
  BY <1>1, <1>2, <1>3
<1> DEFINE r == SubSeq(s, e + 1, Len(s))
<1>5. strtok(s, Hyphen).rest = r
  BY <1>3, TokenAt
<1>6. r \in Seq(Chars) /\ k - e \in 1 .. Len(r) /\ r[k - e] = s[k]
  <2>1. e + 1 <= Len(s) /\ e + 1 \in Nat /\ Len(s) \in Nat /\ k - e \in 1 .. Len(s) - e
    BY <1>1, <1>2, <1>3, <1>4
  <2>2. /\ r \in Seq(Chars) /\ Len(r) = Len(s) - e
        /\ \A q \in 1 .. Len(s) - e : r[q] = s[e + q]
    <3>1. \A q \in 1 .. Len(s) - e : (e + 1) + q - 1 = e + q
      BY <2>1
    <3>2. /\ r \in Seq(Chars) /\ Len(r) = Len(s) - (e + 1) + 1
          /\ \A q \in 1 .. Len(s) - (e + 1) + 1 : r[q] = s[(e + 1) + q - 1]
      <4> DEFINE a == e + 1
      <4>1. a \in 1 .. Len(s) /\ Len(s) \in a .. Len(s)
        BY <2>1
      <4> HIDE DEF a
      <4>2. /\ SubSeq(s, a, Len(s)) \in Seq(Chars) /\ Len(SubSeq(s, a, Len(s))) = Len(s) - a + 1
            /\ \A q \in 1 .. Len(s) - a + 1 : SubSeq(s, a, Len(s))[q] = s[a + q - 1]
        BY <4>1, PartIs
      <4> QED
        BY <4>2 DEF a
    <3>3. Len(s) - (e + 1) + 1 = Len(s) - e
      BY <2>1
    <3> QED
      BY <3>1, <3>2, <3>3
  <2> HIDE DEF r
  <2>3. e + (k - e) = k
    BY <1>2, <1>3
  <2> QED
    BY <2>1, <2>2, <2>3
<1> HIDE DEF r
<1>7. strtok(r, Hyphen).token # <<>>
  BY <1>2, <1>6, SomeToken
<1> QED
  BY <1>5, <1>7

\* What strtok makes of a text is text.
LEMMA TokenType ==
  ASSUME NEW s \in Seq(Chars), NEW d
  PROVE  strtok(s, d).token \in Seq(Chars) /\ strtok(s, d).rest \in Seq(Chars)
<1>1. CASE \A k \in 1 .. Len(s) : s[k] \in d
  <2>1. strtok(s, d).token = <<>> /\ strtok(s, d).rest = <<>>
    BY <1>1, NoToken
  <2> QED
    BY <2>1
<1>2. CASE ~ \A k \in 1 .. Len(s) : s[k] \in d
  <2>1. PICK p \in 1 .. Len(s), e \in 2 .. Len(s) + 1 :
            /\ p < e
            /\ \A k \in 1 .. p - 1 : s[k] \in d
            /\ \A k \in p .. e - 1 : s[k] \notin d
            /\ e = Len(s) + 1 \/ s[e] \in d
    BY <1>2, TokenEnds
  <2>2. strtok(s, d).token = SubSeq(s, p, e - 1) /\ strtok(s, d).rest = SubSeq(s, e + 1, Len(s))
    BY <2>1, TokenAt
  <2>3. SubSeq(s, p, e - 1) \in Seq(Chars)
    BY <2>1, SubSeqProperties
  <2>4. SubSeq(s, e + 1, Len(s)) \in Seq(Chars)
    BY <2>1, SubSeqProperties
  <2> QED
    BY <2>2, <2>3, <2>4
<1> QED
  BY <1>1, <1>2

\* strstr finds the first.
LEMMA FromIs ==
  ASSUME NEW s \in Seq(Chars), NEW w, NEW i \in 1 .. Len(s), s[i] = w,
         \A h \in 1 .. i - 1 : s[h] # w
  PROVE  From(s, w) = SubSeq(s, i, Len(s))
<1> DEFINE I == {h \in 1 .. Len(s) : s[h] = w}
<1>1. I \in SUBSET Nat /\ i \in I /\ I # {} /\ \A y \in I : i <= y
  OBVIOUS
<1> HIDE DEF I
<1>2. Min(I) = i
  BY <1>1, MinAt
<1>3. SelectInSeq(s, LAMBDA x : x = w) = i
  BY <1>1, <1>2, Zenon DEF SelectInSeq, I
<1>4. i # 0
  OBVIOUS
<1> QED
  BY <1>3, <1>4, Zenon DEF From

\* If there is none it makes NULL.
LEMMA NotFrom ==
  ASSUME NEW s \in Seq(Chars), NEW w, \A h \in 1 .. Len(s) : s[h] # w
  PROVE  From(s, w) = <<>>
<1> DEFINE I == {h \in 1 .. Len(s) : s[h] = w}
<1>1. I = {}
  OBVIOUS
<1>2. SelectInSeq(s, LAMBDA x : x = w) = 0
  BY <1>1, Zenon DEF SelectInSeq
<1> QED
  BY <1>2, Zenon DEF From

\* parseHtmlHead finds the name a request asks for, if no character of it is one
\* of Domain's.
LEMMA Asked ==
  ASSUME NEW request \in Requests, NEW k \in Seq(Chars), "." \in Domain,
         Plain(k), Asks(request, k)
  PROVE  parseHtmlHead[request] = k
<1> DEFINE n == Len(k)
           m == Len(request)
<1>1. request \in Seq(Chars) /\ DOMAIN request = 1 .. m /\ m \in Nat /\ n \in Nat
  BY PeerAssumption
<1>2. PICK i \in 1 .. m, j \in 1 .. m :
        /\ i < j /\ request[i] = "Referer" /\ request[j] = "//"
        /\ \A h \in 1 .. j : request[h] \notin EOL
        /\ \A h \in 1 .. i - 1 : request[h] # "Referer"
        /\ \A h \in i .. j - 1 : request[h] # "//"
        /\ n > 0 /\ j + n < m
        /\ \A h \in 1 .. n : request[j + h] = k[h]
        /\ request[j + n + 1] = "."
  BY <1>1 DEF Asks
<1>3. \A h \in 1 .. n : k[h] \notin Domain /\ k[h] \notin EOL
  BY DEF Plain, ToSet
<1>4. ASSUME NEW q \in 1 .. j + n + 1
      PROVE  request[q] \notin EOL
  <2>1. CASE q <= j
    BY <1>2, <2>1
  <2>2. CASE q > j /\ q <= j + n
    <3>1. q - j \in 1 .. n /\ j + (q - j) = q
      BY <1>1, <1>2, <2>2
    <3> QED
      BY <1>2, <1>3, <3>1
  <2>3. CASE q = j + n + 1
    BY <1>2, <2>3 DEF EOL
  <2>4. q <= j \/ (q > j /\ q <= j + n) \/ q = j + n + 1
    <3>1. j \in Nat /\ n \in Nat
      BY <1>1, <1>2
    <3> HIDE DEF n
    <3> QED
      BY <3>1
  <2> QED
    BY <2>1, <2>2, <2>3, <2>4
<1> HIDE DEF n, m
\* The first line.
<1>5. PICK p \in 1 .. Len(request), e \in 2 .. Len(request) + 1 :
            /\ p < e
            /\ \A h \in 1 .. p - 1 : request[h] \in EOL
            /\ \A h \in p .. e - 1 : request[h] \notin EOL
            /\ e = Len(request) + 1 \/ request[e] \in EOL
  <2>1. 1 \in 1 .. Len(request) /\ 1 \in 1 .. j + n + 1
    BY <1>1, <1>2 DEF m
  <2>2. request[1] \notin EOL
    BY <1>4, <2>1
  <2> QED
    BY <1>1, <2>1, <2>2, TokenEnds
<1>6. p = 1 /\ e > j + n + 1 /\ e <= m + 1
  <2>1. p = 1
    <3>1. 1 \in 1 .. j + n + 1
      BY <1>1, <1>2
    <3> QED
      BY <1>4, <1>5, <3>1
  <2>2. SUFFICES ASSUME e <= j + n + 1 PROVE FALSE
    BY <1>1, <1>2, <1>5, <2>1 DEF m
  <2>3. e \in 1 .. j + n + 1 /\ e # m + 1
    BY <1>1, <1>2, <1>5, <2>2
  <2> QED
    BY <1>4, <1>5, <2>3 DEF m
<1> DEFINE t == SubSeq(request, 1, e - 1)
<1>7. strtok(request, EOL).token = t
  <2>0. request \in Seq(Chars)
    BY <1>1
  <2>1. strtok(request, EOL).token = SubSeq(request, p, e - 1)
    BY <1>5, <2>0, TokenAt, Zenon
  <2> QED
    BY <1>6, <2>1
<1>8. /\ t \in Seq(Chars) /\ Len(t) = e - 1 /\ \A q \in 1 .. e - 1 : t[q] = request[q]
  <2>1. 1 \in 1 .. Len(request) /\ e - 1 \in 1 .. Len(request)
    BY <1>1, <1>2, <1>6 DEF m
  <2> QED
    BY <1>1, <2>1, PartIs
<1> HIDE DEF t
\* From the Referer on.
<1> DEFINE f == SubSeq(t, i, Len(t))
<1>9. From(t, "Referer") = f
  <2>1. i \in 1 .. Len(t) /\ t[i] = "Referer" /\ \A h \in 1 .. i - 1 : t[h] # "Referer"
    BY <1>1, <1>2, <1>6, <1>8
  <2> QED
    BY <1>8, <2>1, FromIs
<1>10. /\ f \in Seq(Chars) /\ Len(f) = e - i
       /\ \A q \in 1 .. e - i : f[q] = request[i + q - 1]
  <2>1. i \in 1 .. Len(t) /\ Len(t) \in i .. Len(t) /\ Len(t) - i + 1 = e - i
    BY <1>1, <1>2, <1>6, <1>8
  <2>2. /\ f \in Seq(Chars) /\ Len(f) = e - i
        /\ \A q \in 1 .. e - i : f[q] = t[i + q - 1]
    BY <1>8, <2>1, PartIs
  <2>3. \A q \in 1 .. e - i : i + q - 1 \in 1 .. e - 1
    BY <1>2, <1>5
  <2> QED
    BY <1>8, <2>2, <2>3
<1> HIDE DEF f
\* From the mark on.
<1> DEFINE g == SubSeq(f, j - i + 1, Len(f))
<1>11. From(f, "//") = g
  <2>1. j - i + 1 \in 1 .. Len(f) /\ j - i + 1 \in 1 .. e - i /\ i + (j - i + 1) - 1 = j
    BY <1>1, <1>2, <1>6, <1>10
  <2>2. f[j - i + 1] = "//"
    BY <1>2, <1>10, <2>1
  <2>3. ASSUME NEW h \in 1 .. (j - i + 1) - 1
        PROVE  f[h] # "//"
    <3>1. h \in 1 .. e - i /\ i + h - 1 \in i .. j - 1
      BY <1>1, <1>2, <1>6
    <3> QED
      BY <1>2, <1>10, <3>1
  <2> QED
    BY <1>10, <2>1, <2>2, <2>3, FromIs
<1>12. /\ g \in Seq(Chars) /\ Len(g) = e - j
       /\ \A q \in 1 .. e - j : g[q] = request[j + q - 1]
  <2>1. j - i + 1 \in 1 .. Len(f) /\ Len(f) \in j - i + 1 .. Len(f)
        /\ Len(f) - (j - i + 1) + 1 = e - j
    BY <1>1, <1>2, <1>6, <1>10
  <2>2. /\ g \in Seq(Chars) /\ Len(g) = e - j
        /\ \A q \in 1 .. e - j : g[q] = f[(j - i + 1) + q - 1]
    BY <1>10, <2>1, PartIs
  <2>3. ASSUME NEW q \in 1 .. e - j
        PROVE  f[(j - i + 1) + q - 1] = request[j + q - 1]
    <3>1. (j - i + 1) + q - 1 \in 1 .. e - i /\ i + ((j - i + 1) + q - 1) - 1 = j + q - 1
      BY <1>1, <1>2, <1>6
    <3> QED
      BY <1>10, <3>1
  <2> QED
    BY <2>2, <2>3
<1> HIDE DEF g
\* Behind the mark.
<1> DEFINE u == SubSeq(g, 2, Len(g))
<1>13. Host(request) = u
  BY <1>7, <1>9, <1>11, Zenon DEF Host, Pot
<1>14. /\ u \in Seq(Chars) /\ Len(u) = e - j - 1
       /\ \A q \in 1 .. e - j - 1 : u[q] = request[j + q]
  <2>1. 2 \in 1 .. Len(g) /\ Len(g) \in 2 .. Len(g) /\ Len(g) - 2 + 1 = e - j - 1
    BY <1>1, <1>2, <1>6, <1>12
  <2>2. /\ u \in Seq(Chars) /\ Len(u) = e - j - 1
        /\ \A q \in 1 .. e - j - 1 : u[q] = g[2 + q - 1]
    BY <1>12, <2>1, PartIs
  <2>3. ASSUME NEW q \in 1 .. e - j - 1
        PROVE  g[2 + q - 1] = request[j + q]
    <3>1. 2 + q - 1 \in 1 .. e - j /\ j + (2 + q - 1) - 1 = j + q
      BY <1>1, <1>2, <1>6
    <3> QED
      BY <1>12, <3>1
  <2> QED
    BY <2>2, <2>3
<1> HIDE DEF u
\* Up to the dot.
<1>15. strtok(u, Domain).token = SubSeq(u, 1, n)
  <2>1. /\ n \in 1 .. Len(u) /\ n + 1 \in 1 .. Len(u) /\ n + 1 \in 2 .. Len(u) + 1
        /\ n + 1 \in 1 .. e - j - 1 /\ j + (n + 1) = j + n + 1 /\ (n + 1) - 1 = n /\ 1 < n + 1
        /\ 1 \in 1 .. Len(u)
    BY <1>1, <1>2, <1>6, <1>14
  <2>2. u[n + 1] \in Domain
    BY <1>2, <1>14, <2>1
  <2>3. ASSUME NEW q \in 1 .. n
        PROVE  u[q] \notin Domain
    <3>1. q \in 1 .. e - j - 1
      BY <1>14, <2>1
    <3>2. u[q] = k[q]
      BY <1>2, <1>14, <3>1
    <3> QED
      BY <1>3, <3>2 DEF n
  <2>4. \A q \in 1 .. 1 - 1 : u[q] \in Domain
    OBVIOUS
  <2>5. strtok(u, Domain).token = SubSeq(u, 1, (n + 1) - 1)
    <3> DEFINE z == n + 1
    <3>1. /\ u \in Seq(Chars) /\ 1 \in 1 .. Len(u) /\ z \in 2 .. Len(u) + 1 /\ 1 < z
          /\ u[z] \in Domain
      BY <1>14, <2>1, <2>2
    <3>2. \A q \in 1 .. z - 1 : u[q] \notin Domain
      BY <2>1, <2>3
    <3> HIDE DEF z
    <3>3. strtok(u, Domain).token = SubSeq(u, 1, z - 1)
      BY <2>4, <3>1, <3>2, TokenAt
    <3> QED
      BY <3>3 DEF z
  <2> QED
    BY <2>1, <2>5
<1>16. SubSeq(u, 1, n) = k
  <2>1. 1 \in 1 .. Len(u) /\ n \in 1 .. Len(u) /\ n - 1 + 1 = n
    BY <1>1, <1>2, <1>6, <1>14
  <2> DEFINE w == SubSeq(u, 1, n)
  <2>2. w \in Seq(Chars) /\ Len(w) = n /\ \A q \in 1 .. n : w[q] = u[1 + q - 1]
    BY <1>14, <2>1, PartIs
  <2> HIDE DEF w
  <2>3. ASSUME NEW q \in 1 .. n
        PROVE  w[q] = k[q]
    <3>1. q \in 1 .. e - j - 1 /\ 1 + q - 1 = q
      BY <1>14, <2>1
    <3> QED
      BY <1>2, <1>14, <2>2, <3>1
  <2>4. w = k
    BY <2>2, <2>3, SeqEqual DEF n
  <2> QED
    BY <2>4 DEF w
<1> QED
  BY <1>13, <1>15, <1>16 DEF parseHtmlHead

\* Of the ordinary request it finds nothing.
LEMMA OrdinaryFaults ==
  ASSUME NEW request \in Requests, Ordinary(request)
  PROVE  parseHtmlHead[request] = <<>>
<1>1. request \in Seq(Chars) /\ DOMAIN request = 1 .. Len(request)
  BY PeerAssumption
<1> DEFINE t == strtok(request, EOL).token
<1>2. t \in Seq(Chars)
  BY <1>1, TokenType
<1>3. \A q \in 1 .. Len(t) : t[q] # "Referer"
  <2>1. CASE \A h \in 1 .. Len(request) : request[h] \in EOL
    <3>1. t = <<>>
      BY <1>1, <2>1, NoToken
    <3> QED
      BY <3>1
  <2>2. CASE ~ \A h \in 1 .. Len(request) : request[h] \in EOL
    <3>1. PICK p \in 1 .. Len(request), e \in 2 .. Len(request) + 1 :
              /\ p < e
              /\ \A h \in 1 .. p - 1 : request[h] \in EOL
              /\ \A h \in p .. e - 1 : request[h] \notin EOL
              /\ e = Len(request) + 1 \/ request[e] \in EOL
      BY <1>1, <2>2, TokenEnds
    <3>2. t = SubSeq(request, p, e - 1)
      BY <1>1, <3>1, TokenAt
    <3> HIDE DEF t
    <3>3. e - 1 \in p .. Len(request) /\ e - 1 - p + 1 = e - p
      BY <1>1, <3>1
    <3>4. Len(t) = e - p /\ \A q \in 1 .. e - p : t[q] = request[p + q - 1]
      BY <1>1, <3>2, <3>3, PartIs
    <3>5. SUFFICES ASSUME NEW q \in 1 .. e - p, request[p + q - 1] = "Referer" PROVE FALSE
      BY <3>4
    <3>6. p + q - 1 \in 1 .. Len(request) /\ p + q - 1 \in p .. e - 1
      BY <1>1, <3>1
    <3>7. PICK g \in 1 .. p + q - 1, h \in 1 .. p + q - 1 :
             h < g /\ request[h] \notin EOL /\ request[g] \in EOL
      BY <1>1, <3>5, <3>6 DEF Ordinary
    <3>8. h >= p
      BY <3>1, <3>7
    <3>9. g \in p .. e - 1
      BY <3>1, <3>6, <3>7, <3>8
    <3> QED
      BY <3>1, <3>7, <3>9
  <2> QED
    BY <2>1, <2>2
<1> HIDE DEF t
<1>4. From(t, "Referer") = <<>>
  BY <1>2, <1>3, NotFrom
<1>5. <<>> \in Seq(Chars) /\ (\A q \in 1 .. Len(<<>>) : <<>>[q] # "//")
      /\ (\A q \in 1 .. Len(<<>>) : <<>>[q] \in Domain)
  OBVIOUS
<1>6. From(<<>>, "//") = <<>>
  BY <1>5, NotFrom
<1>7. Pot(request) = <<>>
  BY <1>4, <1>6 DEF Pot, t
<1>8. Host(request) = <<>>
  BY <1>7 DEF Host
<1>9. strtok(<<>>, Domain).token = <<>>
  BY <1>5, NoToken
<1> QED
  BY <1>8, <1>9 DEF parseHtmlHead

-----------------------------------------------------------------------------

\* The kinds of connections.
LEMMA NoConnection == NoConn \notin Conns /\ \A c \in Strangers : c \notin Tunnels
BY PeerAssumption

\* The beginning.
LEMMA PeersInit == Init => PeersInv
<1> SUFFICES ASSUME Init PROVE PeersInv
  OBVIOUS
<1>1. NoConn \notin Conns
  BY PeerAssumption
<1>2. PeersOK /\ AtHand
  BY <1>1 DEF Init, PeersOK, AtHand, Gone
<1>3. MetOnce
  BY <1>1 DEF Init, MetOnce, Fresh
<1>4. NoneOverlooked
  BY DEF Init, NoneOverlooked, Conns
<1> QED
  BY <1>2, <1>3, <1>4 DEF PeersInv

\* A connection joins the queue.
LEMMA ConnectPeers == ASSUME PeersInv, NEW c \in Conns, Connect(c) PROVE PeersInv'
<1> USE DEF PeersInv, Connect
<1>1. PeersOK'
  BY DEF PeersOK
<1>2. AtHand'
  BY DEF PeersOK, AtHand, Gone, Conns
<1>3. MetOnce'
  BY NoConnection DEF PeersOK, AtHand, MetOnce, Fresh, Gone
<1>4. NoneOverlooked'
  BY NoConnection DEF PeersOK, AtHand, NoneOverlooked, ToSet, Conns
<1> QED
  BY <1>1, <1>2, <1>3, <1>4

\* A tunnel writes.
LEMMA AnnouncePeers == ASSUME PeersInv, NEW c \in Conns, Announce(c) PROVE PeersInv'
<1> USE DEF PeersInv, Announce
<1>1. PeersOK'
  BY DEF PeersOK
<1>2. AtHand'
  BY DEF PeersOK, AtHand, Gone, Conns
<1>3. MetOnce'
  BY NoConnection DEF PeersOK, AtHand, MetOnce, Fresh, Gone
<1>4. NoneOverlooked'
  BY NoConnection DEF PeersOK, AtHand, NoneOverlooked, ToSet, Conns
<1> QED
  BY <1>1, <1>2, <1>3, <1>4

\* A connection ends.
LEMMA DropPeers == ASSUME PeersInv, NEW c \in Conns, Drop(c) PROVE PeersInv'
<1> USE DEF PeersInv, Drop
<1>1. PeersOK'
  BY DEF PeersOK
<1>2. AtHand'
  BY DEF PeersOK, AtHand, Gone, Conns
<1>3. MetOnce'
  BY NoConnection DEF PeersOK, AtHand, MetOnce, Fresh, Gone
<1>4. NoneOverlooked'
  BY NoConnection DEF PeersOK, AtHand, NoneOverlooked, ToSet, Conns
<1> QED
  BY <1>1, <1>2, <1>3, <1>4

\* CA takes the next of the queue; the others move up.
LEMMA AcceptPeers == ASSUME PeersInv, Accept PROVE PeersInv'
<1> USE DEF PeersInv, Accept
<1>1. PeersOK'
  BY DEF PeersOK
<1>2. AtHand'
  BY DEF PeersOK, AtHand, Gone, Conns
<1>3. MetOnce'
  BY NoConnection DEF PeersOK, AtHand, MetOnce, Fresh, Gone
<1>4. NoneOverlooked'
  <2>1. ASSUME NEW c \in Tunnels, peer'[c] = "up", c # cur', c \notin ToSet(queue'), c \in ToSet(queue)
        PROVE  FALSE
    <3>1. PICK i \in DOMAIN queue : queue[i] = c
      BY <2>1 DEF ToSet
    <3>2. i = 1
      <4>1. CASE i # 1
        <5>1. i - 1 \in DOMAIN queue' /\ queue'[i - 1] = c
          BY <3>1, <4>1 DEF PeersOK
        <5> QED
          BY <2>1, <5>1 DEF ToSet
      <4> QED
        BY <4>1
    <3>3. c = Head(queue)
      BY <3>1, <3>2 DEF PeersOK
    <3> QED
      BY <2>1, <3>3 DEF PeersOK, Conns
  <2>2. ASSUME NEW c \in Tunnels PROVE (c # cur' => c # cur) /\ (peer'[c] = "up" => peer[c] = "up")
    BY NoConnection DEF PeersOK, AtHand, Conns
  <2> QED
    BY <2>1, <2>2 DEF NoneOverlooked, PeersOK
<1> QED
  BY <1>1, <1>2, <1>3, <1>4

\* CA goes on to the head, or leaves a peer that is over.
LEMMA ShakePeers == ASSUME PeersInv, Shake PROVE PeersInv'
<1> USE DEF PeersInv, Shake, To
<1>1. PeersOK'
  BY DEF PeersOK
<1>2. AtHand'
  BY DEF PeersOK, AtHand, Gone, Conns
<1>3. MetOnce'
  BY NoConnection DEF PeersOK, AtHand, MetOnce, Fresh, Gone
<1>4. NoneOverlooked'
  BY NoConnection DEF PeersOK, AtHand, NoneOverlooked, ToSet, Conns
<1> QED
  BY <1>1, <1>2, <1>3, <1>4

\* CA goes on to the head of a stranger, or leaves it: it is no tunnel.
LEMMA MeetStrangerPeers == ASSUME PeersInv, MeetStranger PROVE PeersInv'
<1> USE DEF PeersInv, MeetStranger, To
<1>1. PeersOK'
  BY DEF PeersOK
<1>2. AtHand'
  BY DEF PeersOK, AtHand, Gone, Conns
<1>3. MetOnce'
  BY NoConnection DEF PeersOK, AtHand, MetOnce, Fresh, Gone
<1>4. NoneOverlooked'
  BY NoConnection DEF PeersOK, AtHand, NoneOverlooked, ToSet, Conns
<1> QED
  BY <1>1, <1>2, <1>3, <1>4

\* CA goes on to the body, or leaves a peer that is over.
LEMMA ReadHeadPeers == ASSUME PeersInv, ReadHead PROVE PeersInv'
<1> USE DEF PeersInv, ReadHead, HeadRead, To
<1>1. PeersOK'
  BY DEF PeersOK
<1>2. AtHand'
  BY DEF PeersOK, AtHand, Gone, Conns
<1>3. MetOnce'
  BY NoConnection DEF PeersOK, AtHand, MetOnce, Fresh, Gone
<1>4. NoneOverlooked'
  BY NoConnection DEF PeersOK, AtHand, NoneOverlooked, ToSet, Conns
<1> QED
  BY <1>1, <1>2, <1>3, <1>4

\* CA is through with a connection, which has its fate.
LEMMA RegisterPeers == ASSUME PeersInv, Register PROVE PeersInv'
<1> USE DEF PeersInv, Register, To, SetFLRoute, BodyRead
<1>1. PeersOK'
  <2>1. fate' \in [Conns -> {"none", "ok", "full", "wiped"}]
    BY DEF PeersOK
  <2> QED
    BY <2>1 DEF PeersOK
<1>2. AtHand'
  BY DEF PeersOK, AtHand, Gone, Conns
<1>3. MetOnce'
  BY NoConnection DEF PeersOK, AtHand, MetOnce, Fresh, Gone
<1>4. NoneOverlooked'
  BY NoConnection DEF PeersOK, AtHand, NoneOverlooked, ToSet, Conns
<1> QED
  BY <1>1, <1>2, <1>3, <1>4

\* CA faults, and its connections end.
LEMMA CrashPeers == ASSUME PeersInv, Crash PROVE PeersInv'
<1> USE DEF PeersInv, Crash, Ends, BodyRead
<1>1. PeersOK'
  BY DEF PeersOK
<1>2. AtHand'
  BY DEF PeersOK, AtHand, Gone, Conns
<1>3. MetOnce'
  BY NoConnection DEF PeersOK, AtHand, MetOnce, Fresh, Gone
<1>4. NoneOverlooked'
  BY NoConnection DEF PeersOK, AtHand, NoneOverlooked, ToSet, Conns
<1> QED
  BY <1>1, <1>2, <1>3, <1>4

\* CA is killed, whatever it does.
LEMMA KillPeers == ASSUME PeersInv, Kill PROVE PeersInv'
<1> USE DEF PeersInv, Kill, Ends
<1>1. PeersOK'
  BY DEF PeersOK
<1>2. AtHand'
  BY DEF PeersOK, AtHand, Gone, Conns
<1>3. MetOnce'
  BY NoConnection DEF PeersOK, AtHand, MetOnce, Fresh, Gone
<1>4. NoneOverlooked'
  BY NoConnection DEF PeersOK, AtHand, NoneOverlooked, ToSet, Conns
<1> QED
  BY <1>1, <1>2, <1>3, <1>4

\* A lookup leaves the peers alone.
LEMMA DealPeers == ASSUME PeersInv, NEW request \in Requests, Deal(request) PROVE PeersInv'
<1> USE DEF PeersInv, Deal
<1>1. PeersOK'
  BY DEF PeersOK
<1>2. AtHand'
  BY DEF PeersOK, AtHand, Gone, Conns
<1>3. MetOnce'
  BY NoConnection DEF PeersOK, AtHand, MetOnce, Fresh, Gone
<1>4. NoneOverlooked'
  BY NoConnection DEF PeersOK, AtHand, NoneOverlooked, ToSet, Conns
<1> QED
  BY <1>1, <1>2, <1>3, <1>4

\* Tunnels that were registered are known to have been.
LEMMA WipePeers == ASSUME PeersInv, CAShmInit PROVE PeersInv'
<1> USE DEF PeersInv, CAShmInit
<1>1. PeersOK'
  BY DEF PeersOK
<1>2. AtHand'
  BY DEF PeersOK, AtHand, Gone, Conns
<1>3. MetOnce'
  BY NoConnection DEF PeersOK, AtHand, MetOnce, Fresh, Gone
<1>4. NoneOverlooked'
  BY NoConnection DEF PeersOK, AtHand, NoneOverlooked, ToSet, Conns
<1> QED
  BY <1>1, <1>2, <1>3, <1>4

-----------------------------------------------------------------------------

\* What is stored fits, and is the name if that does.
LEMMA StoredIs ==
  ASSUME NEW k \in Seq(Chars)
  PROVE  /\ Stored(k) \in Names
         /\ Len(k) < MAXSUBDOMAIN => Stored(k) = k
<1>1. Len(k) \in Nat /\ MAXSUBDOMAIN \in Nat \ {0}
  BY LimitAssumption
<1>2. CASE Len(k) < MAXSUBDOMAIN
  <2> DEFINE w == SubSeq(k, 1, Len(k))
  <2>1. Stored(k) = w
    BY <1>2 DEF Stored
  <2>2. w \in Seq(Chars) /\ Len(w) = Len(k) /\ \A q \in 1 .. Len(k) : w[q] = k[q]
    BY <1>1, SubSeqProperties
  <2> HIDE DEF w
  <2>3. w = k
    BY <2>2, SeqEqual
  <2> QED
    BY <1>2, <2>1, <2>3 DEF Names
<1>3. CASE ~ Len(k) < MAXSUBDOMAIN
  <2> DEFINE w == SubSeq(k, 1, MAXSUBDOMAIN - 1)
  <2>1. Stored(k) = w
    BY <1>3 DEF Stored
  <2>2. w \in Seq(Chars) /\ Len(w) = MAXSUBDOMAIN - 1
    BY <1>1, <1>3, SubSeqProperties
  <2> HIDE DEF w
  <2>3. MAXSUBDOMAIN - 1 < MAXSUBDOMAIN
    BY <1>1
  <2> QED
    BY <1>3, <2>1, <2>2, <2>3 DEF Names
<1> QED
  BY <1>2, <1>3

\* What an announcement says is of the types of a slot.
LEMMA NamesAndTotals ==
  ASSUME NEW c \in Conns
  PROVE  /\ Subdomian[c][2] \in Seq(Chars)
         /\ NameOf(c) \in Names /\ TotalOf(c) \in Nat
<1>1. \A s : atoi(s) \in Nat
  BY DigitAssumption, Zenon DEF atoi
<1>2. Subdomian[c][2] \in Seq(Chars)
  <2>1. Body(c, 2) \in Seq(Chars) /\ 2 \in 0 .. 2
    BY BodyIs
  <2> QED
    BY <2>1, Announcement, TokenType
<1>3. NameOf(c) \in Names
  BY <1>2, StoredIs DEF NameOf
<1> QED
  BY <1>1, <1>2, <1>3 DEF TotalOf, Names

\* The slot a registration joins.
LEMMA JoinedIs ==
  ASSUME slots \in Seq(SlotType), NEW k
  PROVE  /\ Joined(k) = 0 => \A i \in DOMAIN slots : slots[i].name = k => ~ Len(slots[i].fd) <= S1MaxListen
         /\ Joined(k) # 0 => /\ Joined(k) \in DOMAIN slots
                             /\ slots[Joined(k)].name = k
                             /\ Len(slots[Joined(k)].fd) <= S1MaxListen
<1> DEFINE I == {i \in 1 .. Len(slots) : slots[i].name = k /\ Len(slots[i].fd) <= S1MaxListen}
<1>1. Joined(k) = IF I # {} THEN Min(I) ELSE 0
  BY Zenon DEF Joined, SelectInSeq
<1>2. DOMAIN slots = 1 .. Len(slots) /\ Len(slots) \in Nat
  OBVIOUS
<1>3. I \in SUBSET Nat /\ 0 \notin I
  OBVIOUS
<1>4. I # {} => Min(I) \in I
  BY <1>3, MinIs
<1>5. CASE I = {}
  BY <1>1, <1>2, <1>5, Zenon
<1>6. CASE I # {}
  <2>1. Joined(k) \in I
    BY <1>1, <1>4, <1>6, Zenon
  <2>2. Joined(k) # 0
    BY <1>3, <2>1, Zenon
  <2> QED
    BY <1>2, <2>1, <2>2, Zenon
<1> QED
  BY <1>5, <1>6

\* The slot a lookup ends at is the first of the name.
LEMMA FoundIs ==
  ASSUME slots \in Seq(SlotType), NEW k
  PROVE  /\ Found(k) = 0 => \A i \in DOMAIN slots : slots[i].name # k
         /\ Found(k) # 0 => /\ Found(k) \in DOMAIN slots
                            /\ slots[Found(k)].name = k
                            /\ \A i \in DOMAIN slots : slots[i].name = k => Found(k) <= i
<1> DEFINE I == {i \in 1 .. Len(slots) : slots[i].name = k}
<1>1. Found(k) = IF I # {} THEN Min(I) ELSE 0
  BY Zenon DEF Found, SelectInSeq
<1>2. DOMAIN slots = 1 .. Len(slots) /\ Len(slots) \in Nat
  OBVIOUS
<1>3. I \in SUBSET Nat /\ 0 \notin I
  OBVIOUS
<1>4. I # {} => Min(I) \in I /\ \A y \in I : Min(I) <= y
  BY <1>3, MinIs
<1>5. CASE I = {}
  BY <1>1, <1>2, <1>5, Zenon
<1>6. CASE I # {}
  <2>1. Found(k) \in I /\ \A y \in I : Found(k) <= y
    BY <1>1, <1>4, <1>6, Zenon
  <2>2. Found(k) # 0
    BY <1>3, <2>1, Zenon
  <2> QED
    BY <1>2, <2>1, <2>2, Zenon
<1> QED
  BY <1>5, <1>6

\* The table is empty.
LEMMA SlotsInit == Init => SlotsInv
<1> SUFFICES ASSUME Init PROVE SlotsInv
  OBVIOUS
<1>1. slots = <<>> /\ Registered = {}
  BY DEF Init, Registered
<1>2. slots \in Seq(SlotType) /\ DOMAIN slots = {}
  BY <1>1
<1> QED
  BY <1>1, <1>2, FS_EmptySet DEF SlotsInv, Booked, Filled, InOnePlace, InOrder, TurnInRange

\* The table is cleared.
LEMMA WipeSlots == ASSUME PeersInv, SlotsInv, CAShmInit PROVE SlotsInv'
<1>1. slots' = <<>> /\ Registered' = {}
  BY DEF CAShmInit, Registered, PeersInv, PeersOK
<1>2. slots' \in Seq(SlotType) /\ DOMAIN slots' = {}
  BY <1>1
<1> QED
  BY <1>1, <1>2, FS_EmptySet DEF SlotsInv, Booked, Filled, InOnePlace, InOrder, TurnInRange

\* The other steps leave the table alone.
LEMMA SlotsKept == ASSUME SlotsInv, slots' = slots, fate' = fate PROVE SlotsInv'
<1>1. Registered' = Registered /\ \A k : Own(k)' = Own(k)
  BY DEF Registered, Own
<1> QED
  BY <1>1 DEF SlotsInv, Booked, Filled, InOnePlace, InOrder, TurnInRange

\* A lookup moves a cursor on, or to the front.
LEMMA DealSlots == ASSUME SlotsInv, NEW request \in Requests, Deal(request) PROVE SlotsInv'
<1>1. PICK i \in DOMAIN slots : slots' = [slots EXCEPT ![i].now = Turn(slots[i])]
  BY FoundIs DEF Deal, SlotsInv
<1>2. Registered' = Registered /\ \A k : Own(k)' = Own(k)
  BY DEF Registered, Own, Deal
<1>3. slots \in Seq(SlotType) /\ slots[i] \in SlotType
  BY DEF SlotsInv
<1>4. Turn(slots[i]) \in Nat
  BY <1>3 DEF Turn, SlotType
<1>5. /\ slots' \in Seq(SlotType) /\ DOMAIN slots' = DOMAIN slots
      /\ \A j \in DOMAIN slots : /\ slots'[j].name = slots[j].name
                                 /\ slots'[j].total = slots[j].total
                                 /\ slots'[j].fd = slots[j].fd
                                 /\ slots'[j].now = IF j = i THEN Turn(slots[i]) ELSE slots[j].now
  <2> DEFINE v == Turn(slots[i])
             r == [slots[i] EXCEPT !.now = v]
  <2>1. slots' = [slots EXCEPT ![i] = r]
    BY <1>1
  <2> HIDE DEF v
  <2>2. /\ r \in SlotType /\ r.name = slots[i].name /\ r.total = slots[i].total
        /\ r.fd = slots[i].fd /\ r.now = v
    BY <1>3, <1>4 DEF SlotType, v
  <2> HIDE DEF r
  <2>3. /\ slots' \in Seq(SlotType) /\ DOMAIN slots' = DOMAIN slots
        /\ \A j \in DOMAIN slots : slots'[j] = IF j = i THEN r ELSE slots[j]
    BY <1>3, <2>1, <2>2
  <2> QED
    BY <2>2, <2>3 DEF v
<1>6. Booked'
  <2>1. IsFiniteSet(Registered') /\ Filled'
    BY <1>2, <1>5 DEF SlotsInv, Booked, Filled
  <2>2. InOnePlace'
    BY <1>2, <1>5 DEF SlotsInv, Booked, InOnePlace
  <2>3. InOrder'
    BY <1>5 DEF SlotsInv, Booked, InOrder
  <2> QED
    BY <2>1, <2>2, <2>3 DEF Booked
<1>7. slots[i].now < slots[i].total => Turn(slots[i]) < slots[i].total
  BY <1>3 DEF Turn, SlotType
<1>8. TurnInRange'
  BY <1>2, <1>5, <1>7 DEF SlotsInv, TurnInRange
<1> QED
  BY <1>5, <1>6, <1>8 DEF SlotsInv

\* What CA registers is what the connection announced.
LEMMA Registers ==
  ASSUME PeersInv, Register
  PROVE  /\ cur \in Conns /\ fate[cur] = "none"
         /\ SetFLRoute(Subdomian[cur][2], cur, TotalOf(cur))
<1>1. cur \in Conns /\ fate[cur] = "none" /\ sent \in 0 .. 2
  BY DEF Register, BodyRead, PeersInv, PeersOK, AtHand, MetOnce, Fresh
<1>2. sent = 2
  <2>1. sent \notin 0 .. 1
    BY <1>1, CutShort DEF Register
  <2> QED
    BY <1>1, <2>1
<1> QED
  BY <1>1, <1>2 DEF Register, TotalOf

\* One element of a sequence is changed.
LEMMA OneChanged ==
  ASSUME NEW T, NEW s \in Seq(T), NEW i \in DOMAIN s, NEW r \in T
  PROVE  /\ [s EXCEPT ![i] = r] \in Seq(T)
         /\ DOMAIN [s EXCEPT ![i] = r] = DOMAIN s
         /\ \A j \in DOMAIN s : [s EXCEPT ![i] = r][j] = IF j = i THEN r ELSE s[j]
OBVIOUS

\* Own in the next state.
OwnNext(k) == {c \in Conns : fate'[c] = "ok" /\ NameOf(c) = k}

\* A tunnel is registered: the names' tunnels grow by it.
OneMore == /\ fate'[cur] = "ok" /\ \A c \in Conns : c # cur => fate'[c] = fate[c]
           /\ Registered' = Registered \cup {cur}
           /\ \A k : OwnNext(k) = IF k = NameOf(cur) THEN Own(k) \cup {cur} ELSE Own(k)

\* The tunnel at hand is counted.
LEMMA Counted ==
  ASSUME PeersInv, cur \in Conns, fate' = [fate EXCEPT ![cur] = "ok"]
  PROVE  OneMore
BY DEF PeersInv, PeersOK, Registered, Own, OneMore, OwnNext

\* What is known of every slot; the tunnel at hand is in none.
LEMMA Known ==
  ASSUME SlotsInv, cur \in Conns, fate[cur] = "none"
  PROVE  \A j \in DOMAIN slots :
            /\ slots[j].fd \in Seq(Conns) /\ DOMAIN slots[j].fd = 1 .. Len(slots[j].fd)
            /\ Len(slots[j].fd) \in 1 .. S1MaxListen + 1
            /\ Len(slots[j].fd) \in DOMAIN slots[j].fd
            /\ slots[j].total = TotalOf(slots[j].fd[Len(slots[j].fd)])
            /\ \A k \in DOMAIN slots[j].fd :
                  slots[j].fd[k] \in Own(slots[j].name) /\ slots[j].fd[k] # cur
<1> SUFFICES ASSUME NEW j \in DOMAIN slots
             PROVE  /\ slots[j].fd \in Seq(Conns) /\ DOMAIN slots[j].fd = 1 .. Len(slots[j].fd)
                    /\ Len(slots[j].fd) \in 1 .. S1MaxListen + 1
                    /\ Len(slots[j].fd) \in DOMAIN slots[j].fd
                    /\ slots[j].total = TotalOf(slots[j].fd[Len(slots[j].fd)])
                    /\ \A k \in DOMAIN slots[j].fd :
                          slots[j].fd[k] \in Own(slots[j].name) /\ slots[j].fd[k] # cur
  OBVIOUS
<1>1. slots[j] \in SlotType
  BY DEF SlotsInv
<1>2. slots[j].fd \in Seq(Conns) /\ DOMAIN slots[j].fd = 1 .. Len(slots[j].fd)
  BY <1>1 DEF SlotType
<1>3. /\ Len(slots[j].fd) \in 1 .. S1MaxListen + 1
      /\ slots[j].total = TotalOf(slots[j].fd[Len(slots[j].fd)])
      /\ \A k \in DOMAIN slots[j].fd : slots[j].fd[k] \in Own(slots[j].name)
  BY DEF SlotsInv, Booked, Filled
<1>4. Len(slots[j].fd) \in DOMAIN slots[j].fd
  BY <1>2, <1>3, LimitAssumption
<1>5. \A k : cur \notin Own(k)
  BY DEF Own
<1> QED
  BY <1>2, <1>3, <1>4, <1>5

\* The new tunnel is the last of a slot of its name.
Joins(i) ==
    /\ slots' \in Seq(SlotType) /\ DOMAIN slots' = DOMAIN slots
    /\ \A j \in DOMAIN slots : j # i => slots'[j] = slots[j]
    /\ slots'[i].name = slots[i].name /\ slots'[i].now = slots[i].now
    /\ slots'[i].total = TotalOf(cur)
    /\ DOMAIN slots'[i].fd = 1 .. Len(slots[i].fd) + 1
    /\ Len(slots'[i].fd) = Len(slots[i].fd) + 1
    /\ slots'[i].fd[Len(slots[i].fd) + 1] = cur
    /\ \A k \in DOMAIN slots[i].fd : slots'[i].fd[k] = slots[i].fd[k]

\* The first case of SetFLRoute.
LEMMA JoinsSlot ==
  ASSUME SlotsInv, cur \in Conns, NEW i \in DOMAIN slots,
         slots' = [slots EXCEPT ![i].total = TotalOf(cur), ![i].fd = Append(@, cur)]
  PROVE  Joins(i)
<1> DEFINE n == TotalOf(cur)
           f == slots[i].fd
           g == Append(f, cur)
           r == [slots[i] EXCEPT !.total = n, !.fd = g]
<1>1. slots \in Seq(SlotType) /\ slots[i] \in SlotType /\ n \in Nat
  BY NamesAndTotals DEF SlotsInv
<1>2. f \in Seq(Conns)
  BY <1>1 DEF SlotType
<1>3. slots' = [slots EXCEPT ![i] = r]
  OBVIOUS
<1> HIDE DEF n, f
<1>4. /\ g \in Seq(Conns) /\ Len(g) = Len(f) + 1 /\ DOMAIN g = 1 .. Len(f) + 1
      /\ DOMAIN f = 1 .. Len(f) /\ Len(f) \in Nat
      /\ g[Len(f) + 1] = cur /\ \A k \in 1 .. Len(f) : g[k] = f[k]
  BY <1>2
<1> HIDE DEF g
<1>5. /\ r \in SlotType /\ r.name = slots[i].name /\ r.total = n /\ r.fd = g
      /\ r.now = slots[i].now
  BY <1>1, <1>4 DEF SlotType
<1> HIDE DEF r
<1>6. /\ slots' \in Seq(SlotType) /\ DOMAIN slots' = DOMAIN slots
      /\ \A j \in DOMAIN slots : slots'[j] = IF j = i THEN r ELSE slots[j]
  <2>1. /\ [slots EXCEPT ![i] = r] \in Seq(SlotType)
        /\ DOMAIN [slots EXCEPT ![i] = r] = DOMAIN slots
        /\ \A j \in DOMAIN slots : [slots EXCEPT ![i] = r][j] = IF j = i THEN r ELSE slots[j]
    BY <1>1, <1>5, OneChanged
  <2> QED
    BY <1>3, <2>1, Zenon
<1>7. slots'[i] = r
  BY <1>6
<1>8. /\ slots'[i].name = slots[i].name /\ slots'[i].now = slots[i].now
      /\ slots'[i].total = TotalOf(cur) /\ slots'[i].fd = g
  BY <1>5, <1>7 DEF n
<1>9. /\ DOMAIN slots'[i].fd = 1 .. Len(slots[i].fd) + 1
      /\ Len(slots'[i].fd) = Len(slots[i].fd) + 1
      /\ slots'[i].fd[Len(slots[i].fd) + 1] = cur
      /\ \A k \in DOMAIN slots[i].fd : slots'[i].fd[k] = slots[i].fd[k]
  BY <1>4, <1>8 DEF f
<1>10. \A j \in DOMAIN slots : j # i => slots'[j] = slots[j]
  BY <1>6
<1> QED
  BY <1>6, <1>8, <1>9, <1>10, Zenon DEF Joins

\* It keeps the book.
LEMMA JoinSlots ==
  ASSUME SlotsInv, OneMore, cur \in Conns, fate[cur] = "none",
         NEW i \in DOMAIN slots, slots[i].name = NameOf(cur), Len(slots[i].fd) <= S1MaxListen,
         Joins(i)
  PROVE  SlotsInv'
<1>1. IsFiniteSet(Registered)'
  BY FS_AddElement DEF SlotsInv, Booked, OneMore
<1>2. Len(slots[i].fd) \in Nat /\ S1MaxListen \in Nat
  BY Known, LimitAssumption
<1>3. Filled'
  <2>1. ASSUME NEW j \in DOMAIN slots, j # i
        PROVE  LET s == slots'[j]
               IN /\ Len(s.fd) \in 1 .. S1MaxListen + 1
                  /\ s.total = TotalOf(s.fd[Len(s.fd)])
                  /\ \A k \in DOMAIN s.fd : s.fd[k] \in OwnNext(s.name)
    BY <2>1, Known DEF Joins, OneMore
  <2>2. \A k \in DOMAIN slots'[i].fd : slots'[i].fd[k] \in OwnNext(NameOf(cur))
    <3>1. ASSUME NEW k \in DOMAIN slots'[i].fd
          PROVE  k \in DOMAIN slots[i].fd \/ k = Len(slots[i].fd) + 1
      BY <1>2, Known DEF Joins
    <3>2. \A k \in DOMAIN slots[i].fd : slots[i].fd[k] \in Own(NameOf(cur))
      BY Known
    <3> QED
      BY <3>1, <3>2 DEF Joins, OneMore
  <2>3. LET s == slots'[i]
        IN /\ Len(s.fd) \in 1 .. S1MaxListen + 1
           /\ s.total = TotalOf(s.fd[Len(s.fd)])
           /\ \A k \in DOMAIN s.fd : s.fd[k] \in OwnNext(s.name)
    BY <1>2, <2>2 DEF Joins
  <2> QED
    BY <2>1, <2>3 DEF Filled, Joins, Own, OwnNext
<1>4. InOnePlace'
  <2>1. ASSUME NEW c \in Registered'
        PROVE  \E j \in DOMAIN slots' : \E k \in DOMAIN slots'[j].fd : slots'[j].fd[k] = c
    <3>1. CASE c = cur
      <4>1. Len(slots[i].fd) + 1 \in DOMAIN slots'[i].fd
        BY <1>2 DEF Joins
      <4> QED
        BY <3>1, <4>1 DEF Joins
    <3>2. CASE c # cur
      <4>1. PICK j \in DOMAIN slots : \E k \in DOMAIN slots[j].fd : slots[j].fd[k] = c
        BY <3>2 DEF SlotsInv, Booked, InOnePlace, OneMore
      <4>a. PICK k \in DOMAIN slots[j].fd : slots[j].fd[k] = c
        BY <4>1
      <4>2. k \in DOMAIN slots'[j].fd /\ slots'[j].fd[k] = c
        <5>1. k \in 1 .. Len(slots[j].fd)
          BY <4>a, Known
        <5>2. CASE j = i
          BY <1>2, <4>a, <5>1, <5>2 DEF Joins
        <5>3. CASE j # i
          BY <4>a, <5>3 DEF Joins
        <5> QED
          BY <5>2, <5>3
      <4> QED
        BY <4>2 DEF Joins
    <3> QED
      BY <3>1, <3>2
  <2>2. ASSUME NEW j \in DOMAIN slots, NEW k \in DOMAIN slots'[j].fd
        PROVE  IF j = i /\ k = Len(slots[i].fd) + 1 THEN slots'[j].fd[k] = cur
               ELSE k \in DOMAIN slots[j].fd /\ slots'[j].fd[k] = slots[j].fd[k]
    BY <1>2, Known DEF Joins
  <2>3. ASSUME NEW j \in DOMAIN slots, NEW h \in DOMAIN slots,
               NEW k \in DOMAIN slots'[j].fd, NEW l \in DOMAIN slots'[h].fd,
               slots'[j].fd[k] = slots'[h].fd[l]
        PROVE  j = h /\ k = l
    <3>1. CASE j = i /\ k = Len(slots[i].fd) + 1
      BY <2>2, <2>3, <3>1, Known
    <3>2. CASE h = i /\ l = Len(slots[i].fd) + 1
      BY <2>2, <2>3, <3>2, Known
    <3>3. CASE /\ ~ (j = i /\ k = Len(slots[i].fd) + 1)
               /\ ~ (h = i /\ l = Len(slots[i].fd) + 1)
      BY <2>2, <2>3, <3>3 DEF SlotsInv, Booked, InOnePlace
    <3> QED
      BY <3>1, <3>2, <3>3
  <2> QED
    BY <2>1, <2>3 DEF InOnePlace, Joins
<1>5. InOrder'
  <2>1. \A j \in DOMAIN slots : slots'[j].name = slots[j].name
                               /\ (Len(slots[j].fd) > S1MaxListen => slots'[j].fd = slots[j].fd)
    BY <1>2 DEF Joins
  <2>2. \A j \in DOMAIN slots : slots'[j].fd[1] = slots[j].fd[1]
    <3>1. \A j \in DOMAIN slots : 1 \in DOMAIN slots[j].fd
      BY Known
    <3> QED
      BY <3>1 DEF Joins
  <2> QED
    BY <2>1, <2>2 DEF SlotsInv, Booked, InOrder, Joins
<1>6. TurnInRange'
  <2>1. ASSUME NEW j \in DOMAIN slots, slots'[j].total > 0,
               \A c \in OwnNext(slots'[j].name) : TotalOf(c) = slots'[j].total
        PROVE  slots'[j].now < slots'[j].total
    <3>1. slots'[j].name = slots[j].name /\ slots'[j].now = slots[j].now
      BY DEF Joins
    <3>2. \A c \in Own(slots[j].name) : TotalOf(c) = slots'[j].total
      BY <2>1, <3>1 DEF OneMore
    <3>3. slots[j].total = slots'[j].total
      BY <3>2, Known
    <3> QED
      BY <2>1, <3>1, <3>2, <3>3 DEF SlotsInv, TurnInRange
  <2> QED
    BY <2>1 DEF TurnInRange, Joins, Own, OwnNext
<1> QED
  BY <1>1, <1>3, <1>4, <1>5, <1>6 DEF SlotsInv, Booked, Joins

\* The new tunnel begins a slot.
Begins(n) ==
    /\ n \in Nat /\ n \notin DOMAIN slots /\ \A i \in DOMAIN slots : i \in Nat /\ i < n
    /\ slots' \in Seq(SlotType) /\ DOMAIN slots' = DOMAIN slots \cup {n}
    /\ \A i \in DOMAIN slots : slots'[i] = slots[i]
    /\ slots'[n].name = NameOf(cur) /\ slots'[n].total = TotalOf(cur) /\ slots'[n].now = 0
    /\ DOMAIN slots'[n].fd = {1} /\ Len(slots'[n].fd) = 1 /\ slots'[n].fd[1] = cur

\* The second case of SetFLRoute.
LEMMA BeginsSlot ==
  ASSUME SlotsInv, cur \in Conns,
         slots' = Append(slots, Slot(NameOf(cur), TotalOf(cur), cur))
  PROVE  Begins(Len(slots) + 1)
<1> DEFINE r == Slot(NameOf(cur), TotalOf(cur), cur)
           n == Len(slots) + 1
<1>1. slots \in Seq(SlotType)
  BY DEF SlotsInv
<1>2. /\ r \in SlotType /\ r.name = NameOf(cur) /\ r.total = TotalOf(cur) /\ r.now = 0
      /\ DOMAIN r.fd = {1} /\ Len(r.fd) = 1 /\ r.fd[1] = cur
  BY NamesAndTotals DEF Slot, SlotType
<1> HIDE DEF r
<1>3. n \in Nat /\ n \notin DOMAIN slots /\ \A i \in DOMAIN slots : i \in Nat /\ i < n
  BY <1>1
<1>4. /\ slots' \in Seq(SlotType) /\ DOMAIN slots' = DOMAIN slots \cup {n}
      /\ slots'[n] = r /\ \A i \in DOMAIN slots : slots'[i] = slots[i]
  BY <1>1, <1>2 DEF r
<1> HIDE DEF n
<1> QED
  BY <1>2, <1>3, <1>4, Zenon DEF Begins, n

\* It keeps the book.
LEMMA NewSlots ==
  ASSUME SlotsInv, OneMore, cur \in Conns, fate[cur] = "none",
         \A i \in DOMAIN slots :
            slots[i].name = Subdomian[cur][2] => ~ Len(slots[i].fd) <= S1MaxListen,
         NEW n, Begins(n)
  PROVE  SlotsInv'
<1>1. IsFiniteSet(Registered)'
  BY FS_AddElement DEF SlotsInv, Booked, OneMore
<1>2. S1MaxListen \in Nat
  BY LimitAssumption
<1>3. Filled'
  <2>1. ASSUME NEW j \in DOMAIN slots
        PROVE  LET s == slots'[j]
               IN /\ Len(s.fd) \in 1 .. S1MaxListen + 1
                  /\ s.total = TotalOf(s.fd[Len(s.fd)])
                  /\ \A k \in DOMAIN s.fd : s.fd[k] \in OwnNext(s.name)
    BY Known DEF Begins, OneMore
  <2>2. LET s == slots'[n]
        IN /\ Len(s.fd) \in 1 .. S1MaxListen + 1
           /\ s.total = TotalOf(s.fd[Len(s.fd)])
           /\ \A k \in DOMAIN s.fd : s.fd[k] \in OwnNext(s.name)
    BY <1>2 DEF Begins, OneMore
  <2> QED
    BY <2>1, <2>2 DEF Filled, Begins, Own, OwnNext
<1>4. InOnePlace'
  <2>1. ASSUME NEW c \in Registered'
        PROVE  \E j \in DOMAIN slots' : \E k \in DOMAIN slots'[j].fd : slots'[j].fd[k] = c
    BY DEF SlotsInv, Booked, InOnePlace, Begins, OneMore
  <2>2. ASSUME NEW j \in DOMAIN slots', NEW h \in DOMAIN slots',
               NEW k \in DOMAIN slots'[j].fd, NEW l \in DOMAIN slots'[h].fd,
               slots'[j].fd[k] = slots'[h].fd[l]
        PROVE  j = h /\ k = l
    BY <2>2, Known DEF SlotsInv, Booked, InOnePlace, Begins
  <2> QED
    BY <2>1, <2>2 DEF InOnePlace
<1>5. InOrder'
  <2>1. ASSUME NEW j \in DOMAIN slots', NEW h \in DOMAIN slots',
               j < h, slots'[j].name = slots'[h].name, Fits(slots'[h].fd[1])
        PROVE  Len(slots'[j].fd) > S1MaxListen
    <3>1. j \in DOMAIN slots /\ slots'[j] = slots[j]
      BY <2>1 DEF Begins
    <3>2. CASE h \in DOMAIN slots
      BY <2>1, <3>1, <3>2 DEF SlotsInv, Booked, InOrder, Begins
    <3>3. CASE h = n
      <4>0. Fits(cur) /\ slots[j].name = NameOf(cur)
        BY <2>1, <3>1, <3>3 DEF Begins
      <4>1. slots[j].name = Subdomian[cur][2]
        BY <4>0, NamesAndTotals, StoredIs DEF Fits, NameOf
      <4>2. Len(slots[j].fd) \in Nat
        BY <3>1, Known
      <4> QED
        BY <1>2, <3>1, <4>1, <4>2
    <3> QED
      BY <3>2, <3>3 DEF Begins
  <2> QED
    BY <2>1 DEF InOrder
<1>6. TurnInRange'
  <2>1. ASSUME NEW j \in DOMAIN slots', slots'[j].total > 0,
               \A c \in OwnNext(slots'[j].name) : TotalOf(c) = slots'[j].total
        PROVE  slots'[j].now < slots'[j].total
    <3>1. CASE j = n
      BY <2>1, <3>1 DEF Begins
    <3>2. CASE j # n
      <4>1. j \in DOMAIN slots /\ slots'[j] = slots[j]
        BY <3>2 DEF Begins
      <4>2. \A c \in Own(slots[j].name) : TotalOf(c) = slots[j].total
        BY <2>1, <4>1 DEF OneMore
      <4> QED
        BY <2>1, <4>1, <4>2 DEF SlotsInv, TurnInRange
    <3> QED
      BY <3>1, <3>2
  <2> QED
    BY <2>1 DEF TurnInRange, Own, OwnNext
<1> QED
  BY <1>1, <1>3, <1>4, <1>5, <1>6 DEF SlotsInv, Booked, Begins

\* A registration, in its three cases.
LEMMA RegisterSlots == ASSUME PeersInv, SlotsInv, Register PROVE SlotsInv'
<1> DEFINE k == Subdomian[cur][2]
           i == Joined(k)
<1>1. cur \in Conns /\ fate[cur] = "none" /\ SetFLRoute(k, cur, TotalOf(cur))
  BY Registers
<1>2. slots \in Seq(SlotType)
  BY DEF SlotsInv
<1>3. CASE i # 0
  <2>1. i \in DOMAIN slots /\ slots[i].name = k /\ Len(slots[i].fd) <= S1MaxListen
    BY <1>2, <1>3, JoinedIs
  <2>2. /\ slots' = [slots EXCEPT ![i].total = TotalOf(cur), ![i].fd = Append(@, cur)]
        /\ fate' = [fate EXCEPT ![cur] = "ok"]
    BY <1>1, <1>3 DEF SetFLRoute
  <2>3. k = NameOf(cur)
    <3>0. slots[i] \in SlotType
      <4> HIDE DEF i
      <4> QED
        BY <1>2, <2>1
    <3>1. k \in Names
      BY <2>1, <3>0 DEF SlotType
    <3>2. Len(k) < MAXSUBDOMAIN /\ k \in Seq(Chars)
      BY <3>1 DEF Names
    <3> QED
      BY <3>2, StoredIs DEF NameOf
  <2> HIDE DEF k, i
  <2> QED
    BY <1>1, <2>1, <2>2, <2>3, Counted, JoinsSlot, JoinSlots
<1>4. CASE i = 0 /\ ~ Full
  <2>1. \A j \in DOMAIN slots : slots[j].name = k => ~ Len(slots[j].fd) <= S1MaxListen
    BY <1>2, <1>4, JoinedIs
  <2>2. /\ slots' = Append(slots, Slot(NameOf(cur), TotalOf(cur), cur))
        /\ fate' = [fate EXCEPT ![cur] = "ok"]
    BY <1>1, <1>4 DEF SetFLRoute, NameOf
  <2> QED
    BY <1>1, <2>1, <2>2, Counted, BeginsSlot, NewSlots
<1>5. CASE i = 0 /\ Full
  <2>1. slots' = slots /\ fate' = [fate EXCEPT ![cur] = "full"]
    BY <1>1, <1>5 DEF SetFLRoute
  <2>2. Registered' = Registered /\ \A q : Own(q)' = Own(q)
    BY <1>1, <2>1 DEF Registered, Own, PeersInv, PeersOK
  <2> QED
    BY <2>1, <2>2 DEF SlotsInv, Booked, Filled, InOnePlace, InOrder, TurnInRange
<1> QED
  BY <1>3, <1>4, <1>5

\* As many different elements are in the set.
LEMMA Injected ==
  ASSUME NEW T, IsFiniteSet(T), NEW n \in Nat, NEW f, \A l \in 1 .. n : f[l] \in T,
         \A l, m \in 1 .. n : f[l] = f[m] => l = m
  PROVE  n <= Cardinality(T)
<1> DEFINE g == [l \in 1 .. n |-> f[l]]
<1>1. g \in Injection(1 .. n, T)
  BY DEF Injection, IsInjective
<1>2. Cardinality(1 .. n) <= Cardinality(T)
  BY <1>1, FS_Injection
<1>3. Cardinality(1 .. n) = n
  BY FS_Interval
<1> QED
  BY <1>2, <1>3

\* Fewer positions than elements leave one out.
LEMMA NotAll ==
  ASSUME NEW T, IsFiniteSet(T), NEW n \in Nat, NEW f, \A l \in 1 .. n : f[l] \in T,
         n < Cardinality(T)
  PROVE  \E c \in T : \A l \in 1 .. n : f[l] # c
<1> DEFINE g == [l \in 1 .. n |-> f[l]]
<1>1. SUFFICES ASSUME \A c \in T : \E l \in 1 .. n : f[l] = c PROVE FALSE
  OBVIOUS
<1>2. g \in Surjection(1 .. n, T)
  BY <1>1 DEF Surjection
<1>3. IsFiniteSet(1 .. n) /\ Cardinality(1 .. n) = n
  BY FS_Interval
<1>4. Cardinality(T) <= Cardinality(1 .. n)
  BY <1>2, <1>3, FS_Surjection
<1>5. Cardinality(T) \in Nat
  BY FS_CardinalityType
<1> QED
  BY <1>3, <1>4, <1>5

\* A client in service has its connections in one slot.
LEMMA ServedLive ==
  ASSUME SlotsInv, NEW k, InService(k)
  PROVE  LET i == Found(k) IN i # 0 /\ Handle(slots[i]) \in Own(k)
<1> DEFINE i == Found(k)
           f == slots[i].fd
           n == Len(f)
<1>1. slots \in Seq(SlotType) /\ S1MaxListen \in Nat
  BY LimitAssumption DEF SlotsInv
<1>2. PICK c : c \in Own(k)
  BY DEF InService
<1>3. PICK j \in DOMAIN slots : \E l \in DOMAIN slots[j].fd : slots[j].fd[l] = c
  BY <1>2 DEF SlotsInv, Booked, InOnePlace, Own, Registered
<1>4. slots[j].name = k
  BY <1>2, <1>3 DEF SlotsInv, Booked, Filled, Own
<1>5. i # 0 /\ i \in DOMAIN slots /\ slots[i].name = k
      /\ \A h \in DOMAIN slots : slots[h].name = k => i <= h
  BY <1>1, <1>3, <1>4, FoundIs
<1> HIDE DEF i
<1>6. /\ f \in Seq(Conns) /\ DOMAIN f = 1 .. n /\ n \in 1 .. S1MaxListen + 1
      /\ slots[i].total = TotalOf(f[n]) /\ slots[i].now \in Nat
      /\ \A l \in 1 .. n : f[l] \in Own(k)
  <2>1. slots[i] \in SlotType
    BY <1>1, <1>5
  <2>2. f \in Seq(Conns) /\ DOMAIN f = 1 .. n /\ slots[i].now \in Nat
    BY <2>1 DEF SlotType
  <2>3. /\ n \in 1 .. S1MaxListen + 1 /\ slots[i].total = TotalOf(f[n])
        /\ \A l \in DOMAIN f : f[l] \in Own(k)
    BY <1>5 DEF SlotsInv, Booked, Filled
  <2> HIDE DEF f, n
  <2> QED
    BY <2>2, <2>3
<1>7. \A l, m \in 1 .. n : f[l] = f[m] => l = m
  <2>1. DOMAIN f = 1 .. n
    BY <1>6
  <2> QED
    BY <1>5, <2>1 DEF SlotsInv, Booked, InOnePlace
<1>8. \A c0 \in Own(k) : TotalOf(c0) = Cardinality(Own(k))
  BY DEF InService
<1>9. IsFiniteSet(Own(k))
  <2>1. Own(k) \in SUBSET Registered
    BY DEF Own, Registered
  <2> QED
    BY <2>1, FS_Subset DEF SlotsInv, Booked
<1> DEFINE z == Cardinality(Own(k))
<1>10. z \in Nat /\ z <= S1MaxListen + 1
  BY <1>9, FS_CardinalityType DEF InService
<1> HIDE DEF f, n
<1>11. slots[i].total = z
  BY <1>6, <1>8
<1> HIDE DEF z
<1>12. n <= z /\ n \in Nat
  BY <1>6, <1>7, <1>9, <1>10, Injected DEF z
<1>13. slots[i].now < z
  <2>1. \A c0 \in Own(slots[i].name) : TotalOf(c0) = slots[i].total
    BY <1>5, <1>8, <1>11 DEF z
  <2>2. slots[i].total > 0
    BY <1>6, <1>10, <1>11, <1>12
  <2> QED
    BY <1>5, <1>11, <2>1, <2>2 DEF SlotsInv, TurnInRange
<1>14. z <= n
  <2>1. SUFFICES ASSUME n < z PROVE FALSE
    BY <1>10, <1>12
  <2>2. \E c0 \in Own(k) : \A l \in 1 .. n : f[l] # c0
    <3>1. n < Cardinality(Own(k)) /\ n \in Nat /\ \A l \in 1 .. n : f[l] \in Own(k)
      BY <1>6, <2>1, <1>12 DEF z
    <3> HIDE DEF z
    <3> QED
      BY <1>9, <3>1, NotAll
  <2>3. PICK c0 \in Own(k) : \A l \in 1 .. n : f[l] # c0
    BY <2>2
  <2>4. PICK h \in DOMAIN slots : \E l \in DOMAIN slots[h].fd : slots[h].fd[l] = c0
    BY <2>3 DEF SlotsInv, Booked, InOnePlace, Own, Registered
  <2>5. slots[h].name = k
    BY <2>3, <2>4 DEF SlotsInv, Booked, Filled, Own
  <2>6. h # i
    BY <1>6, <2>3, <2>4 DEF f
  <2>7. n > S1MaxListen
    <3>1. i <= h /\ i \in Nat /\ h \in Nat
      BY <1>1, <1>5, <2>4, <2>5
    <3>2. i < h
      BY <2>6, <3>1
    <3>3. Fits(slots[h].fd[1])
      <4>1. slots[h] \in SlotType
        BY <1>1, <2>4
      <4>2. k \in Names /\ slots[h].fd \in Seq(Conns)
        BY <2>5, <4>1 DEF SlotType
      <4>3. 1 \in DOMAIN slots[h].fd
        BY <2>4, <4>2
      <4>4. slots[h].fd[1] \in Own(k)
        BY <2>4, <2>5, <4>3 DEF SlotsInv, Booked, Filled
      <4>5. Subdomian[slots[h].fd[1]][2] = k
        BY <4>4 DEF InService
      <4> QED
        BY <4>2, <4>5 DEF Fits, Names
    <3> QED
      BY <1>5, <2>4, <2>5, <3>2, <3>3 DEF SlotsInv, Booked, InOrder, n, f
  <2> QED
    BY <1>1, <1>10, <1>12, <2>1, <2>7
<1>15. Handle(slots[i]) = f[slots[i].now + 1] /\ slots[i].now + 1 \in 1 .. n
  <2>1. slots[i].now < n /\ slots[i].now \in Nat
    BY <1>6, <1>10, <1>12, <1>13, <1>14
  <2> QED
    BY <1>12, <2>1 DEF Handle, f, n
<1>16. Handle(slots[i]) \in Own(k)
  BY <1>6, <1>15
<1> QED
  BY <1>5, <1>16 DEF i

-----------------------------------------------------------------------------

\* The peers' side and the table's, together.
IInv == PeersInv /\ SlotsInv

\* Every step keeps both.
LEMMA Invariance == Spec => []IInv
<1>1. Init => IInv
  BY PeersInit, SlotsInit DEF IInv
<1>2. IInv /\ [Next]_vars => IInv'
  <2> SUFFICES ASSUME IInv, [Next]_vars PROVE IInv'
    OBVIOUS
  <2> USE DEF IInv
  <2>1. CASE \E c \in Conns : Connect(c)
    <3>1. slots' = slots /\ fate' = fate
      BY <2>1 DEF Connect
    <3> QED
      BY <2>1, <3>1, ConnectPeers, SlotsKept
  <2>2. CASE \E c \in Conns : Announce(c)
    <3>1. slots' = slots /\ fate' = fate
      BY <2>2 DEF Announce
    <3> QED
      BY <2>2, <3>1, AnnouncePeers, SlotsKept
  <2>3. CASE \E c \in Conns : Drop(c)
    <3>1. slots' = slots /\ fate' = fate
      BY <2>3 DEF Drop
    <3> QED
      BY <2>3, <3>1, DropPeers, SlotsKept
  <2>4. CASE Accept \/ Shake \/ MeetStranger \/ ReadHead
    <3>1. slots' = slots /\ fate' = fate
      BY <2>4 DEF Accept, Shake, MeetStranger, ReadHead, HeadRead
    <3> QED
      BY <2>4, <3>1, AcceptPeers, ShakePeers, MeetStrangerPeers, ReadHeadPeers, SlotsKept
  <2>5. CASE Register
    BY <2>5, RegisterPeers, RegisterSlots
  <2>6. CASE Crash \/ Kill
    <3>1. slots' = slots /\ fate' = fate
      BY <2>6 DEF Crash, Kill, Ends
    <3> QED
      BY <2>6, <3>1, CrashPeers, KillPeers, SlotsKept
  <2>7. CASE CAShmInit
    BY <2>7, WipePeers, WipeSlots
  <2>8. CASE \E request \in Requests : Deal(request)
    BY <2>8, DealPeers, DealSlots
  <2>9. CASE UNCHANGED vars
    <3>1. /\ slots' = slots /\ offPage' = offPage /\ ca' = ca /\ cur' = cur /\ badLen' = badLen /\ queue' = queue
          /\ peer' = peer /\ sent' = sent /\ fate' = fate /\ wipes' = wipes
      BY <2>9 DEF vars
    <3>2. PeersInv'
      BY <3>1 DEF PeersInv, PeersOK, AtHand, Gone, MetOnce, Fresh, NoneOverlooked
    <3> QED
      BY <3>1, <3>2, SlotsKept
  <2> QED
    BY <2>1, <2>2, <2>3, <2>4, <2>5, <2>6, <2>7, <2>8, <2>9 DEF Next, CAServer
<1> QED
  BY <1>1, <1>2, PTL DEF Spec

\* A tunnel that waits for requests was registered or refused: for any number
\* of tunnels and of strangers, and whenever CA's process, a peer or the table is
\* lost (CAServerInit).
THEOREM TunnelsSettled == Spec => []NoneOverlooked
<1>1. IInv => NoneOverlooked
  BY DEF IInv, PeersInv
<1> QED
  BY Invariance, <1>1, PTL

\* CA's process faults for three reasons only, whatever the text of tunnels and of
\* strangers: an announcement cut off, one of a single token (atoi(NULL)), and a
\* walk of SetFLRoute off the page.
THEOREM OnlyHalfway == Spec => CrashesHalfway
<1>1. IInv /\ [Next]_vars =>
         [ca' = "crashed" /\ ca # "crashed" =>
             \/ sent = 1
             \/ sent = 2 /\ (OneToken(Text(cur)) \/ NoRoom)]_vars
  <2> SUFFICES ASSUME IInv, Next, ca' = "crashed", ca # "crashed"
               PROVE  sent = 1 \/ (sent = 2 /\ (OneToken(Text(cur)) \/ NoRoom))
    BY DEF vars
  <2>1. Crash
    BY DEF Next, Connect, Announce, Drop, CAServer, Accept, Shake, MeetStranger, ReadHead,
           HeadRead, Register, Kill, Ends, To, CAShmInit, Deal
  <2>2. cur \in Conns /\ sent \in 1 .. 2 /\ slots \in Seq(SlotType)
    BY <2>1 DEF Crash, BodyRead, IInv, PeersInv, PeersOK, AtHand, SlotsInv
  <2>3. CASE sent = 2 /\ stotal[cur][sent] = <<>>
    <3>1. Text(cur) \in Seq(Chars) /\ Body(cur, 2) = Text(cur) /\ 2 \in 0 .. 2
      BY <2>2, BodyIs
    <3>2. stotal[cur][2] = strtok(strtok(Text(cur), Hyphen).rest, Hyphen).token
      BY <2>2, <3>1, Announcement
    <3> QED
      BY <2>3, <3>1, <3>2, SecondToken
  <2>4. CASE sent = 2 /\ WalksOff(Subdomian[cur][sent])
    <3>1. \A i \in DOMAIN slots :
             slots[i].name = Subdomian[cur][2] => ~ Len(slots[i].fd) <= S1MaxListen
      BY <2>2, <2>4, JoinedIs DEF WalksOff
    <3>2. \A i \in DOMAIN slots : Len(slots[i].fd) \in Nat
      BY <2>2 DEF SlotType
    <3>3. S1MaxListen \in Nat
      BY LimitAssumption
    <3> QED
      BY <2>4, <3>1, <3>2, <3>3 DEF NoRoom, WalksOff
  <2>5. stotal[cur][sent] = <<>> \/ WalksOff(Subdomian[cur][sent])
    BY <2>1 DEF Crash
  <2>6. sent = 1 \/ sent = 2
    BY <2>2
  <2> QED
    BY <2>3, <2>4, <2>5, <2>6
<1> QED
  BY Invariance, <1>1, PTL DEF Spec, CrashesHalfway

\* The cursor of a slot whose tunnels announced one total comes round (GetFLRoute).
THEOREM CursorsInRange == Spec => []TurnInRange
<1>1. IInv => TurnInRange
  BY DEF IInv, SlotsInv
<1> QED
  BY Invariance, <1>1, PTL

\* A request that asks for a subdomain in service is dealt one of its connections,
\* for any Domain that has a dot and any text of requests, of tunnels and of
\* strangers: what is cut out at both ends is the same name.  The ordinary request
\* is dealt none: parseHtmlHead faults.
THEOREM RequestsDealt == "." \in Domain => (Spec => []DealsLive)
<1> SUFFICES ASSUME "." \in Domain PROVE Spec => []DealsLive
  OBVIOUS
<1>1. IInv => DealsLive
  <2> SUFFICES ASSUME IInv, NEW request \in Requests
               PROVE  /\ \A c \in Conns :
                            LET k == Subdomian[c][2]
                            IN Asks(request, k) /\ Plain(k) /\ Len(k) < MAXSUBDOMAIN
                                  /\ InService(k) => Dealt(request) \in Own(k)
                      /\ Ordinary(request) => Dealt(request) = FAULT
    BY Zenon DEF DealsLive
  <2>1. ASSUME NEW c \in Conns, NEW k, k = Subdomian[c][2], Asks(request, k), Plain(k),
               InService(k)
        PROVE  Dealt(request) \in Own(k)
    <3>1. k \in Seq(Chars)
      BY <2>1, NamesAndTotals
    <3>2. parseHtmlHead[request] = k
      BY <2>1, <3>1, Asked
    <3>3. Found(k) # 0 /\ Handle(slots[Found(k)]) \in Own(k)
      BY <2>1, ServedLive DEF IInv
    <3>4. k # <<>>
      BY <2>1, <3>1 DEF Asks
    <3>5. Dealt(request) = Handle(slots[Found(k)])
      BY <3>2, <3>3, <3>4, Zenon DEF Dealt
    <3> QED
      BY <3>3, <3>5
  <2>2. ASSUME Ordinary(request)
        PROVE  Dealt(request) = FAULT
    <3>1. parseHtmlHead[request] = <<>>
      BY <2>2, OrdinaryFaults
    <3> QED
      BY <3>1 DEF Dealt
  <2> QED
    BY <2>1, <2>2, Zenon
<1> QED
  BY Invariance, <1>1, PTL
=============================================================================
