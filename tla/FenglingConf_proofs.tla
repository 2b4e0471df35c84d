------------------------ MODULE FenglingConf_proofs ------------------------
(***************************************************************************)
(* The reader of the configuration, for files of any length, any settings  *)
(* and any checksum: the types of its state; that the flags of parse stand *)
(* for one open block; that the chains of the dictionary are whole, by     *)
(* what the operations of the list do to rings, and that a search of one   *)
(* finds what was put there; that the key parse builds from its flags and  *)
(* counters is the one the nesting of the lines gives; and what the        *)
(* program runs with.  And what it does with text of any length: the       *)
(* characters of a key that mmhash64 reads, and the line trim leaves.      *)
(***************************************************************************)
EXTENDS FenglingConf, FenglingHash, SequenceTheorems, FiniteSetTheorems,
        WellFoundedInduction, TLAPS

CONSTANTS Chars, Spaces

VARIABLES line, buf, turn, s_pos, e_pos, s_flag, e_flag, pc

Trim == INSTANCE FenglingTrim WITH i <- turn

-----------------------------------------------------------------------------
(* The operations of fenglingList.h keep the rings whole, for any number of  *)
(* nodes on any number of rings.  N is the nodes and S those that are on a   *)
(* ring; the links of the others may lead anywhere.                          *)

\* A head is initialised: it is a ring of its own.
THEOREM HeadAlone ==
  ASSUME NEW N, NEW m \in Memory(N), NEW S \in SUBSET N, Rings(m, S),
         NEW list \in N \ S
  PROVE  Rings(INIT_LIST_HEAD(m, list), S \cup {list})
  BY DEF Rings, Memory, INIT_LIST_HEAD

\* A node that is on no ring is put between two that follow one another.
LEMMA AddBetween ==
  ASSUME NEW N, NEW m \in Memory(N), NEW S \in SUBSET N, Rings(m, S),
         NEW new \in N \ S, NEW prev \in S
  PROVE  Rings(add(m, new, prev, m.next[prev]), S \cup {new})
  BY DEF Rings, Memory, add

\* What list_add writes are nodes.
LEMMA AddMemory ==
  ASSUME NEW N, NEW m \in Memory(N), NEW new \in N, NEW head \in N
  PROVE  list_add(m, new, head) \in Memory(N)
  BY DEF Memory, list_add, add

\* list_add and list_add_tail link the new entry into the ring of the head.
THEOREM Added ==
  ASSUME NEW N, NEW m \in Memory(N), NEW S \in SUBSET N, Rings(m, S),
         NEW new \in N \ S, NEW head \in S
  PROVE  Rings(list_add(m, new, head), S \cup {new})
         /\ Rings(list_add_tail(m, new, head), S \cup {new})
<1>1. Rings(list_add(m, new, head), S \cup {new})
  BY AddBetween DEF list_add
<1>2. m.prev[head] \in S /\ m.next[m.prev[head]] = head
  BY DEF Rings
<1>3. Rings(add(m, new, m.prev[head], m.next[m.prev[head]]), S \cup {new})
  BY <1>2, AddBetween
<1> QED
  BY <1>1, <1>2, <1>3 DEF list_add_tail

\* list_del unlinks the entry, whose own links are left as they were.
THEOREM Deleted ==
  ASSUME NEW N, NEW m \in Memory(N), NEW S \in SUBSET N, Rings(m, S),
         NEW entry \in S
  PROVE  Rings(list_del(m, entry), S \ {entry}) /\ list_del(m, entry) \in Memory(N)
<1> DEFINE p == m.prev[entry]
           q == m.next[entry]
           d == list_del(m, entry)
<1>1. p \in S /\ q \in S /\ m.next[p] = entry /\ m.prev[q] = entry
  BY DEF Rings
<1>2. m.next \in [N -> N] /\ m.prev \in [N -> N]
  BY DEF Memory
<1>3. d.next = [m.next EXCEPT ![p] = q] /\ d.prev = [m.prev EXCEPT ![q] = p]
  BY <1>2 DEF list_del, del, Memory
<1>4. d \in Memory(N)
  BY <1>1, <1>2 DEF list_del, del, Memory
<1> HIDE DEF d
<1>5. ASSUME NEW n \in S \ {entry}
      PROVE  /\ d.next[n] \in S \ {entry} /\ d.prev[d.next[n]] = n
             /\ d.prev[n] \in S \ {entry} /\ d.next[d.prev[n]] = n
  <2>1. /\ m.next[n] \in S /\ m.prev[m.next[n]] = n
        /\ m.prev[n] \in S /\ m.next[m.prev[n]] = n
    BY DEF Rings
  <2>2. d.next[n] = IF n = p THEN q ELSE m.next[n]
    BY <1>2, <1>3
  <2>3. d.prev[n] = IF n = q THEN p ELSE m.prev[n]
    BY <1>2, <1>3
  <2>4. d.next[n] \in S \ {entry} /\ d.prev[d.next[n]] = n
    BY <1>1, <1>2, <1>3, <2>1, <2>2
  <2>5. d.prev[n] \in S \ {entry} /\ d.next[d.prev[n]] = n
    BY <1>1, <1>2, <1>3, <2>1, <2>3
  <2> QED
    BY <2>4, <2>5
<1> QED
  BY <1>4, <1>5 DEF Rings, d

\* list_move takes an entry from its ring to behind the head, list_move_tail to
\* before it, provided it is not the head.
THEOREM Moved ==
  ASSUME NEW N, NEW m \in Memory(N), NEW S \in SUBSET N, Rings(m, S),
         NEW list \in S, NEW head \in S, list # head
  PROVE  Rings(list_move(m, list, head), S) /\ Rings(list_move_tail(m, list, head), S)
<1> DEFINE d == list_del(m, list)
           T == S \ {list}
<1>1. Rings(d, T) /\ d \in Memory(N)
  BY Deleted
<1>2. T \in SUBSET N /\ list \in N \ T /\ head \in T /\ T \cup {list} = S
  OBVIOUS
<1> HIDE DEF d, T
<1>3. Rings(list_add(d, list, head), S) /\ Rings(list_add_tail(d, list, head), S)
  BY <1>1, <1>2, Added
<1> QED
  BY <1>3 DEF list_move, list_move_tail, d

\* list_replace puts the new entry in the old one's place; the old one is left.
THEOREM Replaced ==
  ASSUME NEW N, NEW m \in Memory(N), NEW S \in SUBSET N, Rings(m, S),
         NEW old \in S, NEW new \in N \ S
  PROVE  Rings(list_replace(m, old, new), (S \ {old}) \cup {new})
  BY DEF Rings, Memory, list_replace

\* R is the nodes of one ring: from any of them next leads round all of them.
IsRing(m, R) ==
    /\ R # {} /\ Rings(m, R)
    /\ \A Q \in SUBSET R : Q # {} /\ (\A n \in Q : m.next[n] \in Q) => Q = R

\* list_splice joins the entries of list's ring into the ring of head, and makes one
\* ring of the two: the entries come behind head, in their order, and then what
\* followed head before.  list itself is left out, with its old links, and the
\* nodes of every other ring are left alone.
THEOREM Spliced ==
  ASSUME NEW N, NEW m \in Memory(N), NEW R \in SUBSET N, NEW T \in SUBSET N,
         IsRing(m, R), IsRing(m, T), R \cap T = {},
         NEW list \in R, NEW head \in T, ~list_empty(m, list)
  PROVE  LET d == list_splice(m, list, head) IN
         /\ IsRing(d, (R \ {list}) \cup T)
         /\ d.next[head] = m.next[list] /\ d.next[m.prev[list]] = m.next[head]
         /\ \A n \in N \ {head, m.prev[list]} : d.next[n] = m.next[n]
         /\ \A U \in SUBSET N : IsRing(m, U) /\ U \cap (R \cup T) = {} => IsRing(d, U)
<1> DEFINE first == m.next[list]
           last == m.prev[list]
           at == m.next[head]
           J == (R \ {list}) \cup T
           d == list_splice(m, list, head)
<1>1. m.next \in [N -> N] /\ m.prev \in [N -> N] /\ Rings(m, R) /\ Rings(m, T)
  BY DEF Memory, IsRing
<1>2. /\ first \in R /\ last \in R /\ at \in T
      /\ m.prev[first] = list /\ m.next[last] = list /\ m.prev[at] = head
      /\ first # list /\ last # list
  BY <1>1 DEF Rings, list_empty
<1>3. /\ d.next = [m.next EXCEPT ![head] = first, ![last] = at]
      /\ d.prev = [m.prev EXCEPT ![first] = head, ![at] = last]
  BY <1>1 DEF list_splice, splice, Memory
<1> HIDE DEF d, first, last, at
<1>4. /\ \A n \in N : d.next[n] = IF n = last THEN at ELSE IF n = head THEN first ELSE m.next[n]
      /\ \A n \in N : d.prev[n] = IF n = at THEN last ELSE IF n = first THEN head ELSE m.prev[n]
  BY <1>1, <1>2, <1>3
<1>5. list \notin T /\ head \notin R /\ last \notin T /\ last # head
  BY <1>2
<1>6. Rings(d, J)
  <2> SUFFICES ASSUME NEW n \in J
               PROVE  /\ d.next[n] \in J /\ d.prev[d.next[n]] = n
                      /\ d.prev[n] \in J /\ d.next[d.prev[n]] = n
    BY DEF Rings
  <2>1. \A k \in R : /\ m.next[k] \in R /\ m.prev[m.next[k]] = k
                     /\ m.prev[k] \in R /\ m.next[m.prev[k]] = k
    BY <1>1 DEF Rings
  <2>2. \A k \in T : /\ m.next[k] \in T /\ m.prev[m.next[k]] = k
                     /\ m.prev[k] \in T /\ m.next[m.prev[k]] = k
    BY <1>1 DEF Rings
  <2>3. d.next[n] \in J /\ d.prev[d.next[n]] = n
    BY <1>2, <1>4, <1>5, <2>1, <2>2 DEF first, last, at
  <2>4. d.prev[n] \in J /\ d.next[d.prev[n]] = n
    BY <1>2, <1>4, <1>5, <2>1, <2>2 DEF first, last, at
  <2> QED
    BY <2>3, <2>4
<1>7. ASSUME NEW Q \in SUBSET J, Q # {}, \A n \in Q : d.next[n] \in Q
      PROVE  Q = J
  <2>1. \A n \in Q : n \in N /\ n # list
    BY <1>5
  <2>2. CASE head \in Q
    <3> DEFINE P == (Q \cap R) \cup {list}
    <3>1. first \in Q
      BY <1>4, <1>5, <1>7, <2>2
    <3>2. ASSUME NEW n \in P PROVE m.next[n] \in P
      <4>1. CASE n = list
        BY <1>2, <3>1, <4>1 DEF first
      <4>2. CASE n = last
        BY <1>2, <4>2
      <4>3. CASE n # list /\ n # last
        <5>1. d.next[n] = m.next[n] /\ d.next[n] \in Q
          BY <1>4, <1>5, <1>7, <4>3
        <5> QED
          BY <1>1, <4>3, <5>1 DEF Rings
      <4> QED
        BY <4>1, <4>2, <4>3
    <3>3. P = R
      <4>1. P \in SUBSET R /\ P # {} /\ \A n \in P : m.next[n] \in P
        BY <3>2
      <4> HIDE DEF P
      <4> QED
        BY <4>1, Zenon DEF IsRing
    <3>4. at \in Q
      BY <1>2, <1>4, <1>7, <3>3
    <3>5. ASSUME NEW n \in Q \cap T PROVE m.next[n] \in Q \cap T
      BY <1>1, <1>4, <1>5, <1>7, <3>4 DEF Rings, at
    <3>6. Q \cap T = T
      BY <2>2, <3>5, Zenon DEF IsRing
    <3> QED
      BY <3>3, <3>6
  <2>3. CASE head \notin Q
    <3>1. Q \cap T = {}
      <4> SUFFICES ASSUME Q \cap T # {} PROVE FALSE
        OBVIOUS
      <4>1. ASSUME NEW n \in Q \cap T PROVE m.next[n] \in Q \cap T
        BY <1>1, <1>4, <1>5, <1>7, <2>3 DEF Rings
      <4>2. Q \cap T = T
        BY <4>1, Zenon DEF IsRing
      <4> QED
        BY <2>3, <4>2
    <3>2. last \notin Q
      BY <1>2, <1>4, <1>7, <3>1
    <3>3. Q \subseteq R /\ \A n \in Q : m.next[n] \in Q
      BY <1>4, <1>7, <2>3, <3>1, <3>2
    <3>4. Q = R
      BY <1>7, <3>3, Zenon DEF IsRing
    <3> QED
      BY <2>1, <3>4
  <2> QED
    BY <2>2, <2>3
<1>8. IsRing(d, J)
  BY <1>6, <1>7 DEF IsRing
<1>9. ASSUME NEW U \in SUBSET N, IsRing(m, U), U \cap (R \cup T) = {}
      PROVE  IsRing(d, U)
  <2>1. \A n \in U : d.next[n] = m.next[n] /\ d.prev[n] = m.prev[n]
    BY <1>2, <1>4, <1>9
  <2>2. Rings(d, U)
    BY <1>9, <2>1 DEF IsRing, Rings
  <2>3. ASSUME NEW Q \in SUBSET U, Q # {}, \A n \in Q : d.next[n] \in Q
        PROVE  Q = U
    <3>1. \A n \in Q : m.next[n] \in Q
      BY <2>1, <2>3
    <3> QED
      BY <1>9, <2>3, <3>1, Zenon DEF IsRing
  <2> QED
    BY <1>9, <2>2, <2>3 DEF IsRing
<1>10. /\ IsRing(d, J) /\ d.next[head] = first /\ d.next[last] = at
       /\ \A n \in N \ {head, last} : d.next[n] = m.next[n]
       /\ \A U \in SUBSET N : IsRing(m, U) /\ U \cap (R \cup T) = {} => IsRing(d, U)
  <2>1. head \in N /\ last \in N
    BY <1>2
  <2> QED
    BY <1>4, <1>5, <1>8, <1>9, <2>1
<1> QED
  BY <1>10, Zenon DEF d, first, last, at

-----------------------------------------------------------------------------

\* A number in a key counts lines that have been accepted.
Counted == status = "reading" => \A c \in Counts : num[c] <= Len(read)

\* An item is allocated for an accepted line.
Allocated == Len(items) <= Len(read)

\* The heads and the items are on whole rings.
LinksWhole == Rings(links, Linked)

IInv == TypeOK /\ Counted /\ Allocated /\ LinksWhole /\ OneBlock

USE DEF Flags, Counts

\* conf_init starts from an empty dictionary and with no flag set.
LEMMA InitInv == Init => IInv
<1> SUFFICES ASSUME Init PROVE IInv
  OBVIOUS
<1>1. DictTypeOK /\ LinksWhole /\ Allocated
  <2>1. Linked = Heads /\ Heads \subseteq Nodes
    BY DictAssumption DEF Init, dict_init, Linked, Heads, Nodes
  <2> QED
    BY <2>1, DictAssumption
       DEF Init, dict_init, DictTypeOK, LinksWhole, Allocated, Rings, Memory
<1>2. TypeOK /\ Counted
  BY <1>1, LineAssumption DEF Init, TypeOK, Counted
<1>3. OneBlock
  BY DEF Init, OneBlock, Closed
<1> QED
  BY <1>1, <1>2, <1>3 DEF IInv

\* A line is accepted: the history keeps its type, and grows by one.
LEMMA Accepted ==
  ASSUME TypeOK, NEW l \in Lines, Accept(l)
  PROVE  /\ status = "reading" /\ status' = "reading"
         /\ read' \in Seq(Lines) /\ Len(read') = Len(read) + 1 /\ Len(read') <= MaxLines
  BY LineAssumption DEF TypeOK, Accept

\* The dictionary is left alone, and so is what is said of it.
LEMMA DictKept ==
  ASSUME IInv, UNCHANGED dict, Len(read') >= Len(read)
  PROVE  DictTypeOK' /\ LinksWhole' /\ Allocated'
  BY DEF IInv, TypeOK, dict, DictTypeOK, LinksWhole, Linked, Allocated

\* A block is opened only where none of the others excludes it.
LEMMA OpenStep == IInv /\ Open => IInv'
<1> SUFFICES ASSUME IInv, NEW b \in Blocks, NEW f \in Flags, Opens(b, f),
                    \/ b = "global" /\ f = "global" /\ MayOpenGlobal
                    \/ b = "filter" /\ f = "filter" /\ MayOpenFilter
                    \/ b = "upstream" /\ f = "upstream" /\ MayOpenUpstream
                    \/ b = "proxy" /\ f = "proxy" /\ MayOpenProxy
                    \/ /\ b = "default" /\ MayOpenDefault
                       /\ f = IF open["upstream"] THEN "proxy_default" ELSE "host_default"
             PROVE  IInv'
  BY DEF Open, OpenGlobal, OpenFilter, OpenUpstream, OpenProxy, OpenDefault, Blocks
<1>1. OpenLine(b) \in Lines
  BY DEF Lines
<1>2. /\ status = "reading" /\ status' = "reading" /\ num' = num
      /\ read' \in Seq(Lines) /\ Len(read') = Len(read) + 1 /\ Len(read') <= MaxLines
  BY <1>1, Accepted DEF Opens, IInv
<1>3. Len(read) \in Nat
  BY DEF IInv, TypeOK
<1>4. DictTypeOK' /\ LinksWhole' /\ Allocated'
  BY <1>2, <1>3, DictKept DEF Opens
<1>5. open \in [Flags -> BOOLEAN] /\ open' = [open EXCEPT ![f] = TRUE]
  BY DEF IInv, TypeOK, Opens
<1>6. TypeOK' /\ Counted'
  BY <1>2, <1>3, <1>4, <1>5 DEF IInv, TypeOK, Counted
<1>7. OneBlock'
  BY <1>5 DEF IInv, OneBlock, Closed, Nothing, MayOpenGlobal, MayOpenFilter,
              MayOpenUpstream, MayOpenProxy, MayOpenDefault
<1> QED
  BY <1>4, <1>6, <1>7 DEF IInv

\* Closing takes the inner block first, so that an upstream is never closed
\* around a proxy.
LEMMA CloseStep == IInv /\ Close => IInv'
<1> SUFFICES ASSUME IInv, Close PROVE IInv'
  OBVIOUS
<1>1. /\ Accept(CloseLine) /\ UNCHANGED dict
  BY DEF Close, Closes, CloseGlobal, CloseFilter, CloseProxy, CloseProxyDefault,
         CloseUpstream, CloseHostDefault
<1>2. CloseLine \in Lines
  BY DEF Lines
<1>3. /\ status = "reading" /\ status' = "reading"
      /\ read' \in Seq(Lines) /\ Len(read') = Len(read) + 1 /\ Len(read') <= MaxLines
  BY <1>1, <1>2, Accepted DEF IInv
<1>4. Len(read) \in Nat /\ open \in [Flags -> BOOLEAN] /\ num \in [Counts -> Nat]
      /\ \A c \in Counts : num[c] <= Len(read)
  BY <1>3 DEF IInv, TypeOK, Counted
<1>5. DictTypeOK' /\ LinksWhole' /\ Allocated'
  BY <1>1, <1>3, <1>4, DictKept
<1>6. ASSUME open' \in [Flags -> BOOLEAN], num' \in [Counts -> Nat],
             \A c \in Counts : num'[c] <= num[c] + 1, OneBlock'
      PROVE  IInv'
  <2>1. Counted'
    BY <1>3, <1>4, <1>6 DEF Counted
  <2>2. TypeOK'
    BY <1>3, <1>5, <1>6 DEF TypeOK
  <2> QED
    BY <1>5, <1>6, <2>1, <2>2 DEF IInv
<1> USE <1>4 DEF Closes, Closed
<1>7. CASE CloseGlobal
  <2>1. open' \in [Flags -> BOOLEAN] /\ OneBlock'
    BY <1>7 DEF CloseGlobal, IInv, OneBlock
  <2>2. num' \in [Counts -> Nat] /\ \A c \in Counts : num'[c] <= num[c] + 1
    BY <1>7 DEF CloseGlobal
  <2> QED
    BY <1>6, <2>1, <2>2
<1>8. CASE CloseFilter
  <2>1. open' \in [Flags -> BOOLEAN] /\ OneBlock'
    BY <1>8 DEF CloseFilter, IInv, OneBlock
  <2>2. num' \in [Counts -> Nat] /\ \A c \in Counts : num'[c] <= num[c] + 1
    BY <1>8 DEF CloseFilter
  <2> QED
    BY <1>6, <2>1, <2>2
<1>9. CASE CloseProxy
  <2>1. open' \in [Flags -> BOOLEAN] /\ OneBlock'
    BY <1>9 DEF CloseProxy, IInv, OneBlock
  <2>2. num' \in [Counts -> Nat] /\ \A c \in Counts : num'[c] <= num[c] + 1
    BY <1>9 DEF CloseProxy
  <2> QED
    BY <1>6, <2>1, <2>2
<1>10. CASE CloseProxyDefault
  <2>1. open' \in [Flags -> BOOLEAN] /\ OneBlock'
    BY <1>10 DEF CloseProxyDefault, IInv, OneBlock
  <2>2. num' \in [Counts -> Nat] /\ \A c \in Counts : num'[c] <= num[c] + 1
    BY <1>10 DEF CloseProxyDefault
  <2> QED
    BY <1>6, <2>1, <2>2
<1>11. CASE CloseUpstream
  <2>1. open' \in [Flags -> BOOLEAN] /\ OneBlock'
    BY <1>11 DEF CloseUpstream, IInv, OneBlock
  <2>2. num' \in [Counts -> Nat] /\ \A c \in Counts : num'[c] <= num[c] + 1
    BY <1>11 DEF CloseUpstream
  <2> QED
    BY <1>6, <2>1, <2>2
<1>12. CASE CloseHostDefault
  <2>1. open' \in [Flags -> BOOLEAN] /\ OneBlock'
    BY <1>12 DEF CloseHostDefault, IInv, OneBlock
  <2>2. num' \in [Counts -> Nat] /\ \A c \in Counts : num'[c] <= num[c] + 1
    BY <1>12 DEF CloseHostDefault
  <2> QED
    BY <1>6, <2>1, <2>2
<1> QED
  BY <1>7, <1>8, <1>9, <1>10, <1>11, <1>12 DEF Close

\* What a setting is kept under is a key.
LEMMA KeyForVar ==
  ASSUME IInv, status = "reading", Len(read) < MaxLines, NEW k \in Names \cup {SERVER}
  PROVE  KeyFor(k) \in Vars
<1>1. num["upstream"] \in 0 .. MaxLines /\ num["proxy"] \in 0 .. MaxLines
      /\ num["server"] \in 0 .. MaxLines /\ 0 \in 0 .. MaxLines
  BY LineAssumption DEF IInv, TypeOK, Counted
<1>2. ASSUME NEW b \in {"global", "filter", "upstream", "proxy", "updefault", "default"},
             NEW up \in 0 .. MaxLines, NEW sub \in 0 .. MaxLines, NEW no \in 0 .. MaxLines
      PROVE  Key(b, up, sub, k, no) \in Keys
  BY DEF Key, Keys
<1> QED
  BY <1>1, <1>2, KeyAssumption DEF KeyFor

\* A setting: its item is put on the ring of the head its key hashes to.
LEMMA PairStep ==
  ASSUME IInv, NEW k \in Names \cup {SERVER}, NEW v \in Texts[k], Pair(k, v)
  PROVE  IInv'
<1> DEFINE new == Size + Len(items)
           head == getkey(KeyFor(k))
<1>1. v \in Values
  BY TextAssumption
<1>2. PairLine(k, v) \in Lines
  BY <1>1 DEF Lines
<1>3. /\ status = "reading" /\ status' = "reading"
      /\ read' \in Seq(Lines) /\ Len(read') = Len(read) + 1 /\ Len(read') <= MaxLines
  BY <1>2, Accepted DEF IInv, Pair
<1>4. /\ Len(read) \in Nat /\ items \in Seq(Items) /\ Len(items) \in Nat
      /\ Len(items) <= Len(read) /\ links \in Memory(Nodes) /\ Rings(links, Linked)
      /\ num \in [Counts -> Nat] /\ \A c \in Counts : num[c] <= Len(read)
  BY <1>3 DEF IInv, TypeOK, DictTypeOK, Allocated, LinksWhole, Counted
<1>5. KeyFor(k) \in Keys
  <2>1. Len(read) < MaxLines
    BY <1>3, <1>4, LineAssumption
  <2> QED
    BY <1>3, <2>1, KeyForVar, KeyAssumption
<1>6. head \in Heads
  BY <1>5, DictAssumption, KeyAssumption DEF getkey, Heads
<1>7. new \in Nodes \ Linked /\ head \in Linked /\ Linked \in SUBSET Nodes
  <2>1. /\ MaxItems \in Nat /\ Size \in Nat \ {0} /\ Len(items) < MaxItems
        /\ Len(items) \in Nat
    BY <1>3, <1>4, DictAssumption, LineAssumption
  <2>2. new \in Nodes \ Linked /\ Linked \in SUBSET Nodes
    BY <2>1 DEF Nodes, Linked
  <2>3. head \in Linked
    <3> HIDE DEF head
    <3> QED
      BY <1>6, <2>1 DEF Linked, Heads
  <2> QED
    BY <2>2, <2>3
<1>8. links' = list_add(links, new, head) /\ items' = Append(items, [var |-> KeyFor(k), value |-> v])
  BY DEF Pair, dict_insert
<1>9. links' \in Memory(Nodes)
  BY <1>4, <1>7, <1>8, AddMemory
<1>10. items' \in Seq(Items) /\ Len(items') = Len(items) + 1
  BY <1>1, <1>4, <1>5, <1>8, KeyAssumption DEF Items
<1>11. Rings(list_add(links, new, head), Linked \cup {new})
  BY <1>4, <1>7, Added
<1>12. Linked' = Linked \cup {new}
  <2>1. ASSUME NEW s \in Nat, NEW m \in Nat
        PROVE  0 .. s + (m + 1) - 1 = (0 .. s + m - 1) \cup {s + m}
    OBVIOUS
  <2>2. Linked' = 0 .. Size + (Len(items) + 1) - 1
    BY <1>10 DEF Linked
  <2> QED
    BY <1>4, <2>1, <2>2, DictAssumption DEF Linked
<1>13. DictTypeOK' /\ LinksWhole' /\ Allocated'
  BY <1>3, <1>4, <1>8, <1>9, <1>10, <1>11, <1>12, LineAssumption
     DEF DictTypeOK, LinksWhole, Allocated
<1>14. num' \in [Counts -> Nat] /\ \A c \in Counts : num'[c] <= num[c] + 1
  BY <1>4 DEF Pair, Count
<1>15. Counted'
  BY <1>3, <1>4, <1>14 DEF Counted
<1>16. open' = open
  BY DEF Pair
<1>17. TypeOK'
  BY <1>3, <1>13, <1>14, <1>16 DEF IInv, TypeOK
<1> QED
  BY <1>13, <1>15, <1>16, <1>17 DEF IInv, OneBlock, Closed

\* conf_init ends, and nothing but a counter or the program's settings changes.
LEMMA EndStep ==
  ASSUME IInv, UNCHANGED <<open, dict, read>>, status' \in {"0", "-1"}, num' \in [Counts -> Nat]
  PROVE  IInv'
<1>1. Len(read) \in Nat /\ read' = read
  BY DEF IInv, TypeOK
<1>2. DictTypeOK' /\ LinksWhole' /\ Allocated'
  BY <1>1, DictKept
<1> QED
  BY <1>1, <1>2 DEF IInv, TypeOK, Counted, OneBlock, Closed

\* Every line parse reads, and the end of the file, keeps the types, the rings and
\* the flags.
LEMMA NextStep == IInv /\ [Next]_vars => IInv'
<1> SUFFICES ASSUME IInv, [Next]_vars PROVE IInv'
  OBVIOUS
<1>1. num \in [Counts -> Nat]
  BY DEF IInv, TypeOK
<1>2. CASE Open \/ Close
  BY <1>2, OpenStep, CloseStep
<1>3. CASE \E k \in Names \cup {SERVER} : \E v \in Texts[k] : Pair(k, v)
  BY <1>3, PairStep
<1>4. CASE \E k \in Names \cup {SERVER} : PairTwice(k)
  BY <1>1, <1>4, EndStep DEF PairTwice, Count, Fails
<1>5. CASE Refuse \/ Eof
  BY <1>1, <1>5, EndStep DEF Refuse, Fails, Eof
<1>6. CASE UNCHANGED vars
  <2>1. Len(read) \in Nat
    BY DEF IInv, TypeOK
  <2>2. DictTypeOK' /\ LinksWhole' /\ Allocated'
    BY <1>6, <2>1, DictKept DEF vars
  <2> QED
    BY <1>6, <2>2 DEF IInv, TypeOK, Counted, OneBlock, Closed, vars
<1> QED
  BY <1>2, <1>3, <1>4, <1>5, <1>6 DEF Next

\* Whatever the lines of a file are, the flags stand for one open block, or for
\* a proxy or default in an upstream.
THEOREM BlocksExclude == Spec => []OneBlock
<1>1. IInv => OneBlock
  BY DEF IInv
<1> QED
  BY InitInv, NextStep, <1>1, PTL DEF Spec

\* The types of the reader's state.
THEOREM TypeCorrect == Spec => []TypeOK
<1>1. IInv => TypeOK
  BY DEF IInv
<1> QED
  BY InitInv, NextStep, <1>1, PTL DEF Spec
-----------------------------------------------------------------------------
(* The search of the dictionary.  A chain has its items newest first, so that  *)
(* the walk along it goes down, comes by every item and ends at the head; and *)
(* no key is there twice, so that the first item found is the one.            *)

\* The chain of a head or an item, and the items that were put into it before.
HeadOf(n) == IF n \in Heads THEN n ELSE getkey(Item(n).var)
Older(n) == {m \in Linked \ Heads : HeadOf(m) = HeadOf(n) /\ (n \in Heads \/ m < n)}

\* A chain has its items in the reverse order of their insertion.
NewestFirst ==
    \A n \in Linked :
        IF Older(n) = {} THEN links.next[n] = HeadOf(n)
        ELSE links.next[n] \in Older(n) /\ \A m \in Older(n) : m <= links.next[n]

\* No key is there twice.
OneForKey == \A a, b \in DOMAIN items : items[a].var = items[b].var => a = b

\* A set of numbers has a first.
LEMMA FirstOf ==
  ASSUME NEW T \in SUBSET Nat, T # {}
  PROVE  \E x \in T : \A y \in T : x <= y
<1> DEFINE Lt == OpToRel(<, Nat)
<1>1. IsWellFoundedOn(Lt, Nat)
  BY NatLessThanWellFounded, Zenon
<1>2. \A y, z \in Nat : y < z => <<y, z>> \in Lt
  BY Zenon DEF OpToRel
<1> HIDE DEF Lt
<1>3. PICK x \in T : \A y \in T : ~ (<<y, x>> \in Lt)
  BY <1>1, WFMin
<1>4. \A y \in T : y < x => FALSE
  BY <1>2, <1>3
<1> QED
  BY <1>4

\* pos is where the first k steps from a head along next lead.
Leads(next, head, k, pos) ==
    \A i \in 1 .. k : pos[i] = IF i = 1 THEN next[head] ELSE next[pos[i - 1]]

\* They lead somewhere.
LEMMA Followed ==
  ASSUME NEW N, NEW next \in [N -> N], NEW head \in N, NEW k \in Nat
  PROVE  \E pos \in [1 .. k -> N] : Leads(next, head, k, pos)
<1> USE DEF Leads
<1> DEFINE Bad == {n \in Nat : \A pos \in [1 .. n -> N] : ~Leads(next, head, n, pos)}
<1>1. Bad = {}
  <2> SUFFICES ASSUME Bad # {} PROVE FALSE
    OBVIOUS
  <2> HIDE DEF Bad
  <2>0. Bad \in SUBSET Nat
    BY DEF Bad
  <2>1. PICK n \in Bad : \A m \in Bad : n <= m
    BY FirstOf, <2>0, Zenon
  <2> USE DEF Bad
  <2>2. n # 0
    <3> DEFINE empty == [i \in 1 .. 0 |-> head]
    <3>1. empty \in [1 .. 0 -> N] /\ Leads(next, head, 0, empty)
      OBVIOUS
    <3> QED
      BY <3>1
  <2>3. n - 1 \in Nat /\ n - 1 \notin Bad
    <3> HIDE DEF Bad
    <3> QED
      BY <2>0, <2>1, <2>2
  <2>4. PICK pos \in [1 .. n - 1 -> N] : Leads(next, head, n - 1, pos)
    BY <2>3
  <2> DEFINE longer == [i \in 1 .. n |-> IF i = 1 THEN next[head] ELSE next[pos[i - 1]]]
  <2>5. longer \in [1 .. n -> N]
    BY <2>3
  <2>6. \A i \in 1 .. n - 1 : longer[i] = pos[i]
    BY <2>3, <2>4
  <2>7. ASSUME NEW i \in 1 .. n
        PROVE  longer[i] = IF i = 1 THEN next[head] ELSE next[longer[i - 1]]
    <3>1. i # 1 => longer[i - 1] = pos[i - 1]
      <4>1. i # 1 => i - 1 \in 1 .. n - 1
        BY <2>7, <2>3
      <4> HIDE DEF longer
      <4> QED
        BY <4>1, <2>6
    <3> QED
      BY <3>1
  <2> QED
    BY <2>1, <2>5, <2>7
<1> HIDE DEF Leads
<1> QED
  BY <1>1

\* list_for_each follows next from the head on, up to the first head.
LEMMA WalkFollows ==
  ASSUME DictTypeOK, NEW head \in Heads
  PROVE  \E pos \in [1 .. Len(items) + 1 -> Nodes] :
            /\ pos[1] = links.next[head]
            /\ \A i \in 2 .. Len(items) + 1 : pos[i] = links.next[pos[i - 1]]
            /\ \A e \in 1 .. Len(items) + 1 :
                  pos[e] \in Heads /\ (\A j \in 1 .. e - 1 : pos[j] \notin Heads)
                  => Walk(head) = [i \in 1 .. e - 1 |-> Item(pos[i])]
<1> DEFINE pos[i \in 1 .. Len(items) + 1] == links.next[IF i = 1 THEN head ELSE pos[i - 1]]
           End(i) == pos[i] \in Heads /\ \A j \in 1 .. i - 1 : pos[j] \notin Heads
           end == CHOOSE i \in 1 .. Len(items) + 1 : End(i)
<1>1. Walk(head) = [i \in 1 .. end - 1 |-> Item(pos[i])]
  BY Zenon DEF Walk
<1>2. links.next \in [Nodes -> Nodes] /\ head \in Nodes /\ Len(items) + 1 \in Nat
  <2>1. links.next \in [Nodes -> Nodes] /\ Len(items) \in Nat
    BY DEF DictTypeOK, Memory
  <2>2. head \in Nodes
    BY DictAssumption DEF Heads, Nodes
  <2> QED
    BY <2>1, <2>2
<1>3. \E p \in [1 .. Len(items) + 1 -> Nodes] :
         p = [i \in 1 .. Len(items) + 1 |-> links.next[IF i = 1 THEN head ELSE p[i - 1]]]
  <2> DEFINE nx == links.next
             k == Len(items) + 1
  <2>1. nx \in [Nodes -> Nodes] /\ k \in Nat
    BY <1>2
  <2>2. head \in Nodes
    BY <1>2
  <2> HIDE DEF nx, k, pos, end
  <2>3. PICK p \in [1 .. k -> Nodes] :
           Leads(nx, head, k, p)
    BY <2>1, <2>2, Followed
  <2>4. p = [i \in 1 .. k |-> nx[IF i = 1 THEN head ELSE p[i - 1]]]
    BY <2>3 DEF Leads
  <2> QED
    BY <2>4 DEF nx, k
<1>4. pos = [i \in 1 .. Len(items) + 1 |-> links.next[IF i = 1 THEN head ELSE pos[i - 1]]]
  <2>1. \E p : p = [i \in 1 .. Len(items) + 1 |-> links.next[IF i = 1 THEN head ELSE p[i - 1]]]
    BY <1>3
  <2> QED
    BY <2>1, Zenon DEF pos
<1> HIDE DEF pos
<1>5. \E p : p = [i \in 1 .. Len(items) + 1 |-> links.next[IF i = 1 THEN head ELSE p[i - 1]]]
             /\ p \in [1 .. Len(items) + 1 -> Nodes] /\ p = pos
  <2>1. PICK p \in [1 .. Len(items) + 1 -> Nodes] :
           p = [i \in 1 .. Len(items) + 1 |-> links.next[IF i = 1 THEN head ELSE p[i - 1]]]
    BY <1>3
  <2> DEFINE Apart == {i \in 1 .. Len(items) + 1 : p[i] # pos[i]}
  <2>2. Apart = {}
    <3> SUFFICES ASSUME Apart # {} PROVE FALSE
      OBVIOUS
    <3>0. Apart \in SUBSET Nat
      BY <1>2
    <3> HIDE DEF Apart
    <3>1. PICK i \in Apart : \A j \in Apart : i <= j
      BY FirstOf, <3>0, Zenon
    <3> USE DEF Apart
    <3>2. i \in 1 .. Len(items) + 1 /\ (i # 1 => i - 1 \in 1 .. Len(items) + 1 /\ i - 1 \notin Apart)
      BY <3>1, <1>2
    <3>3. i # 1 => p[i - 1] = pos[i - 1]
      BY <3>2
    <3>4. p[i] = links.next[IF i = 1 THEN head ELSE p[i - 1]]
          /\ pos[i] = links.next[IF i = 1 THEN head ELSE pos[i - 1]]
      BY <3>2, <2>1, <1>4
    <3> QED
      BY <3>1, <3>3, <3>4
  <2>3. \A i \in 1 .. Len(items) + 1 : p[i] = pos[i]
    BY <2>2
  <2>4. p = pos
    <3> DEFINE D == 1 .. Len(items) + 1
    <3>1. p = [i \in D |-> p[i]] /\ pos = [i \in D |-> pos[i]] /\ \A i \in D : p[i] = pos[i]
      BY <2>1, <2>3, <1>4
    <3> HIDE DEF D
    <3> QED
      BY <3>1
  <2> QED
    BY <2>1, <2>4
<1>6. pos \in [1 .. Len(items) + 1 -> Nodes]
  BY <1>5
<1>7. pos[1] = links.next[head] /\ \A i \in 2 .. Len(items) + 1 : pos[i] = links.next[pos[i - 1]]
  <2> DEFINE k == Len(items) + 1
  <2>1. k \in Nat /\ k >= 1
    BY <1>2
  <2>2. \A i \in 1 .. k : pos[i] = links.next[IF i = 1 THEN head ELSE pos[i - 1]]
    BY <1>4
  <2> HIDE DEF k
  <2>3. 1 \in 1 .. k /\ \A i \in 2 .. k : i \in 1 .. k /\ i # 1
    BY <2>1
  <2> QED
    BY <2>2, <2>3 DEF k
<1>8. ASSUME NEW e \in 1 .. Len(items) + 1, End(e)
      PROVE  Walk(head) = [i \in 1 .. e - 1 |-> Item(pos[i])]
  <2>1. end \in 1 .. Len(items) + 1 /\ End(end)
    BY <1>8
  <2>2. \A a, b \in 1 .. Len(items) + 1 : End(a) /\ End(b) => ~(a < b)
    BY <1>2
  <2> HIDE DEF end, End
  <2>3. end = e
    BY <2>1, <2>2, <1>2, <1>8
  <2> QED
    BY <2>3, <1>1
<1> QED
  BY <1>6, <1>7, <1>8

\* Where every chain has its items newest first, the walk comes by all of them, and
\* by no other.
LEMMA WalkComplete ==
  ASSUME DictTypeOK, NewestFirst, NEW head \in Heads
  PROVE  \E e \in 1 .. Len(items) + 1 : \E pos \in [1 .. e - 1 -> Older(head)] :
            /\ Walk(head) = [i \in 1 .. e - 1 |-> Item(pos[i])]
            /\ \A m \in Older(head) : \E i \in 1 .. e - 1 : pos[i] = m
<1> DEFINE N == Len(items)
<1>1. N \in Nat /\ Size \in Nat /\ Size > 0 /\ links.next \in [Nodes -> Nodes]
      /\ Linked = 0 .. Size + N - 1 /\ Heads = 0 .. Size - 1 /\ Heads \subseteq Linked
  BY DictAssumption DEF DictTypeOK, Memory, Linked, Heads
<1>2. PICK pos \in [1 .. N + 1 -> Nodes] :
            /\ pos[1] = links.next[head]
            /\ \A i \in 2 .. N + 1 : pos[i] = links.next[pos[i - 1]]
            /\ \A e \in 1 .. N + 1 :
                  pos[e] \in Heads /\ (\A j \in 1 .. e - 1 : pos[j] \notin Heads)
                  => Walk(head) = [i \in 1 .. e - 1 |-> Item(pos[i])]
  BY WalkFollows
<1> HIDE DEF N
<1>3. HeadOf(head) = head /\ Older(head) = {m \in Linked \ Heads : HeadOf(m) = head}
  BY DEF HeadOf, Older
<1>4. \/ Older(head) = {} /\ pos[1] = head
      \/ pos[1] \in Older(head) /\ \A m \in Older(head) : m <= pos[1]
  BY <1>1, <1>2, <1>3, Zenon DEF NewestFirst
<1>5. ASSUME NEW m \in Older(head)
      PROVE  LET next == links.next[m] IN
             \/ next \in Heads /\ \A o \in Older(head) : ~(o < m)
             \/ next \in Older(head) /\ next < m /\ \A o \in Older(head) : o < m => o <= next
  <2>1. m \in Linked /\ m \notin Heads /\ HeadOf(m) = head
    BY <1>3
  <2>2. Older(m) = {o \in Older(head) : o < m}
    BY <1>3, <2>1 DEF Older
  <2>3. \/ Older(m) = {} /\ links.next[m] = head
        \/ links.next[m] \in Older(m) /\ \A o \in Older(m) : o <= links.next[m]
    BY <2>1, Zenon DEF NewestFirst
  <2> QED
    BY <2>2, <2>3
<1>6. \A m \in Older(head) : m \in Size .. Size + N - 1
  BY <1>1, <1>3
<1> HIDE DEF Older
\* The walk goes down.
<1>7. \A i \in 1 .. N + 1 : (\A j \in 1 .. i : pos[j] \notin Heads)
                            => pos[i] \in Older(head) /\ pos[i] <= Size + N - i
  <2> DEFINE Bad == {i \in 1 .. N + 1 : (\A j \in 1 .. i : pos[j] \notin Heads)
                            /\ ~(pos[i] \in Older(head) /\ pos[i] <= Size + N - i)}
  <2> SUFFICES ASSUME Bad # {} PROVE FALSE
    OBVIOUS
  <2>0. Bad \in SUBSET Nat
    BY <1>1
  <2> HIDE DEF Bad
  <2>1. PICK i \in Bad : \A j \in Bad : i <= j
    BY FirstOf, <2>0, Zenon
  <2> USE DEF Bad
  <2>2. i \in 1 .. N + 1 /\ pos[i] \notin Heads
    BY <1>1
  <2>3. i # 1
    BY <1>1, <1>4, <1>6, <2>2
  <2>4. i - 1 \in 1 .. N + 1 /\ i - 1 \notin Bad /\ \A j \in 1 .. i - 1 : pos[j] \notin Heads
    BY <1>1, <2>1, <2>3
  <2>5. pos[i - 1] \in Older(head) /\ pos[i - 1] <= Size + N - (i - 1)
    BY <2>4
  <2>6. pos[i] = links.next[pos[i - 1]]
    BY <1>1, <1>2, <2>2, <2>3
  <2>7. pos[i] \in Older(head) /\ pos[i] < pos[i - 1]
    BY <1>5, <2>2, <2>5, <2>6
  <2>8. pos[i] \in Int /\ pos[i - 1] \in Int
    BY <1>1, <1>6, <2>5, <2>7
  <2>9. pos[i] <= Size + N - i
    BY <1>1, <2>2, <2>5, <2>7, <2>8
  <2> QED
    BY <2>7, <2>9
\* It comes to a head.
<1>8. PICK e \in 1 .. N + 1 : pos[e] \in Heads /\ \A j \in 1 .. e - 1 : pos[j] \notin Heads
  <2> DEFINE Ends == {i \in 1 .. N + 1 : pos[i] \in Heads}
  <2>1. Ends # {}
    <3> SUFFICES ASSUME Ends = {} PROVE FALSE
      OBVIOUS
    <3>1. pos[N + 1] \in Older(head) /\ pos[N + 1] <= Size + N - (N + 1)
      BY <1>1, <1>7
    <3> QED
      BY <1>1, <1>6, <3>1
  <2>0. Ends \in SUBSET Nat
    BY <1>1
  <2> HIDE DEF Ends
  <2>2. PICK e \in Ends : \A j \in Ends : e <= j
    BY FirstOf, <2>0, <2>1, Zenon
  <2> USE DEF Ends
  <2>3. e \in 1 .. N + 1 /\ \A j \in 1 .. e - 1 : pos[j] \notin Heads
    BY <1>1, <2>2
  <2> QED
    BY <2>2, <2>3
<1>9. \A i \in 1 .. e - 1 : pos[i] \in Older(head)
  BY <1>1, <1>7, <1>8
\* It leaves no item out.
<1>10. ASSUME NEW m \in Older(head)
       PROVE  \E i \in 1 .. e - 1 : pos[i] = m
  <2> SUFFICES ASSUME \A i \in 1 .. e - 1 : pos[i] # m PROVE FALSE
    OBVIOUS
  <2> DEFINE Below == {i \in 1 .. e : pos[i] < m}
  <2>1. e \in Below
    BY <1>1, <1>6, <1>8
  <2>0. Below \in SUBSET Nat /\ Below # {}
    BY <1>1, <2>1
  <2> HIDE DEF Below
  <2>2. PICK i \in Below : \A j \in Below : i <= j
    BY FirstOf, <2>0, Zenon
  <2> USE DEF Below
  <2>3. i \in 1 .. e /\ pos[i] < m
    BY <2>2
  <2>4. CASE i = 1
    BY <1>1, <1>4, <1>6, <2>3, <2>4
  <2>5. CASE i # 1
    <3>1. i - 1 \in 1 .. e - 1 /\ i - 1 \notin Below /\ i \in 2 .. N + 1
      BY <1>1, <2>2, <2>3, <2>5
    <3>2. pos[i - 1] \in Older(head) /\ m < pos[i - 1] /\ pos[i] = links.next[pos[i - 1]]
      BY <1>1, <1>2, <1>6, <1>9, <3>1
    <3>3. m <= pos[i]
      BY <1>5, <3>2
    <3> QED
      BY <1>1, <1>6, <1>5, <2>3, <3>2, <3>3
  <2> QED
    BY <2>4, <2>5
<1> DEFINE seen == [i \in 1 .. e - 1 |-> pos[i]]
<1>11. seen \in [1 .. e - 1 -> Older(head)] /\ \A i \in 1 .. e - 1 : seen[i] = pos[i]
  BY <1>9
<1>12. Walk(head) = [i \in 1 .. e - 1 |-> Item(seen[i])]
       /\ \A m \in Older(head) : \E i \in 1 .. e - 1 : seen[i] = m
  BY <1>2, <1>8, <1>10, <1>11
<1> HIDE DEF seen
<1> QED
  BY <1>8, <1>11, <1>12, Zenon DEF N

\* And it is its minimum.
LEMMA MinIn ==
  ASSUME NEW T \in SUBSET Nat, T # {}
  PROVE  Min(T) \in T
BY FirstOf, Zenon DEF Min

\* dict_search finds what stands in the dictionary under a key, and nothing else.
LEMMA LookupIs ==
  ASSUME DictTypeOK, NewestFirst, OneForKey, NEW k \in Vars
  PROVE  /\ Found(k) = {} <=> \A a \in DOMAIN items : items[a].var # k
         /\ \A a \in DOMAIN items : items[a].var = k => dict_search(k) = items[a].value
<1> DEFINE head == getkey(k)
           W == Walk(head)
<1>1. head \in Heads
  BY DictAssumption DEF getkey, Heads
<1>2. PICK e \in 1 .. Len(items) + 1 : \E pos \in [1 .. e - 1 -> Older(head)] :
            /\ W = [i \in 1 .. e - 1 |-> Item(pos[i])]
            /\ \A m \in Older(head) : \E i \in 1 .. e - 1 : pos[i] = m
  BY <1>1, WalkComplete
<1>3. PICK pos \in [1 .. e - 1 -> Older(head)] :
            /\ W = [i \in 1 .. e - 1 |-> Item(pos[i])]
            /\ \A m \in Older(head) : \E i \in 1 .. e - 1 : pos[i] = m
  BY <1>2
<1>4. Len(items) \in Nat /\ items \in Seq(Items) /\ Size \in Nat /\ Size > 0
      /\ DOMAIN items = 1 .. Len(items)
  BY DictAssumption DEF DictTypeOK
<1> HIDE DEF W
<1>5. DOMAIN W = 1 .. e - 1 /\ Found(k) = {i \in 1 .. e - 1 : W[i].var = k}
  BY <1>3 DEF Found, W
<1>6. ASSUME NEW i \in 1 .. e - 1
      PROVE  pos[i] - Size + 1 \in DOMAIN items /\ W[i] = items[pos[i] - Size + 1]
  <2>1. pos[i] \in Linked /\ pos[i] \notin Heads
    BY <1>3, <1>6 DEF Older
  <2> QED
    BY <1>3, <1>4, <2>1 DEF Linked, Heads, Item
<1>7. ASSUME NEW a \in DOMAIN items, items[a].var = k
      PROVE  \E i \in 1 .. e - 1 : W[i] = items[a]
  <2> DEFINE m == Size + a - 1
  <2>1. m \in Linked /\ m \notin Heads /\ m - Size + 1 = a
    BY <1>4 DEF Linked, Heads
  <2>2. HeadOf(m) = head /\ HeadOf(head) = head
    BY <1>1, <1>7, <2>1 DEF HeadOf, Item
  <2>3. m \in Older(head)
    BY <1>1, <2>1, <2>2 DEF Older
  <2>4. PICK i \in 1 .. e - 1 : pos[i] = m
    BY <1>3, <2>3
  <2>5. pos[i] - Size + 1 = a
    BY <2>1, <2>4
  <2> HIDE DEF m
  <2>6. W[i] = items[pos[i] - Size + 1]
    BY <1>6
  <2>7. W[i] = items[a]
    BY <2>5, <2>6, Zenon
  <2> QED
    BY <2>7
<1>8. Found(k) = {} <=> \A a \in DOMAIN items : items[a].var # k
  <2>1. ASSUME NEW a \in DOMAIN items, items[a].var = k PROVE Found(k) # {}
    <3>1. PICK i \in 1 .. e - 1 : W[i] = items[a]
      BY <1>7, <2>1
    <3> QED
      BY <1>5, <2>1, <3>1
  <2>2. ASSUME NEW i \in Found(k) PROVE \E a \in DOMAIN items : items[a].var = k
    <3>1. i \in 1 .. e - 1 /\ W[i].var = k
      BY <1>5
    <3> QED
      BY <1>6, <3>1
  <2> QED
    BY <2>1, <2>2
<1>9. ASSUME NEW a \in DOMAIN items, items[a].var = k
      PROVE  dict_search(k) = items[a].value
  <2>1. Found(k) # {} /\ Found(k) \in SUBSET Nat
    BY <1>4, <1>5, <1>8, <1>9
  <2>2. Min(Found(k)) \in Found(k)
    BY <2>1, MinIn
  <2>3. PICK b \in DOMAIN items : W[Min(Found(k))] = items[b] /\ items[b].var = k
    <3>1. Min(Found(k)) \in 1 .. e - 1 /\ W[Min(Found(k))].var = k
      BY <1>5, <2>2
    <3> QED
      BY <1>6, <3>1
  <2>4. b = a
    BY <1>9, <2>3 DEF OneForKey
  <2> QED
    BY <2>1, <2>3, <2>4 DEF dict_search, W
<1> QED
  BY <1>8, <1>9

\* list_add, forwards.
LEMMA AddNext ==
  ASSUME NEW N, NEW m \in Memory(N), NEW new \in N, NEW head \in N, new # head
  PROVE  /\ list_add(m, new, head).next[new] = m.next[head]
         /\ list_add(m, new, head).next[head] = new
         /\ \A n \in N \ {new, head} : list_add(m, new, head).next[n] = m.next[n]
<1>1. m.next \in [N -> N] /\ m.prev \in [N -> N] /\ m = [next |-> m.next, prev |-> m.prev]
  BY DEF Memory
<1>2. list_add(m, new, head).next = [[m.next EXCEPT ![new] = m.next[head]] EXCEPT ![head] = new]
  BY <1>1 DEF list_add, add
<1> QED
  BY <1>1, <1>2

\* An item that is inserted comes first in its chain.
LEMMA InsertFirst ==
  ASSUME DictTypeOK, NewestFirst, OneForKey, Len(items) < MaxItems,
         NEW k \in Vars, NEW v \in Values, dict_insert(k, v)
  PROVE  /\ NewestFirst' /\ OneForKey'
         /\ Len(items') = Len(items) + 1 /\ items'[Len(items) + 1] = [var |-> k, value |-> v]
         /\ \A a \in DOMAIN items : items'[a] = items[a]
<1> DEFINE N == Len(items)
           head == getkey(k)
<1>1. N \in Nat /\ Size \in Nat /\ Size > 0 /\ items \in Seq(Items) /\ links \in Memory(Nodes)
      /\ DOMAIN items = 1 .. N
  BY DictAssumption DEF DictTypeOK
<1>0. PICK new \in Int : new = Size + N
  BY <1>1
<1>2. head \in Heads
  BY DictAssumption DEF getkey, Heads
<1>3. items' = Append(items, [var |-> k, value |-> v]) /\ links' = list_add(links, new, head)
  BY <1>0 DEF dict_insert
<1>4. /\ Len(items') = N + 1 /\ items'[N + 1] = [var |-> k, value |-> v]
      /\ \A a \in 1 .. N : items'[a] = items[a]
      /\ DOMAIN items' = 1 .. N + 1
  BY <1>1, <1>3
<1>5. OneForKey'
  <2>1. \A a \in 1 .. N : items[a].var # k
    BY <1>1, LookupIs DEF dict_insert
  <2>2. \A a \in 1 .. N + 1 : a \in 1 .. N \/ a = N + 1
    BY <1>1
  <2> QED
    BY <1>1, <1>4, <2>1, <2>2 DEF OneForKey
<1> HIDE DEF N, head
<1>6. Linked' = Linked \cup {new} /\ new \notin Linked /\ new \in Nodes /\ head \in Nodes
      /\ Linked \subseteq Nodes /\ Linked \subseteq Int /\ Heads \subseteq Linked /\ new # head
      /\ \A n \in Linked : n < new
  <2>1. Linked = 0 .. new - 1 /\ Linked' = 0 .. (Size + (N + 1)) - 1 /\ Heads = 0 .. Size - 1
    BY <1>0, <1>1, <1>4 DEF Linked, Heads, N
  <2>2. Size + (N + 1) - 1 = new /\ new \in Nat /\ Size <= new
    BY <1>0, <1>1
  <2>3. Nodes = 0 .. Size + MaxItems - 1 /\ new <= Size + MaxItems - 1 /\ MaxItems \in Nat
    BY <1>0, <1>1, DictAssumption DEF Nodes, N
  <2>4. Linked' = 0 .. new
    BY <1>1, <2>1, <2>2
  <2>5. Linked' = Linked \cup {new} /\ new \notin Linked /\ Linked \subseteq Int
        /\ \A n \in Linked : n < new
    <3>1. \A n : n \in 0 .. new <=> n \in 0 .. new - 1 \/ n = new
      BY <2>2
    <3>2. \A n \in Linked : n \in Int /\ n < new
      BY <2>1, <2>2
    <3>3. Linked' = Linked \cup {new}
      BY <2>1, <2>4, <3>1
    <3> QED
      BY <3>2, <3>3
  <2>6. Heads \subseteq Linked /\ new \in Nodes /\ Linked \subseteq Nodes
    BY <1>1, <2>1, <2>2, <2>3
  <2> QED
    BY <1>2, <2>5, <2>6
<1>7. HeadOf(new)' = head /\ \A n \in Linked : HeadOf(n)' = HeadOf(n)
  <2>1. new \notin Heads /\ new - Size + 1 = N + 1
    BY <1>0, <1>1 DEF Heads, N
  <2>2. HeadOf(new)' = head
    BY <1>4, <2>1 DEF HeadOf, Item, head, getkey
  <2>3. ASSUME NEW n \in Linked PROVE HeadOf(n)' = HeadOf(n)
    <3>1. n \notin Heads => n - Size + 1 \in 1 .. N
      BY <1>1, <2>3 DEF Linked, Heads, N
    <3> QED
      BY <1>4, <3>1 DEF HeadOf, Item, getkey
  <2> QED
    BY <2>2, <2>3
<1> DEFINE next == links.next
           next1 == links'.next
<1>8. next1[new] = next[head] /\ next1[head] = new /\ \A n \in Linked \ {head} : next1[n] = next[n]
  <2>1. /\ next1[new] = next[head] /\ next1[head] = new
        /\ \A n \in Nodes \ {new, head} : next1[n] = next[n]
    BY <1>1, <1>3, <1>6, AddNext
  <2> QED
    BY <1>6, <2>1
<1>9. HeadOf(head) = head /\ \A h \in Heads : HeadOf(h) = h
  BY <1>2 DEF HeadOf
<1>10. new \notin Heads
  BY <1>0, <1>1 DEF Heads, N
<1>14. (Linked \ Heads)' = (Linked \ Heads) \cup {new} /\ new \in Int
       /\ \A m \in Linked \ Heads : m \in Int /\ m < new /\ HeadOf(m)' = HeadOf(m)
  BY <1>6, <1>7, <1>10 DEF Heads
<1>15. Heads' = Heads
  BY DEF Heads
<1>11. ASSUME NEW n \in Linked
       PROVE  Older(n)' = IF n = head THEN Older(head) \cup {new} ELSE Older(n)
  <2>1. n \in Heads => HeadOf(n) = n
    BY <1>9
  <2>2. Older(n)' = {m \in (Linked \ Heads) \cup {new} : HeadOf(m)' = HeadOf(n) /\ (n \in Heads \/ m < n)}
    BY <1>7, <1>14, <1>15, Zenon DEF Older
  <2>3. Older(n) = {m \in Linked \ Heads : HeadOf(m)' = HeadOf(n) /\ (n \in Heads \/ m < n)}
    BY <1>14 DEF Older
  <2>4. ~(new < n)
    BY <1>6
  <2>5. CASE n = head
    BY <1>2, <1>7, <1>9, <2>2, <2>3, <2>5
  <2>6. CASE n # head
    <3>1. ~(HeadOf(new)' = HeadOf(n) /\ (n \in Heads \/ new < n))
      BY <1>7, <2>1, <2>4, <2>6
    <3> QED
      BY <2>2, <2>3, <2>6, <3>1
  <2> QED
    BY <2>5, <2>6
<1>12. Older(new)' = Older(head)
  <2>1. Older(new)' = {m \in (Linked \ Heads) \cup {new} : HeadOf(m)' = head /\ m < new}
    BY <1>7, <1>10, <1>14, <1>15 DEF Older
  <2>2. Older(head) = {m \in Linked \ Heads : HeadOf(m)' = head}
    BY <1>2, <1>9, <1>14 DEF Older
  <2> QED
    BY <1>14, <2>1, <2>2
<1>13. NewestFirst'
  <2> HIDE DEF next, next1
  <2>0. Older(head) \subseteq Linked
    BY DEF Older
  <2>1. ASSUME NEW n \in Linked
        PROVE  IF Older(n) = {} THEN next[n] = HeadOf(n)
               ELSE next[n] \in Older(n) /\ \A m \in Older(n) : m <= next[n]
    BY Zenon DEF NewestFirst, next
  <2>2. ASSUME NEW n \in Linked'
        PROVE  IF Older(n)' = {} THEN next1[n] = HeadOf(n)'
               ELSE next1[n] \in Older(n)' /\ \A m \in Older(n)' : m <= next1[n]
    <3>1. CASE n = new
      BY <1>2, <1>6, <1>7, <1>8, <1>9, <1>12, <2>1, <3>1
    <3>2. CASE n = head
      <4>1. Older(n)' = Older(head) \cup {new} /\ next1[n] = new
        BY <1>2, <1>6, <1>8, <1>11, <3>2
      <4>2. \A m \in Older(head) : m \in Int /\ m < new
        BY <1>6, <2>0
      <4>3. new \in Int
        OBVIOUS
      <4> QED
        BY <4>1, <4>2, <4>3
    <3>3. CASE n # new /\ n # head
      <4>1. n \in Linked /\ Older(n)' = Older(n) /\ next1[n] = next[n] /\ HeadOf(n)' = HeadOf(n)
        BY <1>6, <1>7, <1>8, <1>11, <2>2, <3>3
      <4> QED
        BY <2>1, <4>1
    <3> QED
      BY <3>1, <3>2, <3>3
  <2> QED
    BY <2>2, Zenon DEF NewestFirst, next1
<1> QED
  BY <1>1, <1>4, <1>5, <1>13 DEF N

-----------------------------------------------------------------------------
(* The nesting of the lines read, and what one line more adds to it.  The    *)
(* flags and counters of parse are related to it by the two conjuncts of     *)
(* NestInv on a reader that is still reading: the flags set are the stack of *)
(* open blocks, and a counter is what has been counted in them.              *)

\* The lines read are Last; how many blocks of kind b begin in block i down to line
\* n, and how many servers stand there.
Last == Len(read)
Within(i, b, n) == {m \in i + 1 .. n : IsOpen(m) /\ read[m].block = b /\ Inner(m) = i}
Servers(i, n) == {m \in i + 1 .. n : IsPair(m) /\ read[m].name = SERVER /\ Inner(m) = i}

\* The next line stands in block i alone; in block j, and that in block i.
InOne(i) == Around(Last + 1) = {i} /\ Depth(i, Last) = 1
InTwo(i, j) == /\ Around(Last + 1) = {i, j} /\ Inner(j) = i
               /\ Depth(i, Last) = 2 /\ Depth(j, Last) = 1

\* What a condition adds to a count.
Bit(b) == IF b THEN 1 ELSE 0

\* The kind of block a flag stands for.
KindOf(f) == CASE f = "proxy_default" -> "default" [] f = "host_default" -> "default" [] OTHER -> f

\* What the flags and counters say of the upstream i that is open.
InUpstream(i) ==
    /\ IsOpen(i) /\ read[i].block = "upstream" /\ Inner(i) = 0 /\ Ordinal(i) = num["upstream"]
    /\ Cardinality(Within(i, "proxy", Last)) = num["proxy"] + Bit(open["proxy"])
    /\ Closed({"proxy_default", "proxy_default_ok"}) => Within(i, "default", Last) = {}
    /\ Closed({"proxy", "proxy_default"}) => InOne(i)
    /\ \A f \in {"proxy", "proxy_default"} : open[f] =>
          \E j \in i + 1 .. Last :
             /\ InTwo(i, j) /\ IsOpen(j) /\ read[j].block = KindOf(f)
             /\ Cardinality(Servers(j, Last)) = num["server"]
             /\ f = "proxy" => Ordinal(j) = num["proxy"]

\* Every flag that is set stands for a block around the next line, and says how far its
\* servers are counted; none is set where there is no such block.
FlagsStack ==
    /\ Nothing => Around(Last + 1) = {}
    /\ \A f \in {"global", "filter", "host_default"} : open[f] =>
          \E i \in 1 .. Last :
              /\ InOne(i) /\ IsOpen(i) /\ read[i].block = KindOf(f) /\ Inner(i) = 0
              /\ f = "host_default" => Cardinality(Servers(i, Last)) = num["server"]
    /\ open["upstream"] => \E i \in 1 .. Last : InUpstream(i)

\* A counter is 0 where the blocks it counts in have been left, and the flags of what
\* may be there once stay set until its block is.
CountersReset ==
    /\ ~open["upstream"] => num["proxy"] = 0 /\ ~open["proxy_default_ok"]
    /\ Closed({"proxy", "proxy_default", "host_default"}) => num["server"] = 0
    /\ Cardinality(Within(0, "upstream", Last)) = num["upstream"] + Bit(open["upstream"])
    /\ Closed({"global", "global_ok"}) => Within(0, "global", Last) = {}
    /\ Closed({"filter", "filter_ok"}) => Within(0, "filter", Last) = {}

\* The settings read, and that the dictionary holds them, each under its own key.
Pairs == {j \in DOMAIN read : IsPair(j)}
Kept ==
    /\ \A j \in Pairs : Inner(j) # 0
    /\ \A j \in Pairs : \E a \in DOMAIN items : items[a] = [var |-> Meant(j), value |-> read[j].value]
    /\ \A a \in DOMAIN items : \E j \in Pairs : items[a].var = Meant(j)
    /\ Len(items) = Cardinality(Pairs)

NestInv ==
    /\ NewestFirst /\ OneForKey /\ Kept /\ LegalNesting /\ SettingsRead
    /\ status = "reading" => FlagsStack /\ CountersReset

\* A set of numbers up to n has a last.
LEMMA MaxIn ==
  ASSUME NEW n \in Nat, NEW T \in SUBSET (0 .. n), T # {}
  PROVE  Max(T) \in T /\ \A y \in T : y <= Max(T)
<1> DEFINE Mirror == {n - x : x \in T}
<1>1. Mirror \in SUBSET Nat /\ Mirror # {}
  <2>1. \A x \in T : x \in Nat /\ n - x \in Nat
    OBVIOUS
  <2> QED
    BY <2>1
<1> HIDE DEF Mirror
<1>2. PICK z \in Mirror : \A y \in Mirror : z <= y
  BY <1>1, FirstOf, Zenon
<1> USE DEF Mirror
<1>3. PICK x \in T : z = n - x
  OBVIOUS
<1>4. \A y \in T : x >= y
  <2>1. \A y \in T : z <= n - y
    BY <1>2
  <2> QED
    BY <1>3, <2>1
<1>5. Max(T) \in T /\ \A y \in T : Max(T) >= y
  BY <1>3, <1>4, Zenon DEF Max
<1> QED
  BY <1>5

\* A part of the lines i to j: how many they are when there is one more.
LEMMA Counting ==
  ASSUME NEW i \in Int, NEW j \in Int, NEW T \in SUBSET (i .. j)
  PROVE  /\ IsFiniteSet(T) /\ Cardinality(T) \in Nat
         /\ \A x : x \notin T => Cardinality(T \cup {x}) = Cardinality(T) + 1
<1>1. IsFiniteSet(T)
  BY FS_Interval, FS_Subset
<1> QED
  BY <1>1, FS_CardinalityType, FS_AddElement

\* How deep the lines i to j leave the reader is a number.
LEMMA DepthInt == \A i, j \in Int : Depth(i, j) \in Int
<1> SUFFICES ASSUME NEW i \in Int, NEW j \in Int PROVE Depth(i, j) \in Int
  OBVIOUS
<1>1. {m \in i .. j : IsOpen(m)} \in SUBSET (i .. j)
      /\ {m \in i .. j : read[m].kind = "close"} \in SUBSET (i .. j)
  OBVIOUS
<1>2. Cardinality({m \in i .. j : IsOpen(m)}) \in Nat
      /\ Cardinality({m \in i .. j : read[m].kind = "close"}) \in Nat
  BY <1>1, Counting
<1> QED
  BY <1>2 DEF Depth

\* The blocks around a line begin before it, and one of them is the innermost.
LEMMA InnerIs ==
  ASSUME NEW j \in Nat \ {0}
  PROVE  /\ Around(j) \in SUBSET (1 .. j - 1)
         /\ Inner(j) \in 0 .. j - 1
         /\ Inner(j) # 0 => Inner(j) \in Around(j)
         /\ Around(j) = {} => Inner(j) = 0
         /\ \A i \in Around(j) : i <= Inner(j)
         /\ \A i : Around(j) = {i} => Inner(j) = i
<1>1. Around(j) \in SUBSET (1 .. j - 1)
  BY DEF Around
<1> DEFINE T == Around(j) \cup {0}
<1>2. T \in SUBSET (0 .. j - 1) /\ T # {} /\ j - 1 \in Nat
  BY <1>1
<1> HIDE DEF T
<1>3. Max(T) \in T /\ \A y \in T : y <= Max(T)
  BY <1>2, MaxIn
<1>4. Inner(j) \in T /\ \A y \in T : y <= Inner(j)
  BY <1>3 DEF Inner, T
<1> QED
  BY <1>1, <1>2, <1>4 DEF T

\* The lines that count within a block.
LEMMA WithinIs ==
  /\ \A i, n, b : Within(i, b, n) \in SUBSET (i + 1 .. n) /\ Servers(i, n) \in SUBSET (i + 1 .. n)
  /\ \A i : Ordinal(i) = Cardinality(Within(Inner(i), read[i].block, i - 1))
  /\ \A j : ServersBefore(j) = Cardinality(Servers(Inner(j), j - 1))
BY Zenon DEF Within, Servers, Ordinal, ServersBefore

\* The line new is read: the lines there were are as they were.
Grows(l, new) == /\ read \in Seq(Lines) /\ l \in Lines /\ read' = Append(read, l)
                 /\ new \in Nat /\ new = Len(read) + 1

\* A further line leaves those before it what they are.
LEMMA OldLines ==
  ASSUME NEW l, NEW new, Grows(l, new)
  PROVE  /\ Last \in Nat /\ new = Last + 1 /\ Last' = new /\ new \in Nat \ {0}
         /\ DOMAIN read = 1 .. Last /\ DOMAIN read' = 1 .. new
         /\ \A j \in 1 .. Last : /\ read'[j] = read[j] /\ read[j] \in Lines
                                 /\ IsOpen(j)' = IsOpen(j) /\ IsPair(j)' = IsPair(j)
         /\ read'[new] = l
         /\ IsOpen(new)' = (l.kind = "open") /\ IsPair(new)' = (l.kind = "pair")
<1>1. /\ Last \in Nat /\ new = Last + 1 /\ Last' = new /\ new \in Nat \ {0}
      /\ DOMAIN read = 1 .. Last /\ DOMAIN read' = 1 .. new
      /\ read'[new] = l
      /\ \A j \in 1 .. Last : read'[j] = read[j] /\ read[j] \in Lines
  BY DEF Grows, Last
<1> QED
  BY <1>1 DEF IsOpen, IsPair

\* A line read adds to a part of the lines i to j that it is one of, and so to
\* how deep they leave the reader.
LEMMA DepthGrows ==
  ASSUME NEW l, NEW new, Grows(l, new), NEW i \in Nat \ {0}
  PROVE  /\ \A j \in Nat : j <= Last => Depth(i, j)' = Depth(i, j)
         /\ i <= Last => Depth(i, new)' = Depth(i, Last) + (CASE l.kind = "open" -> 1
                                                     [] l.kind = "close" -> -1
                                                     [] OTHER -> 0)
         /\ i = new /\ l.kind = "open" => Depth(i, new)' = 1
<1> DEFINE Os(j) == {m \in i .. j : IsOpen(m)}
           Cs(j) == {m \in i .. j : read[m].kind = "close"}
           Os1(j) == {m \in i .. j : IsOpen(m)'}
           Cs1(j) == {m \in i .. j : read'[m].kind = "close"}
<1>1. /\ Last \in Nat /\ new = Last + 1 /\ new \in Nat
      /\ \A j \in 1 .. Last : read'[j] = read[j] /\ IsOpen(j)' = IsOpen(j)
      /\ read'[new] = l /\ IsOpen(new)' = (l.kind = "open")
  BY OldLines
<1>2. \A j : Depth(i, j)' = Cardinality(Os1(j)) - Cardinality(Cs1(j))
             /\ Depth(i, j) = Cardinality(Os(j)) - Cardinality(Cs(j))
  BY Zenon DEF Depth
<1>3. ASSUME NEW j \in Nat, j <= Last
      PROVE  Os1(j) = Os(j) /\ Cs1(j) = Cs(j)
  <2>1. \A m \in i .. j : m \in 1 .. Last
    BY <1>1, <1>3
  <2> QED
    BY <1>1, <2>1
<1>4. \A j \in Nat : j <= Last => Depth(i, j)' = Depth(i, j)
  <2> HIDE DEF Os, Cs, Os1, Cs1
  <2> SUFFICES ASSUME NEW j \in Nat, j <= Last PROVE Depth(i, j)' = Depth(i, j)
    OBVIOUS
  <2>1. Os1(j) = Os(j) /\ Cs1(j) = Cs(j)
    BY <1>3
  <2>2. Depth(i, j)' = Cardinality(Os1(j)) - Cardinality(Cs1(j))
        /\ Depth(i, j) = Cardinality(Os(j)) - Cardinality(Cs(j))
    BY <1>2
  <2> QED
    BY <2>1, <2>2, Zenon
<1>5. ASSUME i <= new
      PROVE  /\ Os1(new) = IF l.kind = "open" THEN Os(Last) \cup {new} ELSE Os(Last)
             /\ Cs1(new) = IF l.kind = "close" THEN Cs(Last) \cup {new} ELSE Cs(Last)
  <2>1. \A m : m \in i .. new <=> m \in i .. Last \/ m = new
    BY <1>1, <1>5
  <2>2. \A m \in i .. Last : m \in 1 .. Last
    BY <1>1
  <2> QED
    BY <1>1, <2>1, <2>2
<1>6. Os(Last) \in SUBSET (i .. Last) /\ Cs(Last) \in SUBSET (i .. Last) /\ new \notin i .. Last
  BY <1>1
<1> HIDE DEF Os, Cs, Os1, Cs1
<1>7. /\ Cardinality(Os(Last)) \in Nat /\ Cardinality(Cs(Last)) \in Nat
      /\ Cardinality(Os(Last) \cup {new}) = Cardinality(Os(Last)) + 1
      /\ Cardinality(Cs(Last) \cup {new}) = Cardinality(Cs(Last)) + 1
  <2>1. new \notin Os(Last) /\ new \notin Cs(Last) /\ Last \in Int /\ i \in Int
    BY <1>1, <1>6
  <2> QED
    BY <1>6, <2>1, Counting
<1>8. i <= Last => Depth(i, new)' = Depth(i, Last) + (CASE l.kind = "open" -> 1
                                               [] l.kind = "close" -> -1
                                               [] OTHER -> 0)
  BY <1>1, <1>2, <1>5, <1>7
<1>9. ASSUME i = new, l.kind = "open"
      PROVE  Depth(i, new)' = 1
  <2>1. Os(Last) = {} /\ Cs(Last) = {}
    BY <1>1, <1>6, <1>9
  <2>2. Os1(new) = Os(Last) \cup {new} /\ Cs1(new) = Cs(Last)
    BY <1>5, <1>9
  <2>3. Cardinality(Os1(new)) = 1 /\ Cardinality(Cs1(new)) = 0
    BY <1>7, <2>1, <2>2, FS_EmptySet
  <2>4. Depth(i, new)' = Cardinality(Os1(new)) - Cardinality(Cs1(new))
    BY <1>2
  <2> QED
    BY <2>3, <2>4
<1> QED
  BY <1>4, <1>8, <1>9

\* What is said of the blocks around an old line, and of those around the next,
\* is not changed.
LEMMA AroundOld ==
  ASSUME NEW l, NEW new, Grows(l, new), NEW j \in 1 .. new
  PROVE  Around(j)' = Around(j) /\ Inner(j)' = Inner(j)
<1>1. /\ Last \in Nat /\ new = Last + 1
      /\ \A i \in 1 .. Last : IsOpen(i)' = IsOpen(i)
  BY OldLines
<1>2. ASSUME NEW i \in 1 .. j - 1
      PROVE  /\ IsOpen(i)' = IsOpen(i)
             /\ \A m \in i .. j - 1 : Depth(i, m)' = Depth(i, m)
  <2>1. i \in Nat \ {0} /\ \A m \in i .. j - 1 : m \in Nat /\ m <= Last
    BY <1>1
  <2> QED
    BY <1>1, <2>1, DepthGrows
<1>3. Around(j)' = {i \in 1 .. j - 1 : IsOpen(i)' /\ \A m \in i .. j - 1 : Depth(i, m)' >= 1}
  BY Zenon DEF Around
<1>4. Around(j)' = Around(j)
  BY <1>2, <1>3 DEF Around
<1>5. Inner(j)' = Max(Around(j)' \cup {0})
  BY Zenon DEF Inner
<1> QED
  BY <1>4, <1>5 DEF Inner

\* The blocks around the line after the new one.
LEMMA AroundNext ==
  ASSUME NEW l, NEW new, Grows(l, new)
  PROVE  /\ l.kind = "open" => Around(Last + 1)' = Around(new) \cup {new}
         /\ l.kind = "pair" => Around(Last + 1)' = Around(new)
         /\ l.kind = "close" => Around(Last + 1)' = {i \in Around(new) : Depth(i, Last) >= 2}
<1>1. /\ Last \in Nat /\ new = Last + 1 /\ Last' = new
      /\ \A i \in 1 .. Last : IsOpen(i)' = IsOpen(i)
      /\ IsOpen(new)' = (l.kind = "open")
  BY OldLines
<1>2. Around(Last + 1)' = {i \in 1 .. new : IsOpen(i)' /\ \A m \in i .. new : Depth(i, m)' >= 1}
  <2>1. Around(Last + 1)' = {i \in 1 .. (Last' + 1) - 1 : IsOpen(i)' /\ \A m \in i .. (Last' + 1) - 1 : Depth(i, m)' >= 1}
    BY Zenon DEF Around
  <2>2. (Last' + 1) - 1 = new
    BY <1>1
  <2> QED
    BY <2>1, <2>2
<1>3. Around(new) = {i \in 1 .. Last : IsOpen(i) /\ \A m \in i .. Last : Depth(i, m) >= 1}
  <2>1. new - 1 = Last
    BY <1>1
  <2> QED
    BY <2>1, Zenon DEF Around
<1> DEFINE step == CASE l.kind = "open" -> 1 [] l.kind = "close" -> -1 [] OTHER -> 0
<1>4. step \in Int
  OBVIOUS
<1>5. ASSUME NEW i \in 1 .. Last
      PROVE  i \in Around(Last + 1)' <=> i \in Around(new) /\ Depth(i, Last) + step >= 1
  <2>1. i \in Nat \ {0} /\ i <= Last /\ i \in 1 .. new
    BY <1>1
  <2> HIDE DEF step
  <2>2. /\ \A j \in Nat : j <= Last => Depth(i, j)' = Depth(i, j)
        /\ Depth(i, new)' = Depth(i, Last) + step
    BY <2>1, DepthGrows DEF step
  <2>3. \A m : m \in i .. new <=> m \in i .. Last \/ m = new
    BY <1>1, <2>1
  <2>4. \A m \in i .. Last : Depth(i, m)' = Depth(i, m)
    BY <1>1, <2>2
  <2> QED
    BY <1>1, <1>2, <1>3, <2>1, <2>2, <2>3, <2>4
<1>6. new \in Around(Last + 1)' <=> l.kind = "open"
  <2>1. new \in 1 .. new /\ new \in Nat \ {0} /\ \A m : m \in new .. new <=> m = new
    BY <1>1
  <2>2. l.kind = "open" => Depth(new, new)' = 1
    BY <2>1, DepthGrows
  <2>3. l.kind = "open" => \A m \in new .. new : Depth(new, m)' >= 1
    BY <2>1, <2>2
  <2>4. new \in Around(Last + 1)'
        <=> new \in 1 .. new /\ IsOpen(new)' /\ \A m \in new .. new : Depth(new, m)' >= 1
    BY <1>2
  <2> QED
    BY <1>1, <2>1, <2>3, <2>4
<1>7. \A i : i \in 1 .. new <=> i \in 1 .. Last \/ i = new
  BY <1>1
<1>8. \A i \in Around(new) : i \in 1 .. Last /\ Depth(i, Last) \in Int /\ Depth(i, Last) >= 1
  <2>1. \A i \in 1 .. Last : Last \in i .. Last /\ i \in Int /\ Last \in Int
    BY <1>1
  <2> QED
    BY <1>3, <2>1, DepthInt
<1>9. \A i \in Around(Last + 1)' : i \in 1 .. new
  BY <1>2
<1> HIDE DEF step
<1>10. ASSUME l.kind = "open" PROVE Around(Last + 1)' = Around(new) \cup {new}
  <2>1. step = 1
    BY <1>10 DEF step
  <2> QED
    BY <1>5, <1>6, <1>7, <1>8, <1>9, <1>10, <2>1
<1>11. ASSUME l.kind = "pair" PROVE Around(Last + 1)' = Around(new)
  <2>1. step = 0 /\ new \notin Around(Last + 1)'
    BY <1>6, <1>11 DEF step
  <2> QED
    BY <1>5, <1>7, <1>8, <1>9, <2>1
<1>12. ASSUME l.kind = "close"
       PROVE  Around(Last + 1)' = {i \in Around(new) : Depth(i, Last) >= 2}
  <2>1. step = -1 /\ new \notin Around(Last + 1)'
    BY <1>6, <1>12 DEF step
  <2> QED
    BY <1>5, <1>7, <1>8, <1>9, <2>1
<1> QED
  BY <1>10, <1>11, <1>12

\* The blocks and the servers that begin in a block: the new line may be one more.
LEMMA WithinGrows ==
  ASSUME NEW l, NEW new, Grows(l, new)
  PROVE  /\ \A i \in 0 .. Last, n \in Int : \A b : n <= Last =>
               Within(i, b, n)' = Within(i, b, n) /\ Servers(i, n)' = Servers(i, n)
         /\ \A i \in 0 .. Last : \A b :
               LET more == l.kind = "open" /\ l.block = b /\ Inner(new) = i IN
               /\ Within(i, b, Last)' = Within(i, b, Last) \cup (IF more THEN {new} ELSE {})
               /\ Cardinality(Within(i, b, Last))' = Cardinality(Within(i, b, Last)) + Bit(more)
         /\ \A i \in 0 .. Last :
               LET more == l.kind = "pair" /\ l.name = SERVER /\ Inner(new) = i IN
               Cardinality(Servers(i, Last))' = Cardinality(Servers(i, Last)) + Bit(more)
         /\ \A b : Within(new, b, Last)' = {}
         /\ Cardinality(Servers(new, Last))' = 0
<1>1. /\ Last \in Nat /\ new = Last + 1 /\ Last' = new /\ new \in Nat \ {0}
      /\ \A j \in 1 .. Last : /\ read'[j] = read[j]
                              /\ IsOpen(j)' = IsOpen(j) /\ IsPair(j)' = IsPair(j)
      /\ read'[new] = l
      /\ IsOpen(new)' = (l.kind = "open") /\ IsPair(new)' = (l.kind = "pair")
  BY OldLines
<1>2. \A j \in 1 .. Last : Inner(j)' = Inner(j)
  <2>1. \A j \in 1 .. Last : j \in 1 .. new
    BY <1>1
  <2> QED
    BY <2>1, AroundOld
<1>3. Inner(new)' = Inner(new)
  <2>1. new \in 1 .. new
    BY <1>1
  <2> QED
    BY <2>1, AroundOld
<1>4. \A i, n, b : /\ Within(i, b, n)' = {m \in i + 1 .. n : IsOpen(m)' /\ read'[m].block = b /\ Inner(m)' = i}
                   /\ Servers(i, n)' = {m \in i + 1 .. n : IsPair(m)' /\ read'[m].name = SERVER /\ Inner(m)' = i}
  BY Zenon DEF Within, Servers
<1>5. ASSUME NEW i \in 0 .. Last, NEW n \in Int, NEW b, n <= Last
      PROVE  Within(i, b, n)' = Within(i, b, n) /\ Servers(i, n)' = Servers(i, n)
  <2>1. \A m \in i + 1 .. n : m \in 1 .. Last
    BY <1>1, <1>5
  <2> QED
    BY <1>1, <1>2, <1>4, <2>1 DEF Within, Servers
<1>6. /\ \A b : Within(new, b, Last)' = {}
      /\ Cardinality(Servers(new, Last))' = 0
  <2>1. \A m : m \notin new + 1 .. new
    BY <1>1
  <2>2. \A b : Within(new, b, Last)' = {m \in new + 1 .. new : IsOpen(m)' /\ read'[m].block = b /\ Inner(m)' = new}
    BY <1>1, Zenon DEF Within
  <2>3. Servers(new, Last)' = {m \in new + 1 .. new : IsPair(m)' /\ read'[m].name = SERVER /\ Inner(m)' = new}
    BY <1>1, Zenon DEF Servers
  <2>4. Servers(new, Last)' = {} /\ \A b : Within(new, b, Last)' = {}
    BY <2>1, <2>2, <2>3
  <2> QED
    BY <2>4, FS_EmptySet
<1>7. ASSUME NEW i \in 0 .. Last
      PROVE  /\ \A m : m \in i + 1 .. new <=> m \in i + 1 .. Last \/ m = new
             /\ \A m \in i + 1 .. Last : m \in 1 .. Last
  BY <1>1
<1>8. ASSUME NEW i \in 0 .. Last, NEW b
      PROVE  LET more == l.kind = "open" /\ l.block = b /\ Inner(new) = i IN
             /\ Within(i, b, Last)' = Within(i, b, Last) \cup (IF more THEN {new} ELSE {})
             /\ Cardinality(Within(i, b, Last))' = Cardinality(Within(i, b, Last)) + Bit(more)
  <2> DEFINE more == l.kind = "open" /\ l.block = b /\ Inner(new) = i
             W == Within(i, b, Last)
  <2>1. W' = {m \in i + 1 .. new : IsOpen(m)' /\ read'[m].block = b /\ Inner(m)' = i}
    BY <1>1, Zenon DEF Within
  <2>2. W = {m \in i + 1 .. Last : IsOpen(m) /\ read[m].block = b /\ Inner(m) = i}
    BY Zenon DEF Within
  <2>3. W' = IF more THEN W \cup {new} ELSE W
    <3>1. \A m \in i + 1 .. Last :
             (IsOpen(m)' /\ read'[m].block = b /\ Inner(m)' = i) <=> (IsOpen(m) /\ read[m].block = b /\ Inner(m) = i)
      BY <1>1, <1>2, <1>7
    <3>2. (IsOpen(new)' /\ read'[new].block = b /\ Inner(new)' = i) <=> more
      BY <1>1, <1>3
    <3>3. \A m : m \in W' <=> m \in W \/ (m = new /\ more)
      <4> HIDE DEF more, W
      <4> QED
        BY <1>7, <2>1, <2>2, <3>1, <3>2
    <3> HIDE DEF more, W
    <3> QED
      BY <3>3
  <2>4. W \in SUBSET (i + 1 .. Last) /\ new \notin W /\ i + 1 \in Int /\ Last \in Int
    BY <1>1, <2>2
  <2> HIDE DEF W, more
  <2>5. Cardinality(W) \in Nat /\ Cardinality(W \cup {new}) = Cardinality(W) + 1
    BY <2>4, Counting
  <2>6. W' = W \cup (IF more THEN {new} ELSE {})
    BY <2>3
  <2>7. Cardinality(W') = Cardinality(W) + Bit(more)
    BY <2>3, <2>5 DEF Bit
  <2> QED
    BY <2>6, <2>7 DEF W, more
<1>9. ASSUME NEW i \in 0 .. Last
      PROVE  LET more == l.kind = "pair" /\ l.name = SERVER /\ Inner(new) = i IN
             Cardinality(Servers(i, Last))' = Cardinality(Servers(i, Last)) + Bit(more)
  <2> DEFINE more == l.kind = "pair" /\ l.name = SERVER /\ Inner(new) = i
             W == Servers(i, Last)
  <2>1. W' = {m \in i + 1 .. new : IsPair(m)' /\ read'[m].name = SERVER /\ Inner(m)' = i}
    BY <1>1, Zenon DEF Servers
  <2>2. W = {m \in i + 1 .. Last : IsPair(m) /\ read[m].name = SERVER /\ Inner(m) = i}
    BY Zenon DEF Servers
  <2>3. W' = IF more THEN W \cup {new} ELSE W
    <3>1. \A m \in i + 1 .. Last :
             (IsPair(m)' /\ read'[m].name = SERVER /\ Inner(m)' = i) <=> (IsPair(m) /\ read[m].name = SERVER /\ Inner(m) = i)
      BY <1>1, <1>2, <1>7
    <3>2. (IsPair(new)' /\ read'[new].name = SERVER /\ Inner(new)' = i) <=> more
      BY <1>1, <1>3
    <3>3. \A m : m \in W' <=> m \in W \/ (m = new /\ more)
      <4> HIDE DEF more, W
      <4> QED
        BY <1>7, <2>1, <2>2, <3>1, <3>2
    <3> HIDE DEF more, W
    <3> QED
      BY <3>3
  <2>4. W \in SUBSET (i + 1 .. Last) /\ new \notin W /\ i + 1 \in Int /\ Last \in Int
    BY <1>1, <2>2
  <2> HIDE DEF W, more
  <2>5. Cardinality(W) \in Nat /\ Cardinality(W \cup {new}) = Cardinality(W) + 1
    BY <2>4, Counting
  <2>7. Cardinality(W') = Cardinality(W) + Bit(more)
    BY <2>3, <2>5 DEF Bit
  <2> QED
    BY <2>7 DEF W, more
<1> QED
  BY <1>5, <1>6, <1>8, <1>9

\* The numbers of an old line are not changed; those of the new one count what
\* was in its block before.
LEMMA OrdinalGrows ==
  ASSUME NEW l, NEW new, Grows(l, new)
  PROVE  /\ \A i \in 1 .. Last : Ordinal(i)' = Ordinal(i) /\ ServersBefore(i)' = ServersBefore(i)
         /\ Ordinal(new)' = Cardinality(Within(Inner(new), l.block, Last))
         /\ ServersBefore(new)' = Cardinality(Servers(Inner(new), Last))
<1>1. /\ Last \in Nat /\ new = Last + 1 /\ new \in Nat \ {0} /\ new - 1 = Last
      /\ \A j \in 1 .. Last : read'[j] = read[j]
      /\ read'[new] = l
  BY OldLines
<1>2. ASSUME NEW i \in 1 .. new
      PROVE  /\ Inner(i)' = Inner(i) /\ Inner(i) \in 0 .. Last /\ i - 1 \in Int /\ i - 1 <= Last
             /\ Ordinal(i)' = Cardinality(Within(Inner(i), read'[i].block, i - 1))
             /\ ServersBefore(i)' = Cardinality(Servers(Inner(i), i - 1))
  <2>1. Inner(i)' = Inner(i)
    BY AroundOld
  <2>2. Inner(i) \in 0 .. Last /\ i - 1 \in Int /\ i - 1 <= Last
    <3>1. i \in Nat \ {0} /\ i - 1 <= Last /\ i - 1 \in Int
      BY <1>1
    <3>2. Inner(i) \in 0 .. i - 1
      BY <3>1, InnerIs
    <3> QED
      BY <1>1, <3>1, <3>2
  <2>3. PICK o : o = Inner(i)
    OBVIOUS
  <2>4. ServersBefore(i)' = Cardinality(Servers(o, i - 1)')
    BY <2>1, <2>3, Zenon DEF ServersBefore, Servers
  <2>5. \A b : Within(o, b, i - 1)' = Within(o, b, i - 1) /\ Servers(o, i - 1)' = Servers(o, i - 1)
    BY <2>2, <2>3, WithinGrows
  <2>6. PICK b : b = read'[i].block
    OBVIOUS
  <2>7. Ordinal(i)' = Cardinality(Within(o, b, i - 1)')
    BY <2>1, <2>3, <2>6, Zenon DEF Ordinal, Within
  <2> QED
    BY <2>1, <2>2, <2>3, <2>4, <2>5, <2>6, <2>7
<1>3. \A i \in 1 .. Last : i \in 1 .. new
  BY <1>1
<1>4. new \in 1 .. new
  BY <1>1
<1> QED
  BY <1>1, <1>2, <1>3, <1>4, WithinIs, Zenon

\* Where the reader stands in the blocks is a stack: what a line that opens one,
\* that closes one, and a setting make of it.
LEMMA StackMoves ==
  ASSUME NEW l, NEW new, Grows(l, new)
  PROVE  /\ l.kind = "open" =>
               /\ Around(new) = {} => InOne(new)'
               /\ \A i : InOne(i) => InTwo(i, new)'
         /\ l.kind = "pair" =>
               /\ Around(new) = {} => Around(Last + 1)' = {}
               /\ \A i : InOne(i) => InOne(i)'
               /\ \A i, j : InTwo(i, j) => InTwo(i, j)'
         /\ l.kind = "close" =>
               /\ \A i : InOne(i) => Around(Last + 1)' = {}
               /\ \A i, j : InTwo(i, j) => InOne(i)'
<1>1. /\ Last \in Nat /\ new = Last + 1 /\ Last' = new /\ new \in Nat \ {0}
  BY OldLines
<1>2. \A i : /\ InOne(i) <=> Around(new) = {i} /\ Depth(i, Last) = 1
             /\ InOne(i)' <=> Around(Last + 1)' = {i} /\ Depth(i, new)' = 1
  BY <1>1, Zenon DEF InOne, Depth
<1>3. \A i, j : /\ InTwo(i, j) <=> /\ Around(new) = {i, j} /\ Inner(j) = i
                                   /\ Depth(i, Last) = 2 /\ Depth(j, Last) = 1
                /\ InTwo(i, j)' <=> /\ Around(Last + 1)' = {i, j} /\ Inner(j)' = i
                                    /\ Depth(i, new)' = 2 /\ Depth(j, new)' = 1
  BY <1>1, Zenon DEF InTwo, Depth, Inner
<1>4. ASSUME NEW i \in Around(new)
      PROVE  /\ i \in 1 .. Last /\ Inner(i)' = Inner(i)
             /\ l.kind = "open" => Depth(i, new)' = Depth(i, Last) + 1
             /\ l.kind = "pair" => Depth(i, new)' = Depth(i, Last)
             /\ l.kind = "close" => Depth(i, new)' = Depth(i, Last) - 1
  <2>1. i \in 1 .. new - 1
    BY <1>1, InnerIs
  <2>2. i \in 1 .. Last /\ i \in 1 .. new /\ i \in Nat \ {0} /\ i <= Last /\ i \in Int
    BY <1>1, <2>1
  <2>3. Inner(i)' = Inner(i)
    BY <2>2, AroundOld
  <2>4. Depth(i, new)' = Depth(i, Last) + (CASE l.kind = "open" -> 1
                                             [] l.kind = "close" -> -1
                                             [] OTHER -> 0)
    BY <2>2, DepthGrows
  <2>5. Depth(i, Last) \in Int
    BY <1>1, <2>2, DepthInt
  <2> QED
    BY <2>2, <2>3, <2>4, <2>5
<1>5. CASE l.kind = "open"
  <2>1. Around(Last + 1)' = Around(new) \cup {new} /\ Depth(new, new)' = 1
    BY <1>1, <1>5, AroundNext, DepthGrows
  <2>2. Around(new) = {} => InOne(new)'
    BY <1>2, <2>1
  <2>3. ASSUME NEW i, InOne(i) PROVE InTwo(i, new)'
    <3>1. Around(new) = {i} /\ Depth(i, Last) = 1
      BY <1>2, <2>3
    <3>2. Inner(new) = i
      BY <1>1, <3>1, InnerIs
    <3>3. new \in 1 .. new
      BY <1>1
    <3>4. Inner(new)' = i
      BY <3>2, <3>3, AroundOld
    <3>5. Depth(i, new)' = 2
      BY <1>4, <1>5, <3>1
    <3>6. Around(Last + 1)' = {i, new}
      BY <2>1, <3>1
    <3> QED
      BY <1>3, <2>1, <3>4, <3>5, <3>6
  <2> QED
    BY <1>5, <2>2, <2>3
<1>6. CASE l.kind = "pair"
  <2>1. Around(Last + 1)' = Around(new)
    BY <1>6, AroundNext
  <2>2. ASSUME NEW i, InOne(i) PROVE InOne(i)'
    BY <1>2, <1>4, <1>6, <2>1, <2>2
  <2>3. ASSUME NEW i, NEW j, InTwo(i, j) PROVE InTwo(i, j)'
    <3>1. /\ Around(new) = {i, j} /\ Inner(j) = i
          /\ Depth(i, Last) = 2 /\ Depth(j, Last) = 1
      BY <1>3, <2>3
    <3>2. Inner(j)' = i /\ Depth(i, new)' = 2 /\ Depth(j, new)' = 1
      BY <1>4, <1>6, <3>1
    <3> QED
      BY <1>3, <2>1, <3>1, <3>2
  <2> QED
    BY <1>6, <2>1, <2>2, <2>3
<1>7. CASE l.kind = "close"
  <2>1. Around(Last + 1)' = {i \in Around(new) : Depth(i, Last) >= 2}
    BY <1>7, AroundNext
  <2>2. ASSUME NEW i, InOne(i) PROVE Around(Last + 1)' = {}
    BY <1>2, <2>1, <2>2
  <2>3. ASSUME NEW i, NEW j, InTwo(i, j) PROVE InOne(i)'
    <3>1. Around(new) = {i, j} /\ Depth(i, Last) = 2 /\ Depth(j, Last) = 1
      BY <1>3, <2>3
    <3>2. Depth(i, new)' = 1
      BY <1>4, <1>7, <3>1
    <3>3. Around(Last + 1)' = {i}
      BY <2>1, <3>1
    <3> QED
      BY <1>2, <3>2, <3>3
  <2> QED
    BY <1>7, <2>2, <2>3
<1> QED
  BY <1>5, <1>6, <1>7

\* The innermost block around the next line.
LEMMA Innermost ==
  ASSUME read \in Seq(Lines)
  PROVE  /\ Around(Last + 1) = {} => Inner(Last + 1) = 0
         /\ \A i : InOne(i) => Inner(Last + 1) = i /\ i \in 1 .. Last
         /\ \A i, j : InTwo(i, j) =>
               Inner(Last + 1) = j /\ Inner(j) = i /\ i \in 1 .. Last /\ j \in i + 1 .. Last
<1>1. Last \in Nat /\ Last + 1 \in Nat \ {0} /\ (Last + 1) - 1 = Last
  BY DEF Last
<1>2. /\ Around(Last + 1) \in SUBSET (1 .. Last) /\ \A i \in Around(Last + 1) : i <= Inner(Last + 1)
      /\ Inner(Last + 1) # 0 => Inner(Last + 1) \in Around(Last + 1)
      /\ Around(Last + 1) = {} => Inner(Last + 1) = 0
      /\ \A i : Around(Last + 1) = {i} => Inner(Last + 1) = i
  BY <1>1, InnerIs
<1>3. ASSUME NEW i, InOne(i) PROVE Inner(Last + 1) = i /\ i \in 1 .. Last
  BY <1>2, <1>3 DEF InOne
<1>4. ASSUME NEW i, NEW j, InTwo(i, j)
      PROVE  Inner(Last + 1) = j /\ Inner(j) = i /\ i \in 1 .. Last /\ j \in i + 1 .. Last
  <2>1. Around(Last + 1) = {i, j} /\ Inner(j) = i
    BY <1>4 DEF InTwo
  <2>2. i \in 1 .. Last /\ j \in 1 .. Last
    BY <1>2, <2>1
  <2>3. j \in Nat \ {0}
    BY <1>1, <2>2
  <2>4. Inner(j) \in 0 .. j - 1
    BY <2>3, InnerIs
  <2>5. i < j
    BY <2>1, <2>2, <2>4
  <2>6. Inner(Last + 1) \in {0, i, j} /\ j <= Inner(Last + 1)
    BY <1>2, <2>1
  <2> QED
    BY <1>1, <2>1, <2>2, <2>5, <2>6
<1> QED
  BY <1>2, <1>3, <1>4

\* The key a setting is meant for, by the block it stands in and the one around that.
MeantIn(b, i, o, k, n) ==
    LET no == IF k = SERVER THEN n ELSE 0
    IN CASE b \in {"global", "filter"} -> Key(b, 0, 0, k, 0)
         [] b = "upstream" -> Key(b, Ordinal(i), 0, k, 0)
         [] b = "proxy" -> Key(b, Ordinal(o), Ordinal(i), k, no)
         [] b = "default" /\ o = 0 -> Key(b, 0, 0, k, no)
         [] OTHER -> Key("updefault", Ordinal(o), 0, k, no)

\* The key of a setting, in terms of its block, the block around that and the
\* servers before it.
LEMMA MeantIs ==
  \A j, i, o : Inner(j) = i /\ Inner(i) = o
               => Meant(j) = MeantIn(read[i].block, i, o, read[j].name, ServersBefore(j))
<1> SUFFICES ASSUME NEW j, NEW i, NEW o, Inner(j) = i, Inner(i) = o
             PROVE  Meant(j) = MeantIn(read[i].block, i, o, read[j].name, ServersBefore(j))
  OBVIOUS
<1>1. Meant(j) = MeantIn(read[Inner(j)].block, Inner(j), Inner(Inner(j)), read[j].name, ServersBefore(j))
  BY Zenon DEF Meant, MeantIn
<1> QED
  BY <1>1, Zenon

\* The same of the next state.
LEMMA MeantNow ==
  \A j, i, o : Inner(j)' = i /\ Inner(i)' = o
               => Meant(j)' = MeantIn(read[i].block, i, o, read[j].name, ServersBefore(j))'
<1>1. (\A j, i, o : Inner(j) = i /\ Inner(i) = o
               => Meant(j) = MeantIn(read[i].block, i, o, read[j].name, ServersBefore(j)))'
  BY MeantIs, PTL
<1> QED
  BY <1>1, Zenon

\* No line is read: nothing that is said of the lines changes.
LEMMA HistoryKept ==
  ASSUME read' = read
  PROVE  /\ Last' = Last /\ DOMAIN read' = DOMAIN read /\ Pairs' = Pairs
         /\ \A j : /\ IsOpen(j)' = IsOpen(j) /\ IsPair(j)' = IsPair(j)
                   /\ Around(j)' = Around(j) /\ Inner(j)' = Inner(j)
                   /\ Ordinal(j)' = Ordinal(j) /\ Meant(j)' = Meant(j)
         /\ \A i, j : Depth(i, j)' = Depth(i, j)
<1>1. /\ Last' = Last /\ DOMAIN read' = DOMAIN read
      /\ \A j : IsOpen(j)' = IsOpen(j) /\ IsPair(j)' = IsPair(j)
  BY DEF Last, IsOpen, IsPair
<1>2. Pairs' = Pairs
  BY <1>1 DEF Pairs
<1>3. \A i, j : Depth(i, j)' = Depth(i, j)
  <2> SUFFICES ASSUME NEW i, NEW j PROVE Depth(i, j)' = Depth(i, j)
    OBVIOUS
  <2>1. {m \in i .. j : IsOpen(m)}' = {m \in i .. j : IsOpen(m)}
    BY <1>1
  <2>2. Depth(i, j)' = Cardinality({m \in i .. j : IsOpen(m)}')
                       - Cardinality({m \in i .. j : read[m].kind = "close"})
    BY Zenon DEF Depth
  <2> QED
    BY <2>1, <2>2, Zenon DEF Depth
<1>4. ASSUME NEW j PROVE Around(j)' = Around(j) /\ Inner(j)' = Inner(j)
  <2>1. Around(j)' = {i \in 1 .. j - 1 : IsOpen(i)' /\ \A m \in i .. j - 1 : Depth(i, m)' >= 1}
    BY Zenon DEF Around
  <2>2. Around(j)' = Around(j)
    BY <1>1, <1>3, <2>1 DEF Around
  <2>3. Inner(j)' = Max(Around(j)' \cup {0})
    BY Zenon DEF Inner
  <2> QED
    BY <2>2, <2>3, Zenon DEF Inner
<1>5. ASSUME NEW i, NEW b, NEW n
      PROVE  Within(i, b, n)' = Within(i, b, n) /\ Servers(i, n)' = Servers(i, n)
  BY <1>1, <1>4 DEF Within, Servers
<1>6. (/\ \A i : Ordinal(i) = Cardinality(Within(Inner(i), read[i].block, i - 1))
       /\ \A j : ServersBefore(j) = Cardinality(Servers(Inner(j), j - 1)))'
  BY WithinIs, PTL
<1>7. ASSUME NEW j PROVE Ordinal(j)' = Ordinal(j) /\ ServersBefore(j)' = ServersBefore(j)
  <2>1. PICK i : i = Inner(j)
    OBVIOUS
  <2>2. Ordinal(j)' = Cardinality(Within(i, read[j].block, j - 1)')
    BY <1>4, <1>6, <2>1, Zenon DEF Within
  <2>3. ServersBefore(j)' = Cardinality(Servers(i, j - 1)')
    BY <1>4, <1>6, <2>1, Zenon DEF Servers
  <2> QED
    BY <1>5, <2>1, <2>2, <2>3, WithinIs, Zenon
<1>8. ASSUME NEW j PROVE Meant(j)' = Meant(j)
  <2>1. PICK i, o : i = Inner(j) /\ o = Inner(i)
    OBVIOUS
  <2>2. Meant(j)' = MeantIn(read[i].block, i, o, read[j].name, ServersBefore(j))'
    BY <1>4, <2>1, MeantNow
  <2>3. Meant(j) = MeantIn(read[i].block, i, o, read[j].name, ServersBefore(j))
    BY <2>1, MeantIs
  <2> QED
    BY <1>7, <2>2, <2>3 DEF MeantIn
<1> QED
  BY <1>1, <1>2, <1>3, <1>4, <1>7, <1>8

\* What LegalNesting asks of the line i that starts block b in block o.
LegalIn(b, i, o) ==
    CASE b \in {"global", "filter"} -> o = 0 /\ Ordinal(i) = 0
      [] b = "upstream" -> o = 0
      [] b = "proxy" -> o # 0 /\ read[o].block = "upstream"
      [] OTHER -> o # 0 => read[o].block = "upstream" /\ Ordinal(i) = 0

\* Legal nesting, in terms of a block and the one around it.
LEMMA LegalIs ==
  LegalNesting <=> \A i \in DOMAIN read : \A o : IsOpen(i) /\ Inner(i) = o => LegalIn(read[i].block, i, o)
<1>1. LegalNesting <=> \A i \in DOMAIN read : IsOpen(i) => LegalIn(read[i].block, i, Inner(i))
  BY Zenon DEF LegalNesting, LegalIn
<1> QED
  BY <1>1, Zenon

\* The same of the next state.
LEMMA LegalNow ==
  LegalNesting' <=> \A i \in DOMAIN read' : \A o : IsOpen(i)' /\ Inner(i)' = o => LegalIn(read[i].block, i, o)'
<1>1. (LegalNesting <=> \A i \in DOMAIN read : \A o : IsOpen(i) /\ Inner(i) = o => LegalIn(read[i].block, i, o))'
  BY LegalIs, PTL
<1> QED
  BY <1>1, Zenon

\* A line that starts a block names it.
LEMMA LineBlock == \A l \in Lines : l.kind = "open" => l.block \in Blocks
BY DEF Lines, OpenLine, CloseLine, PairLine

\* A line is read that is no block out of place.
LEMMA NestingGrows ==
  ASSUME NEW l, NEW new, Grows(l, new), LegalNesting,
         l.kind = "open" => /\ l.block \in {"global", "filter"} =>
                                 Inner(new) = 0 /\ Within(0, l.block, Last) = {}
                            /\ l.block = "upstream" => Inner(new) = 0
                            /\ l.block = "proxy" =>
                                 Inner(new) \in 1 .. Last /\ read[Inner(new)].block = "upstream"
                            /\ l.block = "default" => Inner(new) = 0
                                 \/ /\ Inner(new) \in 1 .. Last /\ read[Inner(new)].block = "upstream"
                                    /\ Within(Inner(new), l.block, Last) = {}
  PROVE  LegalNesting'
<1>1. /\ Last \in Nat /\ new = Last + 1 /\ new \in Nat \ {0} /\ new - 1 = Last
      /\ DOMAIN read = 1 .. Last /\ DOMAIN read' = 1 .. new
      /\ \A j \in 1 .. Last : read'[j] = read[j] /\ IsOpen(j)' = IsOpen(j) /\ read[j] \in Lines
      /\ read'[new] = l /\ IsOpen(new)' = (l.kind = "open") /\ l \in Lines
  BY OldLines DEF Grows
<1>2. SUFFICES ASSUME NEW i \in 1 .. new, NEW o, IsOpen(i)', Inner(i)' = o
               PROVE  LegalIn(read[i].block, i, o)'
  BY <1>1, LegalNow
<1>3. Inner(i)' = Inner(i) /\ Inner(i) \in 0 .. i - 1
  <2>1. i \in Nat \ {0}
    BY <1>1
  <2> QED
    BY <2>1, AroundOld, InnerIs
<1>4. CASE i \in 1 .. Last
  <2>1. LegalIn(read[i].block, i, o)
    <3>1. i \in DOMAIN read /\ IsOpen(i) /\ Inner(i) = o
      BY <1>1, <1>2, <1>3, <1>4
    <3> QED
      BY <3>1, LegalIs
  <2>2. o # 0 => read'[o] = read[o]
    <3>1. o # 0 => o \in 1 .. Last
      BY <1>1, <1>2, <1>3, <1>4
    <3> QED
      BY <1>1, <3>1
  <2>3. Ordinal(i)' = Ordinal(i) /\ read'[i] = read[i]
    BY <1>1, <1>4, OrdinalGrows
  <2> QED
    BY <2>1, <2>2, <2>3 DEF LegalIn
<1>5. CASE i = new
  <2>1. l.kind = "open" /\ l.block \in Blocks /\ Inner(new) = o /\ read'[new].block = l.block
    <3>1. l.kind = "open" /\ Inner(new) = o /\ read'[new] = l /\ l \in Lines
      BY <1>1, <1>2, <1>3, <1>5
    <3> QED
      BY <3>1, LineBlock
  <2>2. Ordinal(new)' = Cardinality(Within(o, l.block, Last))
    BY <2>1, OrdinalGrows
  <2>3. Within(o, l.block, Last) = {} => Ordinal(new)' = 0
    BY <2>2, FS_EmptySet
  <2>4. o \in 1 .. Last => read'[o].block = read[o].block
    BY <1>1
  <2> QED
    BY <1>5, <2>1, <2>3, <2>4 DEF LegalIn, Blocks
<1> QED
  BY <1>1, <1>4, <1>5

\* The keys of the settings there are do not change.
LEMMA MeantOld ==
  ASSUME NEW l, NEW new, Grows(l, new), LegalNesting, \A j \in Pairs : Inner(j) # 0
  PROVE  /\ Pairs' = Pairs \cup (IF l.kind = "pair" THEN {new} ELSE {})
         /\ Pairs \in SUBSET (1 .. Last)
         /\ \A j \in Pairs : Inner(j)' = Inner(j) /\ Meant(j)' = Meant(j) /\ read'[j] = read[j]
<1>1. /\ Last \in Nat /\ new = Last + 1 /\ new \in Nat \ {0}
      /\ DOMAIN read = 1 .. Last /\ DOMAIN read' = 1 .. new
      /\ \A j \in 1 .. Last : /\ read'[j] = read[j] /\ read[j] \in Lines
                              /\ IsOpen(j)' = IsOpen(j) /\ IsPair(j)' = IsPair(j)
      /\ IsPair(new)' = (l.kind = "pair")
  BY OldLines
<1>2. Pairs' = {j \in 1 .. new : IsPair(j)'} /\ Pairs = {j \in 1 .. Last : IsPair(j)}
  BY <1>1, Zenon DEF Pairs
<1>3. \A j : j \in 1 .. new <=> j \in 1 .. Last \/ j = new
  BY <1>1
<1>4. Pairs' = Pairs \cup (IF l.kind = "pair" THEN {new} ELSE {}) /\ Pairs \in SUBSET (1 .. Last)
  BY <1>1, <1>2, <1>3
<1>5. ASSUME NEW j \in Pairs
      PROVE  Inner(j)' = Inner(j) /\ Meant(j)' = Meant(j) /\ read'[j] = read[j]
  <2>1. j \in 1 .. Last /\ j \in 1 .. new /\ j \in Nat \ {0}
    BY <1>1, <1>4
  <2>2. PICK i : i = Inner(j)
    OBVIOUS
  <2>3. i \in 1 .. j - 1 /\ i \in Around(j) /\ Inner(j)' = i
    BY <2>1, <2>2, AroundOld, InnerIs
  <2>4. i \in 1 .. Last /\ i \in 1 .. new /\ i \in Nat \ {0} /\ IsOpen(i)
    BY <1>1, <2>1, <2>3 DEF Around
  <2>5. PICK o : o = Inner(i)
    OBVIOUS
  <2>6. o \in 0 .. i - 1 /\ Inner(i)' = o
    BY <2>4, <2>5, AroundOld, InnerIs
  <2>7. o = 0 \/ o \in 1 .. Last
    BY <1>1, <2>4, <2>6
  <2>8. LegalIn(read[i].block, i, o)
    BY <1>1, <2>4, <2>5, LegalIs
  <2>9. /\ Meant(j)' = MeantIn(read[i].block, i, o, read[j].name, ServersBefore(j))'
        /\ Meant(j) = MeantIn(read[i].block, i, o, read[j].name, ServersBefore(j))
    BY <2>2, <2>3, <2>5, <2>6, MeantIs, MeantNow
  <2>10. read[i].block \in Blocks
    BY <1>1, <2>4, LineBlock DEF IsOpen
  <2>11. /\ read'[i] = read[i] /\ read'[j] = read[j] /\ ServersBefore(j)' = ServersBefore(j)
         /\ Ordinal(i)' = Ordinal(i) /\ (o # 0 => Ordinal(o)' = Ordinal(o))
    BY <1>1, <2>1, <2>4, <2>7, OrdinalGrows
  <2>12. MeantIn(read[i].block, i, o, read[j].name, ServersBefore(j))'
         = MeantIn(read[i].block, i, o, read[j].name, ServersBefore(j))
    BY <2>8, <2>10, <2>11 DEF MeantIn, LegalIn, Blocks
  <2> QED
    BY <2>1, <2>2, <2>3, <2>9, <2>11, <2>12
<1> QED
  BY <1>4, <1>5

\* The key a new setting is meant for.
LEMMA MeantNew ==
  ASSUME NEW l, NEW new, Grows(l, new), l.kind = "pair",
         NEW i \in 1 .. Last, NEW o \in 0 .. Last, Inner(new) = i, Inner(i) = o
  PROVE  LET b == read[i].block
             no == IF l.name = SERVER THEN Cardinality(Servers(i, Last)) ELSE 0
         IN  /\ b \in {"global", "filter"} => Meant(new)' = Key(b, 0, 0, l.name, 0)
             /\ b = "upstream" => Meant(new)' = Key("upstream", Ordinal(i), 0, l.name, 0)
             /\ b = "proxy" /\ o # 0 => Meant(new)' = Key("proxy", Ordinal(o), Ordinal(i), l.name, no)
             /\ b = "default" /\ o = 0 => Meant(new)' = Key("default", 0, 0, l.name, no)
             /\ b = "default" /\ o # 0 => Meant(new)' = Key("updefault", Ordinal(o), 0, l.name, no)
<1>1. /\ Last \in Nat /\ new = Last + 1 /\ new \in 1 .. new /\ i \in 1 .. new
      /\ read'[i] = read[i] /\ read'[new] = l
  BY OldLines
<1>2. Inner(new)' = i /\ Inner(i)' = o
  BY <1>1, AroundOld
<1>3. Meant(new)' = MeantIn(read[i].block, i, o, read[new].name, ServersBefore(new))'
  BY <1>2, MeantNow
<1>4. /\ ServersBefore(new)' = Cardinality(Servers(i, Last))
      /\ Ordinal(i)' = Ordinal(i) /\ (o # 0 => Ordinal(o)' = Ordinal(o))
  <2>1. o # 0 => o \in 1 .. Last
    BY <1>1
  <2> QED
    BY <2>1, OrdinalGrows
<1> QED
  BY <1>1, <1>3, <1>4 DEF MeantIn

\* The dictionary is left alone.
LEMMA ChainsKept ==
  ASSUME UNCHANGED dict, NewestFirst, OneForKey
  PROVE  NewestFirst' /\ OneForKey'
<1>1. links' = links /\ items' = items
  BY DEF dict
<1>2. Linked' = Linked /\ Heads' = Heads /\ \A n : HeadOf(n)' = HeadOf(n)
  BY <1>1 DEF Linked, Heads, HeadOf, Item, getkey
<1>3. \A n : Older(n)' = Older(n)
  BY <1>2 DEF Older
<1>4. NewestFirst'
  BY <1>1, <1>2, <1>3 DEF NewestFirst
<1>5. OneForKey'
  BY <1>1 DEF OneForKey
<1> QED
  BY <1>4, <1>5

\* A line that is no setting, or none at all.
LEMMA KeptOld ==
  ASSUME UNCHANGED dict, Kept, Pairs' = Pairs,
         \A j \in Pairs : Inner(j)' = Inner(j) /\ Meant(j)' = Meant(j) /\ read'[j] = read[j]
  PROVE  Kept'
<1>1. items' = items
  BY DEF dict
<1>2. \A j \in Pairs' : Inner(j)' # 0
  BY DEF Kept
<1>3. \A j \in Pairs' : \E a \in DOMAIN items' : items'[a] = [var |-> Meant(j)', value |-> read'[j].value]
  <2> SUFFICES ASSUME NEW j \in Pairs
               PROVE  \E a \in DOMAIN items : items[a] = [var |-> Meant(j)', value |-> read'[j].value]
    BY <1>1
  <2>1. PICK a \in DOMAIN items : items[a] = [var |-> Meant(j), value |-> read[j].value]
    BY DEF Kept
  <2> QED
    BY <2>1
<1>4. \A a \in DOMAIN items' : \E j \in Pairs' : items'[a].var = Meant(j)'
  <2> SUFFICES ASSUME NEW a \in DOMAIN items PROVE \E j \in Pairs : items[a].var = Meant(j)'
    BY <1>1
  <2>1. PICK j \in Pairs : items[a].var = Meant(j)
    BY DEF Kept
  <2> QED
    BY <2>1
<1>5. Len(items') = Cardinality(Pairs')
  BY <1>1 DEF Kept
<1> QED
  BY <1>2, <1>3, <1>4, <1>5 DEF Kept

\* Nothing is read into the program's settings before the end.
LEMMA ReadLater ==
  ASSUME SettingsRead, status = "reading", status' # "0", g_global_conf' = g_global_conf
  PROVE  SettingsRead'
<1>1. \A k \in Names : g_global_conf[k] = NoValue
  BY DEF SettingsRead
<1> QED
  BY <1>1 DEF SettingsRead

\* A setting goes into the dictionary under the key it is meant for.
LEMMA KeptPair ==
  ASSUME NEW l, NEW new, Grows(l, new), l.kind = "pair", LegalNesting, Kept,
         DictTypeOK, DictTypeOK',
         Len(items') = Len(items) + 1,
         items'[Len(items) + 1] = [var |-> Meant(new)', value |-> l.value],
         \A a \in DOMAIN items : items'[a] = items[a],
         Inner(new) # 0
  PROVE  Kept'
<1>1. /\ Last \in Nat /\ new = Last + 1 /\ new \in 1 .. new /\ read'[new] = l
  BY OldLines
<1>2. /\ Pairs' = Pairs \cup {new} /\ Pairs \in SUBSET (1 .. Last)
      /\ \A j \in Pairs : Inner(j)' = Inner(j) /\ Meant(j)' = Meant(j) /\ read'[j] = read[j]
  BY MeantOld DEF Kept
<1>3. PICK N \in Nat : N = Len(items)
  BY DEF DictTypeOK
<1>4. DOMAIN items = 1 .. N /\ DOMAIN items' = 1 .. N + 1 /\ N + 1 \in 1 .. N + 1
      /\ \A a : a \in 1 .. N + 1 <=> a \in 1 .. N \/ a = N + 1
  BY <1>3 DEF DictTypeOK
<1>5. \A j \in Pairs' : Inner(j)' # 0
  <2>1. Inner(new)' = Inner(new)
    BY <1>1, AroundOld
  <2> QED
    BY <1>2, <2>1 DEF Kept
<1>6. \A j \in Pairs' : \E a \in DOMAIN items' : items'[a] = [var |-> Meant(j)', value |-> read'[j].value]
  <2>1. ASSUME NEW j \in Pairs
        PROVE  \E a \in DOMAIN items' : items'[a] = [var |-> Meant(j)', value |-> read'[j].value]
    <3>1. PICK a \in DOMAIN items : items[a] = [var |-> Meant(j), value |-> read[j].value]
      BY DEF Kept
    <3>2. a \in DOMAIN items' /\ items'[a] = items[a]
      BY <1>4, <3>1
    <3> QED
      BY <1>2, <3>1, <3>2
  <2>2. \E a \in DOMAIN items' : items'[a] = [var |-> Meant(new)', value |-> read'[new].value]
    BY <1>1, <1>3, <1>4
  <2> QED
    BY <1>2, <2>1, <2>2
<1>7. \A a \in DOMAIN items' : \E j \in Pairs' : items'[a].var = Meant(j)'
  <2>1. ASSUME NEW a \in DOMAIN items PROVE \E j \in Pairs' : items'[a].var = Meant(j)'
    <3>1. PICK j \in Pairs : items[a].var = Meant(j)
      BY DEF Kept
    <3> QED
      BY <1>2, <3>1
  <2>2. \E j \in Pairs' : items'[N + 1].var = Meant(j)'
    <3>1. items'[N + 1].var = Meant(new)' /\ new \in Pairs'
      BY <1>2, <1>3
    <3> QED
      BY <3>1
  <2> QED
    BY <1>4, <2>1, <2>2
<1>8. Len(items') = Cardinality(Pairs')
  <2>1. new \notin Pairs /\ Last \in Int /\ 1 \in Int
    BY <1>1, <1>2
  <2>2. Cardinality(Pairs \cup {new}) = Cardinality(Pairs) + 1
    BY <1>2, <2>1, Counting
  <2> QED
    BY <1>2, <2>2 DEF Kept
<1> QED
  BY <1>5, <1>6, <1>7, <1>8 DEF Kept

-----------------------------------------------------------------------------
(* The steps. *)

\* What is said of the lines that start blocks, for one line more.
LEMMA BlockGrows ==
  ASSUME NEW l, NEW new, Grows(l, new), NEW i \in 1 .. Last
  PROVE  /\ IsOpen(i)' = IsOpen(i) /\ read'[i] = read[i]
         /\ Inner(i)' = Inner(i) /\ Ordinal(i)' = Ordinal(i)
         /\ i \in 0 .. Last /\ i \in 1 .. new
<1>1. Last \in Nat /\ new = Last + 1 /\ i \in 1 .. new
  BY OldLines
<1> QED
  BY <1>1, OldLines, AroundOld, OrdinalGrows

\* A block is opened: it stands where its flag says, alone or in the upstream.
LEMMA OpenNests ==
  ASSUME IInv, NestInv, NEW b \in Blocks, NEW f \in Flags, Opens(b, f),
         \/ b = "global" /\ f = "global" /\ MayOpenGlobal
         \/ b = "filter" /\ f = "filter" /\ MayOpenFilter
         \/ b = "upstream" /\ f = "upstream" /\ MayOpenUpstream
         \/ b = "proxy" /\ f = "proxy" /\ MayOpenProxy
         \/ /\ b = "default" /\ MayOpenDefault
            /\ f = IF open["upstream"] THEN "proxy_default" ELSE "host_default"
  PROVE  NestInv'
<1> DEFINE l == OpenLine(b)
<1>1. /\ read \in Seq(Lines) /\ status = "reading" /\ status' = "reading"
      /\ read' = Append(read, l) /\ l \in Lines /\ l.kind = "open" /\ l.block = b
      /\ num' = num /\ UNCHANGED dict /\ g_global_conf' = g_global_conf
      /\ open \in [Flags -> BOOLEAN] /\ open' = [open EXCEPT ![f] = TRUE]
      /\ num \in [Counts -> Nat]
  BY DEF Opens, Accept, IInv, TypeOK, Lines, OpenLine
<1>2. PICK new \in Nat : new = Len(read) + 1
  BY <1>1
<1>3. Grows(l, new)
  BY <1>1, <1>2 DEF Grows
<1> HIDE DEF l
<1>4. /\ Last \in Nat /\ new = Last + 1 /\ Last' = new /\ new \in Nat \ {0}
      /\ IsOpen(new)' /\ read'[new].block = b
  <2>1. /\ Last \in Nat /\ new = Last + 1 /\ Last' = new /\ new \in Nat \ {0}
        /\ read'[new] = l /\ IsOpen(new)' = (l.kind = "open")
    BY <1>3, OldLines
  <2>2. l.kind = "open" /\ l.block = b
    BY <1>1
  <2> QED
    BY <2>1, <2>2
<1>5. FlagsStack /\ CountersReset /\ LegalNesting /\ Kept /\ NewestFirst /\ OneForKey
      /\ SettingsRead /\ OneBlock
  BY <1>1 DEF IInv, NestInv
<1>6. \A i \in 0 .. Last : \A c :
         /\ Within(i, c, Last)' = Within(i, c, Last) \cup (IF b = c /\ Inner(new) = i THEN {new} ELSE {})
         /\ Cardinality(Within(i, c, Last))' = Cardinality(Within(i, c, Last)) + Bit(b = c /\ Inner(new) = i)
  BY <1>1, <1>3, WithinGrows
<1>7. /\ \A c : Within(new, c, Last)' = {}
      /\ Cardinality(Servers(new, Last))' = 0
      /\ \A c : Cardinality(Within(new, c, Last))' = 0
  <2>1. /\ \A c : Within(new, c, Last)' = {}
        /\ Cardinality(Servers(new, Last))' = 0
    BY <1>3, WithinGrows
  <2>2. \A c : Cardinality(Within(new, c, Last))' = Cardinality(Within(new, c, Last)')
    OBVIOUS
  <2> QED
    BY <2>1, <2>2, FS_EmptySet
<1>8. /\ Around(new) = {} => InOne(new)' /\ Inner(new) = 0
      /\ \A i : InOne(i) => InTwo(i, new)' /\ Inner(new) = i /\ i \in 1 .. Last
  BY <1>1, <1>3, <1>4, StackMoves, Innermost
<1>9. Inner(new)' = Inner(new) /\ Ordinal(new)' = Cardinality(Within(Inner(new), b, Last))
  <2>1. new \in 1 .. new
    BY <1>4
  <2> QED
    BY <1>1, <1>3, <2>1, AroundOld, OrdinalGrows
\* Where the reader stands before.
<1>10. f \in {"global", "filter", "upstream", "host_default"} => Nothing /\ Around(new) = {}
  <2>1. f \in {"global", "filter", "upstream", "host_default"} => Nothing
    BY <1>1 DEF MayOpenGlobal, MayOpenFilter, MayOpenUpstream, MayOpenProxy, MayOpenDefault, Nothing, Closed
  <2> QED
    BY <1>4, <1>5, <2>1 DEF FlagsStack
<1>11. ASSUME f \in {"proxy", "proxy_default"}
       PROVE  /\ open["upstream"] /\ ~open["proxy"] /\ ~open["proxy_default"]
              /\ \E i \in 1 .. Last : InUpstream(i) /\ InOne(i) /\ Inner(new) = i
  <2>1. open["upstream"] /\ Closed({"proxy", "proxy_default"})
    BY <1>11 DEF MayOpenProxy, MayOpenDefault, Closed
  <2>2. PICK i \in 1 .. Last : InUpstream(i)
    BY <1>5, <2>1 DEF FlagsStack
  <2>3. InOne(i)
    BY <2>1, <2>2 DEF InUpstream
  <2> QED
    BY <1>8, <2>1, <2>2, <2>3 DEF Closed
<1>12. f \in {"global", "filter", "upstream", "host_default", "proxy", "proxy_default"}
  OBVIOUS
<1>13. Closed({"proxy", "proxy_default", "host_default"}) /\ num["server"] = 0
  <2>1. Closed({"proxy", "proxy_default", "host_default"})
    BY <1>5, <1>10, <1>11, <1>12 DEF Nothing, Closed, OneBlock
  <2> QED
    BY <1>5, <2>1 DEF CountersReset
<1>14. LegalNesting'
  <2>1. b \in {"global", "filter"} => Inner(new) = 0 /\ Within(0, b, Last) = {}
    BY <1>5, <1>8, <1>10 DEF CountersReset, MayOpenGlobal, MayOpenFilter, Nothing, Closed
  <2>2. b = "upstream" => Inner(new) = 0
    BY <1>8, <1>10
  <2>3. b = "proxy" => Inner(new) \in 1 .. Last /\ read[Inner(new)].block = "upstream"
    BY <1>11 DEF InUpstream
  <2>4. ASSUME b = "default"
        PROVE  Inner(new) = 0 \/ /\ Inner(new) \in 1 .. Last /\ read[Inner(new)].block = "upstream"
                                 /\ Within(Inner(new), b, Last) = {}
    <3>1. CASE f = "host_default"
      BY <1>8, <1>10, <3>1
    <3>2. CASE f = "proxy_default"
      <4>1. Closed({"proxy_default", "proxy_default_ok"})
        BY <2>4 DEF MayOpenDefault, Closed
      <4> QED
        BY <1>11, <2>4, <3>2, <4>1 DEF InUpstream
    <3> QED
      BY <2>4, <3>1, <3>2
  <2> QED
    BY <1>1, <1>3, <1>5, <2>1, <2>2, <2>3, <2>4, NestingGrows
<1>15. CountersReset'
  <2>1. ~open'["upstream"] => num'["proxy"] = 0 /\ ~open'["proxy_default_ok"]
    BY <1>1, <1>5, <1>12 DEF CountersReset
  <2>2. num'["server"] = 0
    BY <1>1, <1>13
  <2>3. Cardinality(Within(0, "upstream", Last))' = num'["upstream"] + Bit(open'["upstream"])
    <3>1. Cardinality(Within(0, "upstream", Last)) = num["upstream"] + Bit(open["upstream"])
      BY <1>5 DEF CountersReset
    <3>2. Cardinality(Within(0, "upstream", Last))'
          = Cardinality(Within(0, "upstream", Last)) + Bit(b = "upstream" /\ Inner(new) = 0)
      BY <1>4, <1>6
    <3>3. CASE f = "upstream"
      <4>1. b = "upstream" /\ Inner(new) = 0 /\ ~open["upstream"] /\ open'["upstream"]
        BY <1>1, <1>8, <1>10, <3>3 DEF Nothing, Closed
      <4> QED
        BY <1>1, <3>1, <3>2, <4>1 DEF Bit
    <3>4. CASE f # "upstream"
      <4>1. b # "upstream" /\ open'["upstream"] = open["upstream"]
        BY <1>1, <3>4
      <4> QED
        BY <1>1, <3>1, <3>2, <4>1 DEF Bit
    <3> QED
      BY <3>3, <3>4
  <2>4. ASSUME NEW c \in {"global", "filter"}, NEW ok \in Flags, ok = IF c = "global" THEN "global_ok" ELSE "filter_ok",
               ~open'[c], ~open'[ok]
        PROVE  Within(0, c, Last)' = {}
    <3>1. c \in Flags /\ f # c /\ b # c /\ ~open[c] /\ ~open[ok]
      BY <1>1, <1>12, <2>4
    <3>2. Within(0, c, Last) = {}
      BY <1>5, <2>4, <3>1 DEF CountersReset, Closed
    <3> QED
      BY <1>4, <1>6, <3>1, <3>2
  <2>5. "global_ok" \in Flags /\ "filter_ok" \in Flags
    OBVIOUS
  <2> QED
    BY <2>1, <2>2, <2>3, <2>4, <2>5 DEF CountersReset, Closed
<1>16. FlagsStack'
  <2>1. ~Nothing'
    BY <1>1, <1>12 DEF Nothing, Closed
  <2>2. ASSUME NEW g \in {"global", "filter", "host_default"}, open'[g]
        PROVE  \E i \in 1 .. Last' :
                  /\ InOne(i)' /\ IsOpen(i)' /\ read'[i].block = KindOf(g) /\ Inner(i)' = 0
                  /\ g = "host_default" => Cardinality(Servers(i, Last))' = num'["server"]
    <3>1. f = g
      BY <1>1, <1>10, <1>12, <2>2
         DEF MayOpenProxy, MayOpenDefault, Nothing, Closed
    <3>2. b = KindOf(g) /\ new \in 1 .. Last'
      BY <1>4, <3>1, <2>2 DEF KindOf
    <3>3. InOne(new)' /\ Inner(new)' = 0
      BY <1>8, <1>9, <1>10, <3>1
    <3> QED
      BY <1>1, <1>4, <1>7, <1>13, <3>2, <3>3
  <2>3. ASSUME open'["upstream"]
        PROVE  \E i \in 1 .. Last' : InUpstream(i)'
    <3>1. CASE f = "upstream"
      <4>1. Nothing /\ Inner(new) = 0 /\ InOne(new)' /\ new \in 1 .. Last'
        BY <1>4, <1>8, <1>10, <3>1
      <4>2. /\ ~open'["proxy"] /\ ~open'["proxy_default"] /\ ~open["upstream"] /\ b = "upstream"
        BY <1>1, <3>1, <4>1 DEF Nothing, Closed
      <4>3. num["proxy"] = 0 /\ Cardinality(Within(0, "upstream", Last)) = num["upstream"]
        BY <1>1, <1>5, <4>2 DEF CountersReset, Bit
      <4>4. Ordinal(new)' = num'["upstream"] /\ Inner(new)' = 0
        BY <1>1, <1>9, <4>1, <4>2, <4>3
      <4>5. Cardinality(Within(new, "proxy", Last))' = num'["proxy"] + Bit(open'["proxy"])
        BY <1>1, <1>7, <4>2, <4>3 DEF Bit
      <4> QED
        BY <1>4, <1>7, <4>1, <4>2, <4>4, <4>5 DEF InUpstream
    <3>2. CASE f \in {"proxy", "proxy_default"}
      <4>1. PICK i \in 1 .. Last : InUpstream(i) /\ InOne(i) /\ Inner(new) = i
        BY <1>11, <3>2
      <4>2. InTwo(i, new)' /\ i \in 1 .. Last' /\ new \in i + 1 .. Last' /\ Inner(new)' = i
        BY <1>4, <1>8, <1>9, <4>1
      <4>3. /\ IsOpen(i)' /\ read'[i].block = "upstream" /\ Inner(i)' = 0
            /\ Ordinal(i)' = num'["upstream"] /\ i \in 0 .. Last
        BY <1>1, <1>3, <4>1, BlockGrows DEF InUpstream
      <4>4. /\ Cardinality(Within(i, "proxy", Last)) = num["proxy"]
            /\ ~open["proxy"] /\ ~open["proxy_default"]
        BY <1>1, <1>11, <3>2, <4>1 DEF InUpstream, Bit
      <4>5. b = KindOf(f)
        BY <3>2 DEF KindOf
      <4>6. CASE f = "proxy"
        <5>1. b = "proxy" /\ open'["proxy"] /\ ~open'["proxy_default"]
              /\ open'["proxy_default_ok"] = open["proxy_default_ok"]
          BY <1>1, <4>4, <4>6
        <5>2. Cardinality(Within(i, "proxy", Last))' = num'["proxy"] + Bit(open'["proxy"])
          <6>1. Cardinality(Within(i, "proxy", Last))' = Cardinality(Within(i, "proxy", Last)) + Bit(TRUE)
            BY <1>6, <4>1, <4>3, <5>1
          <6> QED
            BY <1>1, <4>4, <5>1, <6>1 DEF Bit
        <5>3. Closed({"proxy_default", "proxy_default_ok"})' => Within(i, "default", Last)' = {}
          BY <1>6, <4>1, <4>3, <4>4, <5>1 DEF InUpstream, Closed
        <5>4. Ordinal(new)' = num'["proxy"]
          BY <1>1, <1>9, <4>1, <4>4, <5>1
        <5>5. Cardinality(Servers(new, Last))' = num'["server"]
          BY <1>1, <1>7, <1>13
        <5>6. /\ InTwo(i, new)' /\ IsOpen(new)' /\ read'[new].block = KindOf("proxy")
              /\ new \in i + 1 .. Last'
          BY <1>4, <4>2, <4>5, <4>6
        <5>7. ~ Closed({"proxy", "proxy_default"})'
          BY <5>1 DEF Closed
        <5>8. InUpstream(i)'
          BY <4>3, <5>1, <5>2, <5>3, <5>4, <5>5, <5>6, <5>7 DEF InUpstream
        <5> QED
          BY <4>2, <5>8
      <4>7. CASE f = "proxy_default"
        <5>1. b = "default" /\ open'["proxy_default"] /\ ~open'["proxy"]
          BY <1>1, <4>4, <4>7
        <5>2. Cardinality(Within(i, "proxy", Last))' = num'["proxy"] + Bit(open'["proxy"])
          <6>1. Cardinality(Within(i, "proxy", Last))' = Cardinality(Within(i, "proxy", Last)) + Bit(FALSE)
            BY <1>6, <4>1, <4>3, <5>1
          <6> QED
            BY <1>1, <4>4, <5>1, <6>1 DEF Bit
        <5>3. Cardinality(Servers(new, Last))' = num'["server"]
          BY <1>1, <1>7, <1>13
        <5>4. /\ InTwo(i, new)' /\ IsOpen(new)' /\ read'[new].block = KindOf("proxy_default")
              /\ new \in i + 1 .. Last'
          BY <1>4, <4>2, <4>5, <4>7
        <5>5. /\ ~ Closed({"proxy", "proxy_default"})'
              /\ ~ Closed({"proxy_default", "proxy_default_ok"})'
          BY <5>1 DEF Closed
        <5>6. InUpstream(i)'
          BY <4>3, <5>1, <5>2, <5>3, <5>4, <5>5 DEF InUpstream
        <5> QED
          BY <4>2, <5>6
      <4> QED
        BY <3>2, <4>6, <4>7
    <3>3. CASE f \in {"global", "filter", "host_default"}
      BY <1>1, <1>10, <2>3, <3>3 DEF Nothing, Closed
    <3> QED
      BY <1>12, <3>1, <3>2, <3>3
  <2> QED
    BY <2>1, <2>2, <2>3 DEF FlagsStack
<1>17. Kept'
  <2>1. Pairs' = Pairs /\ \A j \in Pairs : Inner(j)' = Inner(j) /\ Meant(j)' = Meant(j) /\ read'[j] = read[j]
    BY <1>1, <1>3, <1>5, MeantOld DEF Kept
  <2> QED
    BY <1>1, <1>5, <2>1, KeptOld
<1>18. SettingsRead'
  BY <1>1, <1>5, ReadLater
<1> QED
  BY <1>1, <1>5, <1>14, <1>15, <1>16, <1>17, <1>18, ChainsKept DEF NestInv

\* A block is closed: what it stood in is left.
LEMMA CloseNests ==
  ASSUME IInv, NestInv, Close
  PROVE  NestInv'
<1> DEFINE l == CloseLine
<1>1. /\ read \in Seq(Lines) /\ status = "reading" /\ status' = "reading"
      /\ read' = Append(read, l) /\ l \in Lines /\ l.kind = "close"
      /\ UNCHANGED dict /\ g_global_conf' = g_global_conf
      /\ open \in [Flags -> BOOLEAN] /\ num \in [Counts -> Nat]
  <2>1. Accept(CloseLine) /\ UNCHANGED dict
    BY DEF Close, Closes, CloseGlobal, CloseFilter, CloseProxy, CloseProxyDefault,
           CloseUpstream, CloseHostDefault
  <2> QED
    BY <2>1 DEF Accept, IInv, TypeOK, Lines, CloseLine
<1>2. PICK new \in Nat : new = Len(read) + 1
  BY <1>1
<1>3. Grows(l, new)
  BY <1>1, <1>2 DEF Grows
<1> HIDE DEF l
<1>4. /\ Last \in Nat /\ new = Last + 1 /\ Last' = new
  BY <1>1, <1>3, OldLines
<1>5. FlagsStack /\ CountersReset /\ LegalNesting /\ Kept /\ NewestFirst /\ OneForKey
      /\ SettingsRead /\ OneBlock
  BY <1>1 DEF IInv, NestInv
<1>6. \A i \in 0 .. Last : \A c :
         /\ Within(i, c, Last)' = Within(i, c, Last)
         /\ Cardinality(Within(i, c, Last))' = Cardinality(Within(i, c, Last))
  <2> SUFFICES ASSUME NEW i \in 0 .. Last, NEW c
               PROVE  Within(i, c, Last)' = Within(i, c, Last)
    BY Zenon
  <2>1. Within(i, c, Last)' = Within(i, c, Last)
                 \cup (IF l.kind = "open" /\ l.block = c /\ Inner(new) = i THEN {new} ELSE {})
    BY <1>3, WithinGrows
  <2> QED
    BY <1>1, <2>1
<1>7. /\ \A i : InOne(i) => Around(Last + 1)' = {}
      /\ \A i, j : InTwo(i, j) => InOne(i)'
  BY <1>1, <1>3, StackMoves
<1>8. Kept'
  <2>1. Pairs' = Pairs /\ \A j \in Pairs : Inner(j)' = Inner(j) /\ Meant(j)' = Meant(j) /\ read'[j] = read[j]
    BY <1>1, <1>3, <1>5, MeantOld DEF Kept
  <2> QED
    BY <1>1, <1>5, <2>1, KeptOld
<1>9. SettingsRead'
  BY <1>1, <1>5, ReadLater
<1>10. LegalNesting'
  BY <1>1, <1>3, <1>5, NestingGrows
<1>11. 0 \in 0 .. Last
  BY <1>4
<1>12. SUFFICES FlagsStack' /\ CountersReset'
  BY <1>1, <1>5, <1>8, <1>9, <1>10, ChainsKept DEF NestInv
\* The numbers, for what each of the closings does to them.
<1>13. /\ Cardinality(Within(0, "upstream", Last))' = num["upstream"] + Bit(open["upstream"])
       /\ Closed({"global", "global_ok"}) => Within(0, "global", Last)' = {}
       /\ Closed({"filter", "filter_ok"}) => Within(0, "filter", Last)' = {}
  BY <1>5, <1>6, <1>11 DEF CountersReset
\* A block on the outside: no other is open.
<1>14. ASSUME NEW f \in {"global", "filter", "host_default"}, open[f], open'[f] = FALSE,
              \A g \in Flags \ {f, "global_ok", "filter_ok", "proxy_default_ok"} : open'[g] = open[g]
       PROVE  FlagsStack'
  <2>1. Around(Last + 1)' = {}
    BY <1>5, <1>7, <1>14 DEF FlagsStack
  <2>2. /\ ~open["upstream"] /\ \A g \in {"global", "filter", "host_default"} : g # f => ~open[g]
    BY <1>5, <1>14 DEF OneBlock, Closed
  <2>3. /\ ~open'["upstream"] /\ \A g \in {"global", "filter", "host_default"} : ~open'[g]
    BY <1>14, <2>2
  <2> QED
    BY <2>1, <2>3 DEF FlagsStack
\* A block in the upstream.
<1>15. ASSUME NEW f \in {"proxy", "proxy_default"}, open[f], open["upstream"],
              open' \in [Flags -> BOOLEAN],
              \A g \in Flags \ {f, "proxy_default_ok"} : open'[g] = open[g], ~open'[f],
              f = "proxy" => open'["proxy_default_ok"] = open["proxy_default_ok"],
              f = "proxy_default" => open'["proxy_default_ok"],
              num'["upstream"] = num["upstream"],
              num'["proxy"] = num["proxy"] + Bit(f = "proxy")
       PROVE  FlagsStack'
  <2>1. PICK i \in 1 .. Last : InUpstream(i)
    BY <1>5, <1>15 DEF FlagsStack
  <2>2. InOne(i)'
    BY <1>7, <1>15, <2>1 DEF InUpstream
  <2>3. /\ ~open["global"] /\ ~open["filter"] /\ ~open["host_default"]
        /\ \A g \in {"proxy", "proxy_default"} : g # f => ~open[g]
    BY <1>5, <1>15 DEF OneBlock, Closed
  <2>4. /\ ~open'["global"] /\ ~open'["filter"] /\ ~open'["host_default"] /\ open'["upstream"]
        /\ ~open'["proxy"] /\ ~open'["proxy_default"]
    BY <1>15, <2>3
  <2>5. /\ IsOpen(i)' /\ read'[i].block = "upstream" /\ Inner(i)' = 0
        /\ Ordinal(i)' = num'["upstream"] /\ i \in 0 .. Last /\ i \in 1 .. Last'
    BY <1>3, <1>4, <1>15, <2>1, BlockGrows DEF InUpstream
  <2>6. Cardinality(Within(i, "proxy", Last))' = num'["proxy"] + Bit(open'["proxy"])
    <3>1. Cardinality(Within(i, "proxy", Last)) = num["proxy"] + Bit(open["proxy"])
      BY <2>1 DEF InUpstream
    <3>2. open["proxy"] = (f = "proxy")
      BY <1>1, <1>15, <2>3
    <3> QED
      BY <1>1, <1>6, <1>15, <2>4, <2>5, <3>1, <3>2 DEF Bit
  <2>7. Closed({"proxy_default", "proxy_default_ok"})' => Within(i, "default", Last)' = {}
    BY <1>6, <1>15, <2>1, <2>3, <2>5 DEF InUpstream, Closed
  <2>8. InUpstream(i)'
    BY <2>2, <2>4, <2>5, <2>6, <2>7 DEF InUpstream
  <2> QED
    BY <2>4, <2>5, <2>8 DEF FlagsStack, Nothing, Closed
<1> USE DEF Closes
<1>16. CASE CloseGlobal
  <2>1. open["global"] /\ open' = [open EXCEPT !["global"] = FALSE, !["global_ok"] = TRUE] /\ num' = num
    BY <1>16 DEF CloseGlobal
  <2>2. FlagsStack'
    BY <1>1, <1>14, <2>1
  <2>3. CountersReset'
    BY <1>1, <1>5, <1>13, <2>1 DEF CountersReset, Closed
  <2> QED
    BY <2>2, <2>3
<1>17. CASE CloseFilter
  <2>1. open["filter"] /\ open' = [open EXCEPT !["filter"] = FALSE, !["filter_ok"] = TRUE] /\ num' = num
    BY <1>17 DEF CloseFilter
  <2>2. FlagsStack'
    BY <1>1, <1>14, <2>1
  <2>3. CountersReset'
    BY <1>1, <1>5, <1>13, <2>1 DEF CountersReset, Closed
  <2> QED
    BY <2>2, <2>3
<1>18. CASE CloseProxy
  <2>1. /\ open["proxy"] /\ open' = [open EXCEPT !["proxy"] = FALSE]
        /\ num' = [num EXCEPT !["proxy"] = @ + 1, !["server"] = 0]
        /\ open["upstream"]
    BY <1>5, <1>18 DEF CloseProxy, OneBlock
  <2>2. /\ num'["upstream"] = num["upstream"] /\ num'["proxy"] = num["proxy"] + Bit(TRUE)
        /\ num'["server"] = 0
    BY <1>1, <2>1 DEF Bit
  <2>3. FlagsStack'
    BY <1>1, <1>15, <2>1, <2>2
  <2>4. CountersReset'
    BY <1>1, <1>5, <1>13, <2>1, <2>2 DEF CountersReset, Closed
  <2> QED
    BY <2>3, <2>4
<1>19. CASE CloseProxyDefault
  <2>1. /\ open["proxy_default"]
        /\ open' = [open EXCEPT !["proxy_default"] = FALSE, !["proxy_default_ok"] = TRUE]
        /\ num' = [num EXCEPT !["server"] = 0]
        /\ open["upstream"]
    BY <1>5, <1>19 DEF CloseProxyDefault, OneBlock
  <2>2. /\ num'["upstream"] = num["upstream"] /\ num'["proxy"] = num["proxy"] + Bit(FALSE)
        /\ num'["server"] = 0
    BY <1>1, <2>1 DEF Bit
  <2>3. FlagsStack'
    BY <1>1, <1>15, <2>1, <2>2
  <2>4. CountersReset'
    BY <1>1, <1>5, <1>13, <2>1, <2>2 DEF CountersReset, Closed
  <2> QED
    BY <2>3, <2>4
<1>20. CASE CloseUpstream
  <2>1. /\ open["upstream"] /\ ~open["proxy"] /\ ~open["proxy_default"]
        /\ ~open["global"] /\ ~open["filter"]
        /\ open' = [open EXCEPT !["upstream"] = FALSE, !["proxy_default_ok"] = FALSE]
        /\ num' = [num EXCEPT !["upstream"] = @ + 1, !["proxy"] = 0]
    BY <1>20 DEF CloseUpstream, Closed
  <2>2. /\ num'["upstream"] = num["upstream"] + 1 /\ num'["proxy"] = 0
        /\ num'["server"] = num["server"]
    BY <1>1, <2>1
  <2>3. PICK i \in 1 .. Last : InUpstream(i)
    BY <1>5, <2>1 DEF FlagsStack
  <2>4. InOne(i)
    BY <2>1, <2>3 DEF InUpstream, Closed
  <2>5. Around(Last + 1)' = {}
    BY <1>7, <2>4
  <2>6. ~open["host_default"]
    BY <1>5, <2>1 DEF OneBlock, Closed
  <2>7. FlagsStack'
    BY <1>1, <2>1, <2>5, <2>6 DEF FlagsStack
  <2>8. Cardinality(Within(0, "upstream", Last))' = num'["upstream"] + Bit(open'["upstream"])
    BY <1>1, <1>13, <2>1, <2>2 DEF Bit
  <2>9. CountersReset'
    BY <1>1, <1>5, <1>13, <2>1, <2>2, <2>8 DEF CountersReset, Closed
  <2> QED
    BY <2>7, <2>9
<1>21. CASE CloseHostDefault
  <2>1. /\ open["host_default"] /\ open' = [open EXCEPT !["host_default"] = FALSE]
        /\ num' = [num EXCEPT !["server"] = 0]
    BY <1>21 DEF CloseHostDefault
  <2>2. FlagsStack'
    BY <1>1, <1>14, <2>1
  <2>3. /\ num'["upstream"] = num["upstream"] /\ num'["proxy"] = num["proxy"]
        /\ num'["server"] = 0
    BY <1>1, <2>1
  <2>4. CountersReset'
    BY <1>1, <1>5, <1>13, <2>1, <2>3 DEF CountersReset, Closed
  <2> QED
    BY <2>2, <2>4
<1> QED
  BY <1>16, <1>17, <1>18, <1>19, <1>20, <1>21 DEF Close

\* A setting: the key that parse builds from its flags and counters is the one
\* that its nesting gives it, and no other setting has it.
LEMMA PairNests ==
  ASSUME IInv, NestInv, NEW k \in Names \cup {SERVER}, NEW v \in Texts[k], Pair(k, v)
  PROVE  NestInv'
<1> DEFINE l == PairLine(k, v)
<1>1. /\ read \in Seq(Lines) /\ status = "reading" /\ status' = "reading"
      /\ read' = Append(read, l) /\ l \in Lines /\ l.kind = "pair" /\ l.name = k /\ l.value = v
      /\ g_global_conf' = g_global_conf /\ open' = open /\ Len(read) < MaxLines
      /\ open \in [Flags -> BOOLEAN] /\ num \in [Counts -> Nat] /\ v \in Values
      /\ dict_insert(KeyFor(k), v) /\ Count(k)
  BY TextAssumption DEF Pair, Accept, IInv, TypeOK, Lines, PairLine
<1>2. PICK new \in Nat : new = Len(read) + 1
  BY <1>1
<1>3. Grows(l, new)
  BY <1>1, <1>2 DEF Grows
<1> HIDE DEF l
<1>4. /\ Last \in Nat /\ new = Last + 1 /\ Last' = new
  BY <1>1, <1>3, OldLines
<1>5. FlagsStack /\ CountersReset /\ LegalNesting /\ Kept /\ NewestFirst /\ OneForKey
      /\ SettingsRead /\ OneBlock /\ DictTypeOK
  BY <1>1 DEF IInv, NestInv, TypeOK
<1>6. DictTypeOK'
  BY PairStep DEF IInv, TypeOK
<1>7. /\ \A i \in 0 .. Last : \A c : /\ Within(i, c, Last)' = Within(i, c, Last)
                                     /\ Cardinality(Within(i, c, Last))' = Cardinality(Within(i, c, Last))
      /\ \A i \in 0 .. Last : Cardinality(Servers(i, Last))'
               = Cardinality(Servers(i, Last)) + Bit(k = SERVER /\ Inner(new) = i)
  <2>1. ASSUME NEW i \in 0 .. Last, NEW c
        PROVE  /\ Within(i, c, Last)' = Within(i, c, Last)
               /\ Cardinality(Servers(i, Last))'
                  = Cardinality(Servers(i, Last)) + Bit(k = SERVER /\ Inner(new) = i)
    <3>1. /\ Within(i, c, Last)' = Within(i, c, Last)
                   \cup (IF l.kind = "open" /\ l.block = c /\ Inner(new) = i THEN {new} ELSE {})
          /\ Cardinality(Servers(i, Last))' = Cardinality(Servers(i, Last))
                   + Bit(l.kind = "pair" /\ l.name = SERVER /\ Inner(new) = i)
      BY <1>3, WithinGrows
    <3> QED
      BY <1>1, <3>1
  <2> QED
    BY <2>1, Zenon
<1>8. /\ \A i : InOne(i) => InOne(i)' /\ Inner(new) = i /\ i \in 1 .. Last
      /\ \A i, j : InTwo(i, j) =>
            InTwo(i, j)' /\ Inner(new) = j /\ Inner(j) = i /\ i \in 1 .. Last /\ j \in i + 1 .. Last
  BY <1>1, <1>3, <1>4, StackMoves, Innermost
<1>9. LegalNesting'
  BY <1>1, <1>3, <1>5, NestingGrows
<1>10. SettingsRead'
  BY <1>1, <1>5, ReadLater
\* The counters.
<1>11. /\ num'["upstream"] = num["upstream"] /\ num'["proxy"] = num["proxy"]
       /\ num'["server"] = num["server"]
             + Bit(k = SERVER /\ (open["proxy"] \/ open["proxy_default"] \/ open["host_default"]))
  BY <1>1 DEF Count, Closed, Bit
<1>12. CountersReset'
  <2>1. 0 \in 0 .. Last
    BY <1>4
  <2>2. Closed({"proxy", "proxy_default", "host_default"}) => num'["server"] = num["server"]
    BY <1>1, <1>11 DEF Closed, Bit
  <2> QED
    BY <1>1, <1>5, <1>7, <1>11, <2>1, <2>2 DEF CountersReset, Closed
\* The block the setting stands in.
<1>13. ASSUME NEW f \in {"global", "filter", "host_default"}, open[f]
       PROVE  \E i \in 1 .. Last :
                 /\ InOne(i) /\ IsOpen(i) /\ read[i].block = KindOf(f) /\ Inner(i) = 0
                 /\ f = "host_default" => Cardinality(Servers(i, Last)) = num["server"]
  BY <1>5, <1>13 DEF FlagsStack
<1>14. FlagsStack'
  <2>1. ~Nothing'
    BY <1>1 DEF Pair, Settable, Nothing, Closed
  <2>2. ASSUME NEW f \in {"global", "filter", "host_default"}, open'[f]
        PROVE  \E i \in 1 .. Last' :
                  /\ InOne(i)' /\ IsOpen(i)' /\ read'[i].block = KindOf(f) /\ Inner(i)' = 0
                  /\ f = "host_default" => Cardinality(Servers(i, Last))' = num'["server"]
    <3>1. PICK i \in 1 .. Last :
                 /\ InOne(i) /\ IsOpen(i) /\ read[i].block = KindOf(f) /\ Inner(i) = 0
                 /\ f = "host_default" => Cardinality(Servers(i, Last)) = num["server"]
      BY <1>1, <1>13, <2>2
    <3>2. /\ InOne(i)' /\ Inner(new) = i /\ IsOpen(i)' /\ read'[i] = read[i] /\ Inner(i)' = 0
          /\ i \in 0 .. Last /\ i \in 1 .. Last'
      BY <1>3, <1>4, <1>8, <3>1, BlockGrows
    <3>3. f = "host_default" => Cardinality(Servers(i, Last))' = num'["server"]
      BY <1>1, <1>7, <1>11, <2>2, <3>1, <3>2
    <3> QED
      BY <3>1, <3>2, <3>3
  <2>3. ASSUME open'["upstream"]
        PROVE  \E i \in 1 .. Last' : InUpstream(i)'
    <3>1. PICK i \in 1 .. Last : InUpstream(i)
      BY <1>1, <1>5, <2>3 DEF FlagsStack
    <3>2. /\ IsOpen(i)' /\ read'[i].block = "upstream" /\ Inner(i)' = 0
          /\ Ordinal(i)' = num'["upstream"] /\ i \in 0 .. Last /\ i \in 1 .. Last'
      BY <1>3, <1>4, <1>11, <3>1, BlockGrows DEF InUpstream
    <3>3. /\ Cardinality(Within(i, "proxy", Last))' = num'["proxy"] + Bit(open'["proxy"])
          /\ Closed({"proxy_default", "proxy_default_ok"})' => Within(i, "default", Last)' = {}
          /\ Closed({"proxy", "proxy_default"})' => InOne(i)'
      BY <1>1, <1>7, <1>8, <1>11, <3>1, <3>2 DEF InUpstream, Closed
    <3>4. ASSUME NEW f \in {"proxy", "proxy_default"}, open'[f]
          PROVE  \E j \in i + 1 .. Last' :
                    /\ InTwo(i, j)' /\ IsOpen(j)' /\ read'[j].block = KindOf(f)
                    /\ Cardinality(Servers(j, Last))' = num'["server"]
                    /\ f = "proxy" => Ordinal(j)' = num'["proxy"]
      <4>1. PICK j \in i + 1 .. Last :
                    /\ InTwo(i, j) /\ IsOpen(j) /\ read[j].block = KindOf(f)
                    /\ Cardinality(Servers(j, Last)) = num["server"]
                    /\ f = "proxy" => Ordinal(j) = num["proxy"]
        BY <1>1, <3>1, <3>4 DEF InUpstream
      <4>2. j \in 1 .. Last /\ j \in i + 1 .. Last' /\ j \in 0 .. Last
        BY <1>4, <4>1
      <4>3. /\ InTwo(i, j)' /\ Inner(new) = j /\ IsOpen(j)' /\ read'[j] = read[j]
            /\ Ordinal(j)' = Ordinal(j)
        BY <1>3, <1>8, <4>1, <4>2, BlockGrows
      <4>4. Cardinality(Servers(j, Last))' = num'["server"]
        BY <1>1, <1>7, <1>11, <3>4, <4>1, <4>2, <4>3
      <4> QED
        BY <1>11, <4>1, <4>2, <4>3, <4>4
    <3> QED
      BY <3>2, <3>3, <3>4, Zenon DEF InUpstream
  <2> QED
    BY <2>1, <2>2, <2>3 DEF FlagsStack
\* The key.
<1>15. Meant(new)' = KeyFor(k) /\ Inner(new) # 0
  <2> DEFINE no == IF k = SERVER THEN num["server"] ELSE 0
  <2>1. ASSUME NEW f \in {"global", "filter", "host_default"}, open[f]
        PROVE  Meant(new)' = KeyFor(k) /\ Inner(new) # 0
    <3>1. PICK i \in 1 .. Last :
                 /\ InOne(i) /\ read[i].block = KindOf(f) /\ Inner(i) = 0
                 /\ f = "host_default" => Cardinality(Servers(i, Last)) = num["server"]
      BY <1>13, <2>1
    <3>2. Inner(new) = i /\ 0 \in 0 .. Last /\ Inner(new) # 0
      BY <1>4, <1>8, <3>1
    <3>3. KindOf(f) = IF f = "host_default" THEN "default" ELSE f
      BY DEF KindOf
    <3>4. Meant(new)' = IF f = "host_default" THEN Key("default", 0, 0, k, no) ELSE Key(f, 0, 0, k, 0)
      BY <1>1, <1>3, <3>1, <3>2, <3>3, MeantNew
    <3>5. KeyFor(k) = IF f = "host_default" THEN Key("default", 0, 0, k, no) ELSE Key(f, 0, 0, k, 0)
      BY <1>1, <1>5, <2>1 DEF KeyFor, OneBlock, Closed
    <3> QED
      BY <3>2, <3>4, <3>5
  <2>2. ASSUME open["upstream"]
        PROVE  Meant(new)' = KeyFor(k) /\ Inner(new) # 0
    <3>1. PICK i \in 1 .. Last : InUpstream(i)
      BY <1>5, <2>2 DEF FlagsStack
    <3>2. /\ read[i].block = "upstream" /\ Inner(i) = 0 /\ Ordinal(i) = num["upstream"]
          /\ 0 \in 0 .. Last /\ i \in 0 .. Last /\ i # 0
      BY <1>4, <3>1 DEF InUpstream
    <3>3. ~open["global"] /\ ~open["filter"] /\ ~(open["proxy"] /\ open["proxy_default"])
      BY <1>5, <2>2 DEF OneBlock, Closed
    <3>4. ASSUME NEW f \in {"proxy", "proxy_default"}, open[f]
          PROVE  Meant(new)' = KeyFor(k) /\ Inner(new) # 0
      <4>1. PICK j \in i + 1 .. Last :
                    /\ InTwo(i, j) /\ read[j].block = KindOf(f)
                    /\ Cardinality(Servers(j, Last)) = num["server"]
                    /\ f = "proxy" => Ordinal(j) = num["proxy"]
        BY <3>1, <3>4 DEF InUpstream
      <4>2. Inner(new) = j /\ Inner(j) = i /\ j \in 1 .. Last
        BY <1>4, <1>8, <4>1
      <4>3. KindOf(f) = IF f = "proxy" THEN "proxy" ELSE "default"
        BY DEF KindOf
      <4>4. Meant(new)' = IF f = "proxy" THEN Key("proxy", num["upstream"], num["proxy"], k, no)
                          ELSE Key("updefault", num["upstream"], 0, k, no)
        BY <1>1, <1>3, <3>2, <4>1, <4>2, <4>3, MeantNew
      <4>5. KeyFor(k) = IF f = "proxy" THEN Key("proxy", num["upstream"], num["proxy"], k, no)
                          ELSE Key("updefault", num["upstream"], 0, k, no)
        BY <1>1, <3>3, <3>4 DEF KeyFor, Closed
      <4> QED
        BY <4>2, <4>4, <4>5
    <3>5. ASSUME ~open["proxy"], ~open["proxy_default"]
          PROVE  Meant(new)' = KeyFor(k) /\ Inner(new) # 0
      <4>1. InOne(i)
        BY <3>1, <3>5 DEF InUpstream, Closed
      <4>2. Inner(new) = i
        BY <1>8, <4>1
      <4>3. Meant(new)' = Key("upstream", num["upstream"], 0, k, 0)
        BY <1>1, <1>3, <3>2, <4>2, MeantNew
      <4>4. KeyFor(k) = Key("upstream", num["upstream"], 0, k, 0)
        BY <2>2, <3>3, <3>5 DEF KeyFor, Closed
      <4> QED
        BY <3>2, <4>2, <4>3, <4>4
    <3> QED
      BY <1>1, <3>4, <3>5
  <2>3. \/ open["upstream"]
        \/ \E f \in {"global", "filter", "host_default"} : open[f]
    <3>1. ~Nothing
      BY DEF Pair, Settable
    <3> QED
      BY <1>5, <3>1 DEF Nothing, Closed, OneBlock
  <2> QED
    BY <2>1, <2>2, <2>3
\* The dictionary.
<1>16. KeyFor(k) \in Vars /\ Len(items) < MaxItems
  <2>1. KeyFor(k) \in Vars
    BY <1>1, KeyForVar
  <2>2. Len(items) <= Len(read) /\ Len(items) \in Nat /\ Len(read) \in Nat
    BY <1>1 DEF IInv, Allocated, TypeOK, DictTypeOK
  <2> QED
    BY <1>1, <2>1, <2>2, LineAssumption
<1>17. /\ NewestFirst' /\ OneForKey'
       /\ Len(items') = Len(items) + 1 /\ items'[Len(items) + 1] = [var |-> KeyFor(k), value |-> v]
       /\ \A a \in DOMAIN items : items'[a] = items[a]
  BY <1>1, <1>5, <1>16, InsertFirst
<1>18. Kept'
  BY <1>1, <1>3, <1>5, <1>6, <1>15, <1>17, KeptPair
<1> QED
  BY <1>1, <1>9, <1>10, <1>12, <1>14, <1>17, <1>18 DEF NestInv

\* The low bits of a number are an int that differs from it by whole turns.
LEMMA TruncatedIs ==
  \A v \in Int : Truncated(v) \in Ints /\ (v - Truncated(v)) % (2 * (INT_MAX + 1)) = 0
<1> SUFFICES ASSUME NEW v \in Int
             PROVE  Truncated(v) \in Ints /\ (v - Truncated(v)) % (2 * (INT_MAX + 1)) = 0
  OBVIOUS
<1>1. PICK h \in Nat \ {0} : h = INT_MAX + 1
  BY WidthAssumption
<1>2. PICK m \in Nat \ {0} : m = 2 * h
  OBVIOUS
<1>3. PICK q \in Int, r \in Int : v + h = m * q + r /\ 0 <= r /\ r < m /\ r = (v + h) % m
  <2>1. v + h \in Int
    OBVIOUS
  <2>2. \A a \in Int : \E q \in Int, r \in Int : a = m * q + r /\ 0 <= r /\ r < m /\ r = a % m
    OBVIOUS
  <2> QED
    BY <2>1, <2>2
<1>4. Truncated(v) = r - h
  <2>1. v + INT_MAX + 1 = v + h /\ 2 * (INT_MAX + 1) = m /\ r - INT_MAX - 1 = r - h
    BY <1>1, <1>2, WidthAssumption
  <2> QED
    BY <1>3, <2>1 DEF Truncated
<1>5. Truncated(v) \in Ints
  BY <1>1, <1>2, <1>3, <1>4, WidthAssumption DEF Ints
<1>6. v - Truncated(v) = m * q
  BY <1>3, <1>4
<1>7. (m * q) % m = 0
  OBVIOUS
<1> QED
  BY <1>1, <1>2, <1>5, <1>6, <1>7

\* A setting is found under the key it is meant for, and of a key that no setting
\* is meant for nothing is found.
LEMMA Looked ==
  ASSUME DictTypeOK, NewestFirst, OneForKey, Kept
  PROVE  /\ \A j \in Pairs : Meant(j) \in Vars => dict_search(Meant(j)) = read[j].value
         /\ \A key \in Vars : (\A j \in Pairs : Meant(j) # key) => dict_search(key) = NoValue
<1>1. ASSUME NEW j \in Pairs, Meant(j) \in Vars PROVE dict_search(Meant(j)) = read[j].value
  <2>1. PICK a \in DOMAIN items : items[a] = [var |-> Meant(j), value |-> read[j].value]
    BY DEF Kept
  <2>2. items[a].var = Meant(j) /\ items[a].value = read[j].value
    BY <2>1
  <2> QED
    BY <1>1, <2>2, LookupIs
<1>2. ASSUME NEW key \in Vars, \A j \in Pairs : Meant(j) # key PROVE dict_search(key) = NoValue
  <2>1. \A a \in DOMAIN items : items[a].var # key
    BY <1>2 DEF Kept
  <2>2. Found(key) = {}
    BY <2>1, LookupIs
  <2> QED
    BY <2>2 DEF dict_search
<1> QED
  BY <1>1, <1>2

\* A key that a setting is meant for is one.
LEMMA MeantVar ==
  ASSUME DictTypeOK, Kept, NEW j \in Pairs
  PROVE  Meant(j) \in Vars
<1>1. PICK a \in DOMAIN items : items[a] = [var |-> Meant(j), value |-> read[j].value]
  BY DEF Kept
<1>2. items[a] \in Items
  BY <1>1 DEF DictTypeOK
<1> QED
  BY <1>1, <1>2 DEF Items

\* The end of the file.
LEMMA EofReads ==
  ASSUME IInv, NestInv, Eof
  PROVE  SettingsRead'
<1>1. /\ DictTypeOK /\ NewestFirst /\ OneForKey /\ Kept /\ read \in Seq(Lines)
  BY DEF IInv, NestInv, TypeOK
<1>2. /\ status' = "0" /\ read' = read
      /\ g_global_conf' = [k \in Names |-> IF k \in IntNames THEN get_var_int(k) ELSE get_var_str(k)]
  BY DEF Eof, global_conf_init
<1>3. DOMAIN read' = DOMAIN read /\ \A j : IsPair(j)' = IsPair(j) /\ Meant(j)' = Meant(j)
  BY <1>2, HistoryKept
<1>4. SUFFICES ASSUME NEW k \in Names
               PROVE  LET given == {read[j].value : j \in Given(k)}
                          c == g_global_conf'[k]
                      IN  /\ given = {} => c = Default[k]
                          /\ \A v \in given :
                                CASE k \notin IntNames -> c = v
                                  [] k \in IntNames /\ (v = NoDigits \/ v \notin Longs) -> c = Default[k]
                                  [] OTHER -> c \in Ints /\ (v - c) % (2 * (INT_MAX + 1)) = 0
  <2>1. \A k : Given(k)' = Given(k)
    BY <1>3 DEF Given, Key
  <2>2. \A k : {read[j].value : j \in Given(k)}' = {read[j].value : j \in Given(k)}
    BY <1>2, <2>1
  <2> QED
    BY <1>2, <2>2, Zenon DEF SettingsRead, Ints, Longs
<1> DEFINE key == Key("global", 0, 0, k, 0)
           c == g_global_conf'[k]
<1>5. key \in Vars
  <2>1. 0 \in 0 .. MaxLines
    BY LineAssumption
  <2> QED
    BY <2>1, KeyAssumption DEF Key, Keys
<1>6. Given(k) = {j \in Pairs : Meant(j) = key}
  BY DEF Given, Pairs
<1>7. c = IF k \in IntNames THEN get_var_int(k) ELSE get_var_str(k)
  BY <1>2
<1> HIDE DEF c, key
<1>8. conf_get(k) = dict_search(key)
  BY DEF conf_get, key
<1>9. ASSUME Given(k) = {} PROVE c = Default[k]
  <2>1. dict_search(key) = NoValue
    BY <1>1, <1>5, <1>6, <1>9, Looked
  <2> QED
    BY <1>7, <1>8, <2>1 DEF get_var_int, get_var_str
<1>10. ASSUME NEW j \in Given(k), NEW v, v = read[j].value
       PROVE  CASE k \notin IntNames -> c = v
                [] k \in IntNames /\ (v = NoDigits \/ v \notin Longs) -> c = Default[k]
                [] OTHER -> c \in Ints /\ (v - c) % (2 * (INT_MAX + 1)) = 0
  <2>1. dict_search(key) = v
    BY <1>1, <1>5, <1>6, <1>10, Looked
  <2>2. v # NoValue
    <3>1. read[j] \in Lines /\ read[j].kind = "pair"
      BY <1>1, <1>6 DEF Pairs, IsPair
    <3>2. read[j].value \in Values
      BY <3>1 DEF Lines, OpenLine, CloseLine, PairLine
    <3> QED
      BY <1>10, <3>2, DictAssumption
  <2>3. CASE k \notin IntNames
    BY <1>7, <1>8, <2>1, <2>2, <2>3 DEF get_var_str
  <2>4. CASE k \in IntNames /\ (v = NoDigits \/ v \notin Longs)
    BY <1>7, <1>8, <2>1, <2>4 DEF get_var_int
  <2>5. CASE k \in IntNames /\ v # NoDigits /\ v \in Longs
    <3>1. c = Truncated(v)
      BY <1>7, <1>8, <2>1, <2>2, <2>5 DEF get_var_int
    <3>2. v \in Int
      BY <2>5, WidthAssumption DEF Longs
    <3> QED
      BY <2>5, <3>1, <3>2, TruncatedIs
  <2> QED
    BY <2>3, <2>4, <2>5
<1>11. {read[j].value : j \in Given(k)} = {} => Given(k) = {}
  OBVIOUS
<1> QED
  BY <1>9, <1>10, <1>11, Zenon DEF c

\* The next line by its number.
LEMMA NextAround == \A m : m = Last => Around(Last + 1) = Around(m + 1)
BY Zenon

\* No line is read: nor does the reader stand elsewhere.
LEMMA StandsKept ==
  ASSUME read' = read
  PROVE  /\ Around(Last + 1)' = Around(Last + 1)
         /\ \A i, b : /\ Within(i, b, Last)' = Within(i, b, Last)
                      /\ Cardinality(Within(i, b, Last))' = Cardinality(Within(i, b, Last))
                      /\ Cardinality(Servers(i, Last))' = Cardinality(Servers(i, Last))
         /\ \A i : InOne(i)' <=> InOne(i)
         /\ \A i, j : InTwo(i, j)' <=> InTwo(i, j)
<1>1. /\ Last' = Last
      /\ \A j : /\ IsOpen(j)' = IsOpen(j) /\ IsPair(j)' = IsPair(j) /\ Inner(j)' = Inner(j)
  BY HistoryKept
<1>2. \A i, j : Depth(i, j)' = Depth(i, j) /\ Around(j)' = Around(j)
  BY HistoryKept
<1>3. PICK n : n = Last /\ n = Last'
  BY <1>1
<1>4. Around(Last + 1)' = Around(Last + 1)
  <2>1. (\A m : m = Last => Around(Last + 1) = Around(m + 1))'
    BY NextAround, PTL
  <2> QED
    BY <1>2, <1>3, <2>1, Zenon
<1>5. ASSUME NEW i, NEW b
      PROVE  /\ Within(i, b, Last)' = Within(i, b, Last) /\ Servers(i, Last)' = Servers(i, Last)
             /\ Depth(i, Last)' = Depth(i, Last)
  <2>1. /\ Within(i, b, Last)' = {m \in i + 1 .. n : IsOpen(m)' /\ read'[m].block = b /\ Inner(m)' = i}
        /\ Servers(i, Last)' = {m \in i + 1 .. n : IsPair(m)' /\ read'[m].name = SERVER /\ Inner(m)' = i}
    BY <1>3, Zenon DEF Within, Servers
  <2>2. Within(i, b, Last)' = Within(i, b, Last) /\ Servers(i, Last)' = Servers(i, Last)
    BY <1>1, <1>3, <2>1 DEF Within, Servers
  <2>3. Depth(i, Last)' = Depth(i, n)' /\ Depth(i, Last) = Depth(i, n)
    BY <1>3, Zenon DEF Depth
  <2> QED
    BY <1>2, <2>2, <2>3
<1>6. \A i, b : /\ Cardinality(Within(i, b, Last))' = Cardinality(Within(i, b, Last)')
                /\ Cardinality(Servers(i, Last))' = Cardinality(Servers(i, Last)')
  OBVIOUS
<1>7. \A i : InOne(i)' <=> InOne(i)
  BY <1>4, <1>5 DEF InOne
<1>8. \A i, j : InTwo(i, j)' <=> InTwo(i, j)
  BY <1>1, <1>4, <1>5 DEF InTwo
<1> QED
  BY <1>4, <1>5, <1>6, <1>7, <1>8

\* conf_init ends: the lines and what is kept of them are as they were.
LEMMA EndNests ==
  ASSUME IInv, NestInv, UNCHANGED <<dict, read>>, SettingsRead',
         status' = "reading" => status = "reading" /\ UNCHANGED <<open, num>>
  PROVE  NestInv'
<1>1. NewestFirst' /\ OneForKey'
  BY ChainsKept DEF NestInv
<1>2. /\ Last' = Last /\ DOMAIN read' = DOMAIN read /\ Pairs' = Pairs /\ read' = read
      /\ \A j : /\ IsOpen(j)' = IsOpen(j) /\ IsPair(j)' = IsPair(j)
                /\ Inner(j)' = Inner(j) /\ Ordinal(j)' = Ordinal(j) /\ Meant(j)' = Meant(j)
  BY HistoryKept
<1>3. Kept'
  BY <1>2, KeptOld DEF NestInv
<1>4. LegalNesting'
  <2>1. LegalNesting
    BY DEF NestInv
  <2>2. \A i \in DOMAIN read : \A o : IsOpen(i) /\ Inner(i) = o => LegalIn(read[i].block, i, o)
    BY <2>1, LegalIs
  <2>3. \A i, o : LegalIn(read[i].block, i, o)' = LegalIn(read[i].block, i, o)
    BY <1>2 DEF LegalIn
  <2> QED
    BY <1>2, <2>2, <2>3, LegalNow
<1>5. ASSUME status' = "reading" PROVE FlagsStack' /\ CountersReset'
  <2>1. FlagsStack /\ CountersReset /\ open' = open /\ num' = num
    BY <1>5 DEF NestInv
  <2> QED
    <3>1. \A i : InUpstream(i)' <=> InUpstream(i)
      BY <1>2, <2>1, StandsKept DEF InUpstream, Closed
    <3>2. FlagsStack'
      BY <1>2, <2>1, <3>1, StandsKept DEF FlagsStack, Nothing, Closed
    <3>3. CountersReset'
      BY <2>1, StandsKept DEF CountersReset, Closed
    <3> QED
      BY <3>2, <3>3
<1> QED
  BY <1>1, <1>3, <1>4, <1>5 DEF NestInv

\* Before the first line there is nothing to stand for.
LEMMA InitNests == Init => NestInv
<1> SUFFICES ASSUME Init PROVE NestInv
  OBVIOUS
<1>1. /\ read = <<>> /\ items = <<>> /\ Len(items) = 0 /\ Last = 0 /\ DOMAIN read = {}
      /\ open = [b \in Flags |-> FALSE] /\ num = [c \in Counts |-> 0]
      /\ links.next = [n \in Nodes |-> n]
  BY DEF Init, dict_init, Last
<1>2. Around(Last + 1) = {}
  <2>1. \A i : i \notin 1 .. 1 - 1
    OBVIOUS
  <2> QED
    BY <1>1, <2>1 DEF Around
<1>3. \A b : Within(0, b, Last) = {} /\ Cardinality(Within(0, b, Last)) = 0
  <2>1. \A b : Within(0, b, Last) = {}
    <3>1. \A m : m \notin 0 + 1 .. 0
      OBVIOUS
    <3> QED
      BY <1>1, <3>1 DEF Within
  <2> QED
    BY <2>1, FS_EmptySet
<1>4. FlagsStack
  BY <1>1, <1>2 DEF FlagsStack
<1>5. CountersReset
  BY <1>1, <1>3 DEF CountersReset, Bit
<1>6. NewestFirst
  <2>1. Linked = Heads /\ Heads \subseteq Nodes
    BY <1>1, DictAssumption DEF Linked, Heads, Nodes
  <2>2. \A n : Older(n) = {}
    BY <2>1 DEF Older
  <2>3. \A n \in Linked : links.next[n] = HeadOf(n)
    BY <1>1, <2>1 DEF HeadOf
  <2> QED
    BY <2>2, <2>3 DEF NewestFirst
<1>7. OneForKey
  BY <1>1 DEF OneForKey
<1>8. Pairs = {}
  BY <1>1 DEF Pairs
<1>9. Kept
  BY <1>1, <1>8, FS_EmptySet DEF Kept
<1>10. LegalNesting
  BY <1>1 DEF LegalNesting
<1>11. SettingsRead
  BY DEF Init, SettingsRead
<1> QED
  BY <1>4, <1>5, <1>6, <1>7, <1>9, <1>10, <1>11 DEF NestInv

\* Every line read, accepted or refused, and the end of the file keep it so.
LEMMA NextNests == IInv /\ NestInv /\ [Next]_vars => NestInv'
<1> SUFFICES ASSUME IInv, NestInv, [Next]_vars PROVE NestInv'
  OBVIOUS
<1>1. SettingsRead
  BY DEF NestInv
<1>2. CASE Open
  BY <1>2, OpenNests
     DEF Open, OpenGlobal, OpenFilter, OpenUpstream, OpenProxy, OpenDefault, Blocks
<1>3. CASE Close
  BY <1>3, CloseNests
<1>4. CASE \E k \in Names \cup {SERVER} : \E v \in Texts[k] : Pair(k, v)
  BY <1>4, PairNests
<1>5. CASE Refuse \/ \E k \in Names \cup {SERVER} : PairTwice(k)
  <2>1. Fails
    BY <1>5 DEF Refuse, PairTwice
  <2>2. SettingsRead'
    BY <1>1, <2>1, ReadLater DEF Fails
  <2> QED
    BY <2>1, <2>2, EndNests DEF Fails
<1>6. CASE Eof
  <2>1. SettingsRead'
    BY <1>6, EofReads
  <2> QED
    BY <1>6, <2>1, EndNests DEF Eof
<1>7. CASE UNCHANGED vars
  <2>1. /\ status' = status /\ read' = read /\ g_global_conf' = g_global_conf
        /\ UNCHANGED dict /\ open' = open /\ num' = num
    BY <1>7 DEF vars
  <2>2. DOMAIN read' = DOMAIN read /\ \A j : IsPair(j)' = IsPair(j) /\ Meant(j)' = Meant(j)
    BY <2>1, HistoryKept
  <2>3. \A k : Given(k)' = Given(k)
    BY <2>2 DEF Given, Key
  <2>4. \A k : {read[j].value : j \in Given(k)}' = {read[j].value : j \in Given(k)}
    BY <2>1, <2>3
  <2>5. SettingsRead'
    BY <1>1, <2>1, <2>4, Zenon DEF SettingsRead, Ints, Longs
  <2> QED
    BY <2>1, <2>5, EndNests
<1> QED
  BY <1>2, <1>3, <1>4, <1>5, <1>6, <1>7 DEF Next

\* The flags, the counters and the dictionary agree with the lines read so far.
LEMMA NestInvariance == Spec => [](IInv /\ NestInv)
<1>1. (IInv /\ NestInv) /\ [Next]_vars => (IInv /\ NestInv)'
  BY NextStep, NextNests
<1>2. Init => IInv /\ NestInv
  BY InitInv, InitNests
<1> QED
  BY <1>1, <1>2, PTL DEF Spec

\* Whatever the lines of a file are, those that parse accepts nest legally, and
\* every setting is found under the key its nesting gives it, whatever the
\* checksums of the keys; there is nothing else in the dictionary.
THEOREM KeysFollowNesting == Spec => []SettingsFollowNesting
<1>1. IInv /\ NestInv => SettingsFollowNesting
  <2> SUFFICES ASSUME IInv, NestInv PROVE SettingsFollowNesting
    OBVIOUS
  <2>1. /\ TypeOK /\ DictTypeOK /\ NewestFirst /\ OneForKey /\ Kept /\ LegalNesting
    BY DEF IInv, NestInv, TypeOK
  <2>2. \A j \in Pairs : dict_search(Meant(j)) = read[j].value
    BY <2>1, Looked, MeantVar
  <2>3. Len(items) = Cardinality({j \in DOMAIN read : IsPair(j)})
    BY <2>1 DEF Kept, Pairs
  <2> QED
    BY <2>1, <2>2, <2>3 DEF SettingsFollowNesting, Pairs
<1> QED
  BY <1>1, NestInvariance, PTL

\* The items are those of the nodes that are no heads.
LEMMA ItemNodes ==
  ASSUME DictTypeOK
  PROVE  /\ \A n \in Linked \ Heads : n - Size + 1 \in DOMAIN items
         /\ \A a \in DOMAIN items : Size + a - 1 \in Linked \ Heads /\ Item(Size + a - 1) = items[a]
<1>1. Len(items) \in Nat /\ DOMAIN items = 1 .. Len(items) /\ Size \in Nat /\ Size > 0
  BY DictAssumption DEF DictTypeOK
<1>2. \A n \in Linked \ Heads : n - Size + 1 \in DOMAIN items
  BY <1>1 DEF Linked, Heads
<1>3. ASSUME NEW a \in DOMAIN items PROVE Size + a - 1 \in Linked \ Heads /\ Item(Size + a - 1) = items[a]
  <2>1. (Size + a - 1) - Size + 1 = a
    BY <1>1
  <2>2. Size + a - 1 \in Linked \ Heads
    BY <1>1 DEF Linked, Heads
  <2> QED
    BY <2>1, <2>2 DEF Item
<1> QED
  BY <1>2, <1>3

\* Whatever settings a file holds, and whatever their checksums: the rings stay
\* whole, and the walk that dict_search and dict_insert make over a chain comes by
\* the items whose keys hash to it, all of them and no other, and back to its head.
THEOREM ChainsStayWhole == Spec => []ChainsWhole
<1>1. IInv /\ NestInv => ChainsWhole
  <2> SUFFICES ASSUME IInv, NestInv PROVE ChainsWhole
    OBVIOUS
  <2>1. Rings(links, Linked) /\ DictTypeOK /\ NewestFirst
    BY DEF IInv, NestInv, TypeOK, LinksWhole
  <2>2. ASSUME NEW h \in Heads
        PROVE  {Walk(h)[i] : i \in DOMAIN Walk(h)} = {items[j] : j \in Filed(h)}
    <3>1. PICK e \in 1 .. Len(items) + 1 : \E pos \in [1 .. e - 1 -> Older(h)] :
             /\ Walk(h) = [i \in 1 .. e - 1 |-> Item(pos[i])]
             /\ \A m \in Older(h) : \E i \in 1 .. e - 1 : pos[i] = m
      BY <2>1, WalkComplete
    <3>2. PICK pos \in [1 .. e - 1 -> Older(h)] :
             /\ Walk(h) = [i \in 1 .. e - 1 |-> Item(pos[i])]
             /\ \A m \in Older(h) : \E i \in 1 .. e - 1 : pos[i] = m
      BY <3>1
    <3>3. Older(h) = {m \in Linked \ Heads : getkey(Item(m).var) = h}
      BY DEF Older, HeadOf
    <3>4. ASSUME NEW i \in 1 .. e - 1 PROVE \E j \in Filed(h) : items[j] = Walk(h)[i]
      <4>1. pos[i] \in Linked \ Heads /\ getkey(Item(pos[i]).var) = h /\ Walk(h)[i] = Item(pos[i])
        BY <3>2, <3>3
      <4>2. pos[i] - Size + 1 \in DOMAIN items
        BY <2>1, <4>1, ItemNodes
      <4> QED
        BY <4>1, <4>2 DEF Filed, Item
    <3>5. ASSUME NEW j \in Filed(h) PROVE \E i \in 1 .. e - 1 : Walk(h)[i] = items[j]
      <4>1. j \in DOMAIN items /\ getkey(items[j].var) = h
        BY DEF Filed
      <4>2. Size + j - 1 \in Linked \ Heads /\ Item(Size + j - 1) = items[j]
        BY <2>1, <4>1, ItemNodes
      <4>3. Size + j - 1 \in Older(h)
        BY <3>3, <4>1, <4>2
      <4>4. PICK i \in 1 .. e - 1 : pos[i] = Size + j - 1
        BY <3>2, <4>3
      <4>5. Walk(h)[i] = Item(Size + j - 1)
        BY <3>2, <4>4
      <4> QED
        BY <4>2, <4>5
    <3>6. DOMAIN Walk(h) = 1 .. e - 1
      BY <3>2
    <3> DEFINE w == Walk(h)
               F == Filed(h)
    <3>7. /\ \A i \in DOMAIN w : \E j \in F : items[j] = w[i]
          /\ \A j \in F : \E i \in DOMAIN w : w[i] = items[j]
      BY <3>4, <3>5, <3>6
    <3> HIDE DEF w, F
    <3>8. {w[i] : i \in DOMAIN w} = {items[j] : j \in F}
      BY <3>7
    <3> QED
      BY <3>8 DEF w, F
  <2> QED
    BY <2>1, <2>2 DEF ChainsWhole
<1> QED
  BY <1>1, NestInvariance, PTL

\* Whatever file conf_init reads, the program runs with the settings of its
\* global block, as they are written or by their low bits, and with the defaults
\* for the others; with none when the file is refused.
THEOREM SettingsAreRead == Spec => []SettingsRead
<1>1. IInv /\ NestInv => SettingsRead
  BY DEF NestInv
<1> QED
  BY <1>1, NestInvariance, PTL

\* The dictionary is a map: whatever has been inserted, and whatever chains the
\* checksums put the keys on, dict_search returns the value of the one item with
\* the key, and nothing for a key of none.
SearchExact ==
    \A k \in Vars : \/ \E a \in DOMAIN items : /\ items[a].var = k /\ dict_search(k) = items[a].value
                                               /\ \A b \in DOMAIN items : items[b].var = k => b = a
                    \/ (\A a \in DOMAIN items : items[a].var # k) /\ dict_search(k) = NoValue

\* dict_search answers for a key by its own item, at any time, for any file.
THEOREM DictionaryIsMap == Spec => []SearchExact
<1>1. IInv /\ NestInv => SearchExact
  <2> SUFFICES ASSUME IInv, NestInv, NEW k \in Vars
               PROVE  \/ \E a \in DOMAIN items : /\ items[a].var = k /\ dict_search(k) = items[a].value
                                                 /\ \A b \in DOMAIN items : items[b].var = k => b = a
                      \/ (\A a \in DOMAIN items : items[a].var # k) /\ dict_search(k) = NoValue
    BY DEF SearchExact
  <2>1. DictTypeOK /\ NewestFirst /\ OneForKey
    BY DEF IInv, NestInv, TypeOK
  <2>2. CASE \A a \in DOMAIN items : items[a].var # k
    BY <2>1, <2>2, LookupIs DEF dict_search
  <2>3. CASE \E a \in DOMAIN items : items[a].var = k
    <3>1. PICK a \in DOMAIN items : items[a].var = k
      BY <2>3
    <3>2. dict_search(k) = items[a].value
      BY <2>1, <3>1, LookupIs
    <3>3. \A b \in DOMAIN items : items[b].var = k => b = a
      BY <2>1, <3>1 DEF OneForKey
    <3> QED
      BY <3>1, <3>2, <3>3
  <2> QED
    BY <2>2, <2>3
<1> QED
  BY <1>1, NestInvariance, PTL
-----------------------------------------------------------------------------
(* The checksum of a key. *)

\* mmhash64 reads the whole of the key and stays inside it, for every length.
THEOREM WholeKey == \A n \in Int : mmhash64(n) = 0 .. n - 1
<1> SUFFICES ASSUME NEW n \in Int PROVE mmhash64(n) = 0 .. n - 1
  OBVIOUS
<1>1. CASE n <= 0
  BY <1>1 DEF mmhash64
<1>2. CASE n > 0
  <2> DEFINE q == n \div 8
             r == n % 8
  <2>1. q \in Nat /\ r \in 0 .. 7 /\ n = 8 * q + r
    BY <1>2
  <2>2. ASSUME NEW at \in mmhash64(n) PROVE at \in 0 .. n - 1
    <3>1. CASE at \in mmhash64Words(n)
      <4>1. PICK w \in 0 .. q - 1, b \in 0 .. 7 : at = 8 * w + b
        BY <3>1 DEF mmhash64Words
      <4> HIDE DEF q, r
      <4> QED
        BY <2>1, <4>1
    <3>2. CASE at \in mmhash64Tail(n)
      <4>1. PICK b \in 0 .. r - 1 : at = 8 * q + b
        BY <3>2 DEF mmhash64Tail
      <4> HIDE DEF q, r
      <4> QED
        BY <2>1, <4>1
    <3> QED
      BY <1>2, <2>2, <3>1, <3>2 DEF mmhash64
  <2>3. ASSUME NEW at \in 0 .. n - 1 PROVE at \in mmhash64(n)
    <3> DEFINE w == at \div 8
               b == at % 8
    <3>1. w \in Nat /\ b \in 0 .. 7 /\ at = 8 * w + b
      OBVIOUS
    <3>2. w < q \/ (w = q /\ b < r)
      <4> HIDE DEF q, r, w, b
      <4> QED
        BY <2>1, <3>1
    <3>3. CASE w < q
      <4>1. w \in 0 .. q - 1
        BY <2>1, <3>1, <3>3
      <4> QED
        BY <1>2, <3>1, <4>1 DEF mmhash64, mmhash64Words
    <3>4. CASE w = q /\ b < r
      <4>1. b \in 0 .. r - 1
        BY <2>1, <3>1, <3>4
      <4> QED
        BY <1>2, <3>1, <3>4, <4>1 DEF mmhash64, mmhash64Tail
    <3> QED
      BY <3>2, <3>3, <3>4
  <2> QED
    BY <2>2, <2>3
<1> QED
  BY <1>1, <1>2

\* naivehash64 reads k[15] of every key of 8 to 15 characters and k[30] of every
\* one of 16 to 31: it stays inside the key below 8 and from 31 on.
THEOREM NaiveOutside ==
  \A n \in Int : naivehash64(n) \subseteq 0 .. n - 1 <=> n < 8 \/ n > 30
<1> SUFFICES ASSUME NEW n \in Int
             PROVE  naivehash64(n) \subseteq 0 .. n - 1 <=> n < 8 \/ n > 30
  OBVIOUS
<1>1. CASE n < 8
  BY <1>1 DEF naivehash64
<1>2. CASE n \in 8 .. 15
  <2>1. 15 \in naivehash64(n)
    BY <1>2 DEF naivehash64
  <2> QED
    BY <1>2, <2>1
<1>3. CASE n \in 16 .. 30
  <2>1. 30 \in naivehash64(n)
    BY <1>3 DEF naivehash64
  <2> QED
    BY <1>3, <2>1
<1>4. CASE n = 31
  BY <1>4 DEF naivehash64
<1>5. CASE n > 31
  BY <1>5 DEF naivehash64
<1> QED
  BY <1>1, <1>2, <1>3, <1>4, <1>5

-----------------------------------------------------------------------------
(* The line. *)

\* trim is correct by the invariant of its loop: what the two ends have passed is
\* white space, an end whose flag is set rests on a character, and every turn
\* moves at least one of them.
Passed == /\ \A k \in 1 .. s_pos : line[k] \in Spaces
          /\ \A k \in Trim!len - e_pos + 1 .. Trim!len : line[k] \in Spaces

Rests == /\ s_flag => s_pos < Trim!len /\ Trim!First \notin Spaces
         /\ e_flag => e_pos < Trim!len /\ Trim!Last \notin Spaces

Where == /\ pc = "loop" => /\ s_pos + e_pos < Trim!len /\ turn < Trim!len
                           /\ turn <= s_pos + e_pos
                           /\ ~(s_flag /\ e_flag)
         /\ pc = "cut" => s_pos + e_pos >= Trim!len \/ (s_flag /\ e_flag)

TrimInv == Trim!TypeOK /\ Passed /\ Rests /\ Where /\ Trim!TrimCorrect

\* Before the loop nothing has been passed.
LEMMA TrimInitInv == Trim!Init => TrimInv
<1> SUFFICES ASSUME Trim!Init PROVE TrimInv
  OBVIOUS
<1>3. line \in Seq(Chars)
  BY DEF Trim!Init
<1>4. Trim!len \in Nat
  BY <1>3, LenProperties DEF Trim!len
<1>5. /\ turn = 0 /\ s_pos = 0 /\ e_pos = 0 /\ buf = line
      /\ s_flag = FALSE /\ e_flag = FALSE
  BY DEF Trim!Init
<1>7. pc = (IF Trim!len = 0 THEN "done" ELSE "loop")
  BY DEF Trim!Init
<1>8. Trim!TypeOK
  <2>1. s_flag \in BOOLEAN /\ e_flag \in BOOLEAN
    BY <1>5
  <2>2. pc \in {"loop", "cut", "done"}
    BY <1>7
  <2>3. pc = "loop" => Trim!len > 0
    BY <1>4, <1>7
  <2>4. line \in Seq(Chars) /\ buf \in Seq(Chars)
    BY <1>3, <1>5
  <2>5. /\ turn \in 0 .. Trim!len /\ s_pos \in 0 .. Trim!len /\ e_pos \in 0 .. Trim!len
        /\ s_pos + e_pos <= Trim!len + 1
        /\ pc = "loop" => s_pos + e_pos < Trim!len
    BY <1>4, <1>5, <2>3
  <2> QED BY <2>1, <2>2, <2>4, <2>5 DEF Trim!TypeOK
<1>9. Passed
  BY <1>4, <1>5 DEF Passed
<1>10. Rests
  BY <1>5 DEF Rests
<1>11. Where
  BY <1>4, <1>5, <1>7 DEF Where
<1>6. Trim!TrimCorrect
  <2> SUFFICES ASSUME pc = "done" PROVE Trim!Solid = {} /\ buf = <<>>
    BY DEF Trim!TrimCorrect
  <2>1. Trim!len = 0
    BY DEF Trim!Init
  <2>2. Trim!Solid = {}
    BY <2>1 DEF Trim!Solid
  <2>3. line = <<>>
    BY <2>1, <1>3, EmptySeq DEF Trim!len
  <2> QED BY <2>2, <2>3 DEF Trim!Init
<1> QED BY <1>6, <1>8, <1>9, <1>10, <1>11 DEF TrimInv

\* The breaks of the loop when both ends, or the last of them, are found.
LEMMA TrimFindInv == TrimInv /\ (Trim!FindStart \/ Trim!FindEnd) => TrimInv'
<1> SUFFICES ASSUME TrimInv, Trim!FindStart \/ Trim!FindEnd PROVE TrimInv'
  OBVIOUS
<1>1. Trim!len \in Nat /\ Trim!len' = Trim!len
  BY LenProperties DEF TrimInv, Trim!TypeOK, Trim!FindStart, Trim!FindEnd, Trim!len
<1>2. Trim!TypeOK'
  BY <1>1 DEF TrimInv, Trim!TypeOK, Trim!FindStart, Trim!FindEnd, Where
<1>3. Passed'
  BY <1>1 DEF TrimInv, Trim!TypeOK, Trim!FindStart, Trim!FindEnd, Passed
<1>4. Rests' /\ Where'
  BY <1>1 DEF TrimInv, Trim!TypeOK, Trim!FindStart, Trim!FindEnd, Rests, Where, Trim!First, Trim!Last
<1>5. Trim!TrimCorrect'
  BY DEF Trim!FindStart, Trim!FindEnd, Trim!TrimCorrect
<1> QED BY <1>2, <1>3, <1>4, <1>5 DEF TrimInv

\* A turn of the loop moves one end at least, and passes white space only.
LEMMA TrimTurnInv == TrimInv /\ Trim!Turn => TrimInv'
<1> SUFFICES ASSUME TrimInv, Trim!Turn PROVE TrimInv'
  OBVIOUS
<1>1. Trim!len \in Nat /\ Trim!len' = Trim!len
  BY LenProperties DEF TrimInv, Trim!TypeOK, Trim!Turn, Trim!len
<1>2. /\ s_pos \in Nat /\ e_pos \in Nat /\ turn \in Nat
      /\ s_pos + e_pos < Trim!len /\ turn < Trim!len /\ turn <= s_pos + e_pos
  BY <1>1 DEF TrimInv, Trim!TypeOK, Where, Trim!Turn
<1>3. s_flag' \in BOOLEAN /\ e_flag' \in BOOLEAN
  BY DEF Trim!Turn
<1>a. (s_flag' /\ s_pos' = s_pos) \/ (~s_flag' /\ Trim!First \in Spaces /\ s_pos' = s_pos + 1)
  BY Zenon DEF Trim!Turn
<1>b. (e_flag' /\ e_pos' = e_pos) \/ (~e_flag' /\ Trim!Last \in Spaces /\ e_pos' = e_pos + 1)
  BY Zenon DEF Trim!Turn
<1>c. s_pos' = s_pos + 1 \/ e_pos' = e_pos + 1
  BY <1>a, <1>b, Zenon DEF Trim!Turn
<1>4. /\ s_pos' \in {s_pos, s_pos + 1} /\ e_pos' \in {e_pos, e_pos + 1}
      /\ s_pos' + e_pos' >= s_pos + e_pos + 1
      /\ s_pos' + e_pos' <= s_pos + e_pos + 2
  BY <1>2, <1>a, <1>b, <1>c
<1>5. turn' = turn + 1 /\ (pc' = "loop" => s_pos' + e_pos' < Trim!len /\ turn' < Trim!len) /\ pc' \in {"loop", "cut"}
  BY <1>1, <1>2, <1>4 DEF Trim!Turn
<1>6. Trim!TypeOK'
  BY <1>1, <1>2, <1>3, <1>4, <1>5 DEF TrimInv, Trim!TypeOK, Trim!Turn
<1>7. Passed'
  <2>1. s_pos' = s_pos + 1 => Trim!First \in Spaces
    BY <1>2, <1>a
  <2>2. e_pos' = e_pos + 1 => Trim!Last \in Spaces
    BY <1>2, <1>b
  <2>3. \A k \in 1 .. s_pos' : line'[k] \in Spaces
    BY <2>1, <1>2, <1>4 DEF TrimInv, Passed, Trim!Turn, Trim!First
  <2>4. \A k \in Trim!len' - e_pos' + 1 .. Trim!len' : line'[k] \in Spaces
    BY <2>2, <1>1, <1>2, <1>4 DEF TrimInv, Passed, Trim!Turn, Trim!Last
  <2> QED BY <2>3, <2>4 DEF Passed
<1>8. Rests'
  <2>1. s_flag' => s_pos' = s_pos /\ Trim!First \notin Spaces
    BY <1>a, Zenon DEF TrimInv, Rests, Trim!Turn
  <2>2. e_flag' => e_pos' = e_pos /\ Trim!Last \notin Spaces
    BY <1>b, Zenon DEF TrimInv, Rests, Trim!Turn
  <2> QED BY <2>1, <2>2, <1>1, <1>2 DEF Rests, Trim!First, Trim!Last, Trim!Turn
<1>9. Where'
  BY <1>1, <1>2, <1>4, <1>5 DEF Where, Trim!Turn
<1>10. Trim!TrimCorrect'
  BY <1>5 DEF Trim!TrimCorrect
<1> QED BY <1>6, <1>7, <1>8, <1>9, <1>10 DEF TrimInv

\* The copy leaves the trimmed line in the buffer.
LEMMA TrimCutInv == TrimInv /\ Trim!Cut => TrimInv'
<1> SUFFICES ASSUME TrimInv, Trim!Cut PROVE TrimInv'
  OBVIOUS
<1>1. Trim!len \in Nat /\ Trim!len' = Trim!len /\ Trim!Solid' = Trim!Solid
  BY LenProperties DEF TrimInv, Trim!TypeOK, Trim!Cut, Trim!len, Trim!Solid
<1>2. s_pos \in Nat /\ e_pos \in Nat /\ line \in Seq(Chars)
  BY <1>1 DEF TrimInv, Trim!TypeOK
<1>3. CASE s_pos + e_pos >= Trim!len
  <2>1. \A k \in 1 .. Trim!len : k \in 1 .. s_pos \/ k \in Trim!len - e_pos + 1 .. Trim!len
    BY <1>1, <1>2, <1>3
  <2>2. Trim!Solid = {}
    BY <2>1 DEF Trim!Solid, TrimInv, Passed
  <2>3. buf' = <<>>
    BY <1>3 DEF Trim!Cut
  <2>4. Trim!TrimCorrect' /\ buf' \in Seq(Chars)
    BY <2>2, <2>3, <1>1 DEF Trim!TrimCorrect
  <2> QED BY <2>4, <1>1 DEF TrimInv, Trim!TypeOK, Passed, Rests, Where, Trim!Cut, Trim!First, Trim!Last
<1>4. CASE s_pos + e_pos < Trim!len
  <2> DEFINE f == s_pos + 1
             l == Trim!len - e_pos
  <2>1. s_flag /\ e_flag
    BY <1>1, <1>2, <1>4 DEF TrimInv, Where, Trim!Cut
  <2>2. f \in Trim!Solid /\ l \in Trim!Solid
    BY <2>1, <1>1, <1>2, <1>4 DEF TrimInv, Rests, Trim!Solid, Trim!First, Trim!Last
  <2>3. \A k \in Trim!Solid : f <= k /\ k <= l
    BY <1>1, <1>2 DEF TrimInv, Passed, Trim!Solid
  <2>4. buf' = SubSeq(line, f, l)
    BY <1>1, <1>2, <1>4 DEF Trim!Cut
  <2>5. buf' \in Seq(Chars)
    BY <2>2, <2>4, <1>2, SubSeqProperties DEF Trim!Solid, Trim!len
  <2>6. Trim!TrimCorrect'
    BY <2>2, <2>3, <2>4, <1>1 DEF Trim!TrimCorrect, Trim!Cut
  <2> QED BY <2>5, <2>6, <1>1 DEF TrimInv, Trim!TypeOK, Passed, Rests, Where, Trim!Cut, Trim!First, Trim!Last
<1> QED BY <1>1, <1>2, <1>3, <1>4

\* The invariant of the loop holds throughout.
LEMMA TrimInvariance == Trim!Spec => []TrimInv
<1>1. TrimInv /\ UNCHANGED Trim!vars => TrimInv'
  <2> SUFFICES ASSUME TrimInv, UNCHANGED Trim!vars PROVE TrimInv'
    OBVIOUS
  <2>1. /\ line' = line /\ buf' = buf /\ turn' = turn /\ s_pos' = s_pos /\ e_pos' = e_pos
        /\ s_flag' = s_flag /\ e_flag' = e_flag /\ pc' = pc
    BY DEF Trim!vars
  <2>2. Trim!len' = Trim!len /\ Trim!First' = Trim!First /\ Trim!Last' = Trim!Last /\ Trim!Solid' = Trim!Solid
    BY <2>1 DEF Trim!len, Trim!First, Trim!Last, Trim!Solid
  <2>3. Trim!TypeOK'
    BY <2>1, <2>2, Zenon DEF TrimInv, Trim!TypeOK
  <2>4. Passed'
    BY <2>1, <2>2 DEF TrimInv, Passed
  <2>5. Rests'
    BY <2>1, <2>2, Zenon DEF TrimInv, Rests
  <2>6. Where'
    BY <2>1, <2>2, Zenon DEF TrimInv, Where
  <2>7. Trim!TrimCorrect'
    BY <2>1, <2>2 DEF TrimInv, Trim!TrimCorrect
  <2> QED BY <2>3, <2>4, <2>5, <2>6, <2>7 DEF TrimInv
<1>2. TrimInv /\ [Trim!Next]_(Trim!vars) => TrimInv'
  BY <1>1, TrimFindInv, TrimTurnInv, TrimCutInv DEF Trim!Next
<1> QED BY TrimInitInv, <1>2, PTL DEF Trim!Spec

\* The two ends of trim (fenglingConf.c) never read outside the line, for lines
\* of every length over every alphabet.
THEOREM ReadsInside == Trim!Spec => []Trim!TypeOK
<1>1. TrimInv => Trim!TypeOK
  BY DEF TrimInv
<1> QED BY TrimInvariance, <1>1, PTL

\* trim cuts the white space off both ends and nothing else, for lines of every
\* length over every alphabet.
THEOREM Trims == Trim!Spec => []Trim!TrimCorrect
<1>1. TrimInv => Trim!TrimCorrect
  BY DEF TrimInv
<1> QED BY TrimInvariance, <1>1, PTL
=============================================================================
