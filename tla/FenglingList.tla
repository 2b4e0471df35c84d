---------------------------- MODULE FenglingList ----------------------------
(***************************************************************************)
(* The doubly linked rings of fenglingList.h.  The memory is two functions *)
(* of the nodes, m.next and m.prev; an operator is what a call leaves of   *)
(* it.  EXCEPT writes in order, as the C does, and that matters where two  *)
(* of the nodes are one.                                                   *)
(***************************************************************************)
EXTENDS Integers

Memory(Nodes) == [next : [Nodes -> Nodes], prev : [Nodes -> Nodes]]

INIT_LIST_HEAD(m, list) == [m EXCEPT !.next[list] = list, !.prev[list] = list]

\* __list_add(new, prev, next) and __list_del(prev, next)
add(m, new, prev, next) ==
    [m EXCEPT !.prev[next] = new, !.next[new] = next, !.prev[new] = prev, !.next[prev] = new]
del(m, prev, next) == [m EXCEPT !.prev[next] = prev, !.next[prev] = next]

list_add(m, new, head) == add(m, new, head, m.next[head])
list_add_tail(m, new, head) == add(m, new, m.prev[head], head)
list_del(m, entry) == del(m, m.prev[entry], m.next[entry])
list_del_init(m, entry) == INIT_LIST_HEAD(list_del(m, entry), entry)
list_move(m, list, head) == list_add(list_del(m, list), list, head)
list_move_tail(m, list, head) == list_add_tail(list_del(m, list), list, head)

list_replace(m, old, new) ==
    LET a == [m EXCEPT !.next[new] = m.next[old]]
        b == [a EXCEPT !.prev[a.next[new]] = new]
        c == [b EXCEPT !.prev[new] = b.prev[old]]
    IN [c EXCEPT !.next[c.prev[new]] = new]
list_replace_init(m, old, new) == INIT_LIST_HEAD(list_replace(m, old, new), old)

list_empty(m, head) == m.next[head] = head
list_is_last(m, list, head) == m.next[list] = head

splice(m, list, head) ==
    LET first == m.next[list]
        last == m.prev[list]
        at == m.next[head]
    IN [m EXCEPT !.prev[first] = head, !.next[head] = first,
                 !.next[last] = at, !.prev[at] = last]
list_splice(m, list, head) == IF list_empty(m, list) THEN m ELSE splice(m, list, head)
list_splice_init(m, list, head) ==
    IF list_empty(m, list) THEN m ELSE INIT_LIST_HEAD(splice(m, list, head), list)

-----------------------------------------------------------------------------
\* The nodes of S lie on rings: every link leads to one of them, and leads back.
Rings(m, S) == \A n \in S : /\ m.next[n] \in S /\ m.prev[m.next[n]] = n
                            /\ m.prev[n] \in S /\ m.next[m.prev[n]] = n
=============================================================================
