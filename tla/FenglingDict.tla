---------------------------- MODULE FenglingDict ----------------------------
(***************************************************************************)
(* The dictionary of fenglingDict.c: an array of list heads, each the head *)
(* of a ring of the items whose keys hash to it, the newest in front.  The *)
(* module has no specification of its own: the configuration reader        *)
(* extends it.                                                             *)
(***************************************************************************)
EXTENDS FenglingList, Sequences, FiniteSetsExt

CONSTANTS Vars,         \* keys
          Values,
          NoValue,      \* the null pointer
          Sign,         \* Sign[k]: the checksum of k, any function
          Size,         \* list heads
          MaxItems      \* bound: items allocated

ASSUME DictAssumption == /\ Sign \in [Vars -> Nat]
                         /\ Size \in Nat \ {0}
                         /\ MaxItems \in Nat
                         /\ NoValue \notin Values

VARIABLES links,        \* the list_heads, of the array and of the items
          items         \* items[i]: the item whose link is node Size + i - 1

dict == <<links, items>>

Heads == 0 .. Size - 1
Nodes == 0 .. Size + MaxItems - 1
Linked == 0 .. Size + Len(items) - 1
Items == [var : Vars, value : Values]

\* Every head is initialised; an item's link has no meaning before it is added.
dict_init == /\ links = [next |-> [n \in Nodes |-> n], prev |-> [n \in Nodes |-> n]]
             /\ items = <<>>

getkey(k) == Sign[k] % Size
Item(n) == items[n - Size + 1]

\* list_for_each: the items from the head on, until the walk is at a head again.
Walk(head) ==
    LET pos[i \in 1 .. Len(items) + 1] == links.next[IF i = 1 THEN head ELSE pos[i - 1]]
        end == CHOOSE i \in 1 .. Len(items) + 1 :
                   pos[i] \in Heads /\ \A j \in 1 .. i - 1 : pos[j] \notin Heads
    IN  [i \in 1 .. end - 1 |-> Item(pos[i])]

\* The places in k's chain of the items that cmp finds equal to k; the first counts.
Found(k) == {i \in DOMAIN Walk(getkey(k)) : Walk(getkey(k))[i].var = k}

dict_search(k) == IF Found(k) = {} THEN NoValue ELSE Walk(getkey(k))[Min(Found(k))].value

\* (mutant) an item filed on the chain behind its own
dict_insert_behind(k, v) ==
    /\ Found(k) = {}
    /\ items' = Append(items, [var |-> k, value |-> v])
    /\ links' = list_add(links, Size + Len(items), (getkey(k) + 1) % Size)

\* dict_insert of a key that is not there; for one that is, it changes nothing
\* and returns the other value.
dict_insert(k, v) ==
    /\ Found(k) = {}
    /\ items' = Append(items, [var |-> k, value |-> v])
    /\ links' = list_add(links, Size + Len(items), getkey(k))

DictTypeOK == links \in Memory(Nodes) /\ items \in Seq(Items) /\ Len(items) <= MaxItems

\* The items whose keys hash to a head.
Filed(head) == {j \in DOMAIN items : getkey(items[j].var) = head}

\* The heads and the items are on whole rings, and list_for_each from a head comes
\* by the items whose keys hash to it, all of them and no other, and back: neither
\* dict_search nor dict_insert misses a key because of where its item was filed.
ChainsWhole ==
    /\ Rings(links, Linked)
    /\ \A h \in Heads :
          {Walk(h)[i] : i \in DOMAIN Walk(h)} = {items[j] : j \in Filed(h)}
=============================================================================
