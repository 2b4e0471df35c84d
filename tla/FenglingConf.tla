---------------------------- MODULE FenglingConf ----------------------------
(***************************************************************************)
(* Reading the configuration: conf_init and parse of fenglingConf.c.  The  *)
(* file is a sequence of lines, blocks of settings nested one or two deep; *)
(* parse has no stack, it keeps twelve static flags and counters, and      *)
(* builds from them the key under which a setting goes into the            *)
(* dictionary.  A line is what sscanf makes of it: one word, two, or more. *)
(***************************************************************************)
EXTENDS FenglingDict

CONSTANTS Names,        \* the names of settings, other than server
          SERVER,       \* the name that is numbered
          MaxLines,     \* bound: lines read
          Texts,        \* Texts[k]: what may be written for k
          IntNames,     \* the names read with get_var_int
          Default,      \* Default[k]: the value of a global setting not given
          NoDigits,     \* a text that does not start with a number
          INT_MAX, LONG_MAX     \* of the two widths, scaled down

ASSUME NameAssumption == SERVER \notin Names /\ IsFiniteSet(Names)
ASSUME TextAssumption == Texts \in [Names \cup {SERVER} -> SUBSET Values]
ASSUME LineAssumption == MaxLines \in Nat /\ MaxItems = MaxLines
ASSUME WidthAssumption == INT_MAX \in Nat /\ LONG_MAX \in Nat /\ INT_MAX <= LONG_MAX

VARIABLES
    open,       \* parse's static flags
    num,        \* and its static counters
    g_global_conf,
    status,     \* reading; 0 or -1, what conf_init returns
    read        \* the lines accepted so far (history)

vars == <<open, num, dict, g_global_conf, status, read>>

-----------------------------------------------------------------------------
Blocks == {"global", "filter", "upstream", "proxy", "default"}

\* host_default_ok is left out: the code sets it and never reads it.
Flags == {"global", "global_ok", "filter", "filter_ok", "upstream", "proxy",
          "proxy_default", "proxy_default_ok", "host_default"}
Counts == {"upstream", "proxy", "server"}

OpenLine(b) == [kind |-> "open", block |-> b]
CloseLine == [kind |-> "close"]
PairLine(k, v) == [kind |-> "pair", name |-> k, value |-> v]
Lines == {OpenLine(b) : b \in Blocks} \cup {CloseLine}
             \cup {PairLine(k, v) : k \in Names \cup {SERVER}, v \in Values}

\* What the snprintf of parse writes into a key; the numbers a block does not
\* have are 0.  (Names are taken to hold no dots.)
Key(block, up, sub, name, no) ==
    [block |-> block, up |-> up, sub |-> sub, name |-> name, no |-> no]

Keys == [block : {"global", "filter", "upstream", "proxy", "updefault", "default"},
         up : 0 .. MaxLines, sub : 0 .. MaxLines,
         name : Names \cup {SERVER}, no : 0 .. MaxLines]

ASSUME KeyAssumption == Vars = Keys

Init == /\ dict_init
        /\ open = [b \in Flags |-> FALSE]
        /\ num = [c \in Counts |-> 0]
        /\ g_global_conf = [k \in Names |-> NoValue]
        /\ status = "reading"
        /\ read = <<>>

Accept(line) == /\ status = "reading" /\ Len(read) < MaxLines
                /\ read' = Append(read, line)
                /\ UNCHANGED <<g_global_conf, status>>

Closed(bs) == \A b \in bs : ~open[b]
Nothing == Closed(Flags \ {"global_ok", "filter_ok", "proxy_default_ok"})

-----------------------------------------------------------------------------
(* One word: the start of a block. *)
\* (mutant) a global block that may stand in another
GlobalAnywhere == Closed({"global", "global_ok"})

MayOpenGlobal == Nothing /\ ~open["global_ok"]
MayOpenFilter == Nothing /\ ~open["filter_ok"]
MayOpenUpstream == Nothing
MayOpenProxy == open["upstream"] /\ Closed({"proxy", "global", "filter", "proxy_default", "host_default"})
MayOpenDefault ==
    Closed({"proxy_default", "host_default", "proxy_default_ok", "global", "filter", "proxy"})

Opens(block, flag) == /\ Accept(OpenLine(block))
                      /\ open' = [open EXCEPT ![flag] = TRUE]
                      /\ UNCHANGED <<num, dict>>

OpenGlobal == MayOpenGlobal /\ Opens("global", "global")
OpenFilter == MayOpenFilter /\ Opens("filter", "filter")
OpenUpstream == MayOpenUpstream /\ Opens("upstream", "upstream")
OpenProxy == MayOpenProxy /\ Opens("proxy", "proxy")
OpenDefault == MayOpenDefault /\ Opens("default", IF open["upstream"] THEN "proxy_default"
                                                  ELSE "host_default")

(* One word: the end of a block, the first of these whose flag is set. *)
Closes(block, before) == open[block] /\ Closed(before) /\ Accept(CloseLine) /\ UNCHANGED dict

CloseGlobal == /\ Closes("global", {})
               /\ open' = [open EXCEPT !["global"] = FALSE, !["global_ok"] = TRUE]
               /\ UNCHANGED num

CloseFilter == /\ Closes("filter", {"global"})
               /\ open' = [open EXCEPT !["filter"] = FALSE, !["filter_ok"] = TRUE]
               /\ UNCHANGED num

\* (mutant) the servers of the next proxy numbered on
CloseProxyKeepsCount ==
    /\ Closes("proxy", {"global", "filter"})
    /\ open' = [open EXCEPT !["proxy"] = FALSE]
    /\ num' = [num EXCEPT !["proxy"] = @ + 1]

CloseProxy == /\ Closes("proxy", {"global", "filter"})
              /\ open' = [open EXCEPT !["proxy"] = FALSE]
              /\ num' = [num EXCEPT !["proxy"] = @ + 1, !["server"] = 0]

CloseProxyDefault ==
    /\ Closes("proxy_default", {"global", "filter", "proxy"})
    /\ open' = [open EXCEPT !["proxy_default"] = FALSE, !["proxy_default_ok"] = TRUE]
    /\ num' = [num EXCEPT !["server"] = 0]

CloseUpstream ==
    /\ Closes("upstream", {"global", "filter", "proxy", "proxy_default"})
    /\ open' = [open EXCEPT !["upstream"] = FALSE, !["proxy_default_ok"] = FALSE]
    /\ num' = [num EXCEPT !["upstream"] = @ + 1, !["proxy"] = 0]

CloseHostDefault ==
    /\ Closes("host_default", {"global", "filter", "proxy", "proxy_default", "upstream"})
    /\ open' = [open EXCEPT !["host_default"] = FALSE]
    /\ num' = [num EXCEPT !["server"] = 0]

-----------------------------------------------------------------------------
(* Two words: a setting, under the first of these blocks whose flag is set. *)

Settable == ~Nothing

KeyFor(k) ==
    LET no == IF k = SERVER THEN num["server"] ELSE 0 IN
    CASE open["global"] -> Key("global", 0, 0, k, 0)
      [] open["filter"] /\ Closed({"global"}) -> Key("filter", 0, 0, k, 0)
      [] open["proxy"] /\ Closed({"global", "filter"}) ->
             Key("proxy", num["upstream"], num["proxy"], k, no)
      [] open["proxy_default"] /\ Closed({"global", "filter", "proxy"}) ->
             Key("updefault", num["upstream"], 0, k, no)
      [] open["upstream"] /\ Closed({"global", "filter", "proxy", "proxy_default"}) ->
             Key("upstream", num["upstream"], 0, k, 0)
      [] OTHER -> Key("default", 0, 0, k, no)

\* A server of one of these blocks is counted.
Count(k) == num' = IF k = SERVER /\ ~Closed({"proxy", "proxy_default", "host_default"})
                   THEN [num EXCEPT !["server"] = @ + 1] ELSE num

\* The setting goes into the dictionary.
Pair(k, v) == /\ Settable
              /\ Accept(PairLine(k, v))
              /\ dict_insert(KeyFor(k), v)
              /\ Count(k)
              /\ UNCHANGED open

Fails == /\ status = "reading" /\ status' = "-1"
         /\ UNCHANGED <<open, dict, g_global_conf, read>>

\* dict_insert returns the value of an earlier line, and conf_init -1: parse has
\* counted the server by then.
PairTwice(k) == Settable /\ Found(KeyFor(k)) # {} /\ Count(k) /\ Fails

\* A line that parse refuses: a block that may not start or end here, a setting
\* outside the blocks, and, at any time, an unknown word or three words.
Refuse == Fails /\ UNCHANGED num

-----------------------------------------------------------------------------
(* The end of the file, in a block or not, and the settings of the program. *)
(* A last line without a newline is read together with the end, and not     *)
(* parsed.                                                                   *)

conf_get(k) == dict_search(Key("global", 0, 0, k, 0))

Ints == -INT_MAX - 1 .. INT_MAX
Longs == -LONG_MAX - 1 .. LONG_MAX

\* A long, of which an int keeps the low bits.
Truncated(long) == ((long + INT_MAX + 1) % (2 * (INT_MAX + 1))) - INT_MAX - 1

\* (mutant) a number beyond a long is taken as strtol returns it, LONG_MAX
get_var_int_unchecked(k) ==
    LET v == conf_get(k) IN
    IF v \in {NoValue, NoDigits} THEN Default[k] ELSE Truncated(IF v > LONG_MAX THEN LONG_MAX ELSE v)

get_var_int(k) ==
    LET v == conf_get(k) IN
    IF v \in {NoValue, NoDigits} \/ v \notin Longs THEN Default[k] ELSE Truncated(v)

get_var_str(k) == LET v == conf_get(k) IN IF v = NoValue THEN Default[k] ELSE v

global_conf_init == g_global_conf' = [k \in Names |-> IF k \in IntNames THEN get_var_int(k)
                                                      ELSE get_var_str(k)]

Eof == /\ status = "reading" /\ status' = "0"
       /\ global_conf_init
       /\ UNCHANGED <<open, num, dict, read>>

Open == OpenGlobal \/ OpenFilter \/ OpenUpstream \/ OpenProxy \/ OpenDefault

Close == \/ CloseGlobal \/ CloseFilter \/ CloseProxy \/ CloseProxyDefault
         \/ CloseUpstream \/ CloseHostDefault

Next == \/ Open \/ Close
        \/ \E k \in Names \cup {SERVER} : \E v \in Texts[k] : Pair(k, v)
        \/ \E k \in Names \cup {SERVER} : PairTwice(k)
        \/ Refuse \/ Eof

Spec == Init /\ [][Next]_vars

-----------------------------------------------------------------------------
(* What the lines mean by their nesting alone, whatever the flags say.      *)

IsOpen(j) == read[j].kind = "open"
IsPair(j) == read[j].kind = "pair"

Depth(i, j) == Cardinality({m \in i .. j : IsOpen(m)})
                   - Cardinality({m \in i .. j : read[m].kind = "close"})

\* The lines that open the blocks around line j, and the innermost, or 0.
Around(j) == {i \in 1 .. j - 1 : IsOpen(i) /\ \A m \in i .. j - 1 : Depth(i, m) >= 1}
Inner(j) == Max(Around(j) \cup {0})

\* How many blocks of i's kind stand before it in the block around it.
Ordinal(i) == Cardinality({m \in Inner(i) + 1 .. i - 1 :
                               /\ IsOpen(m) /\ read[m].block = read[i].block
                               /\ Inner(m) = Inner(i)})

ServersBefore(j) == Cardinality({m \in Inner(j) + 1 .. j - 1 :
                                     IsPair(m) /\ read[m].name = SERVER /\ Inner(m) = Inner(j)})

Meant(j) ==
    LET i == Inner(j)
        b == read[i].block
        k == read[j].name
        no == IF k = SERVER THEN ServersBefore(j) ELSE 0
    IN CASE b \in {"global", "filter"} -> Key(b, 0, 0, k, 0)
         [] b = "upstream" -> Key(b, Ordinal(i), 0, k, 0)
         [] b = "proxy" -> Key(b, Ordinal(Inner(i)), Ordinal(i), k, no)
         [] b = "default" /\ Inner(i) = 0 -> Key(b, 0, 0, k, no)
         [] OTHER -> Key("updefault", Ordinal(Inner(i)), 0, k, no)

-----------------------------------------------------------------------------
TypeOK ==
    /\ DictTypeOK
    /\ open \in [Flags -> BOOLEAN]
    /\ num \in [Counts -> Nat]
    /\ status \in {"reading", "0", "-1"}
    /\ read \in Seq(Lines) /\ Len(read) <= MaxLines

\* The flags stand for a stack: one block at most is open on the outside, and a
\* proxy or a default inside it only if it is an upstream, one of them at most.
\* parse tests the flags of the other blocks one by one, in five places.
OneBlock ==
    /\ ~(open["global"] /\ open["filter"])
    /\ ~(open["upstream"] /\ (open["global"] \/ open["filter"]))
    /\ open["host_default"] => Closed({"global", "filter", "upstream"})
    /\ open["proxy"] \/ open["proxy_default"] => open["upstream"]
    /\ ~(open["proxy"] /\ open["proxy_default"])

\* The accepted lines nest as the readers of the settings need it: one global
\* and one filter block, outside of any other; a proxy in an upstream; a default
\* outside or, once, in an upstream.
LegalNesting ==
    \A i \in DOMAIN read : IsOpen(i) =>
        LET b == read[i].block IN
        CASE b \in {"global", "filter"} -> Inner(i) = 0 /\ Ordinal(i) = 0
          [] b = "upstream" -> Inner(i) = 0
          [] b = "proxy" -> Inner(i) # 0 /\ read[Inner(i)].block = "upstream"
          [] OTHER -> Inner(i) # 0 => read[Inner(i)].block = "upstream" /\ Ordinal(i) = 0

\* The lines nest legally, every setting is found under the key its nesting
\* gives it, the servers of a block numbered from 0 without a gap, proxies and
\* upstreams likewise, and there is nothing else in the dictionary.
SettingsFollowNesting ==
    /\ TypeOK /\ LegalNesting
    /\ \A j \in DOMAIN read : IsPair(j) => dict_search(Meant(j)) = read[j].value
    /\ Len(items) = Cardinality({j \in DOMAIN read : IsPair(j)})

\* The lines that give the global setting k.
Given(k) == {j \in DOMAIN read : IsPair(j) /\ Meant(j) = Key("global", 0, 0, k, 0)}

\* What the program runs with (global_conf_init): nothing of a file that
\* conf_init refused, and of another the settings of its global block alone: a
\* text as it stands there, a number that fits as it is written, one beyond the
\* width of an int by its low bits, and the default for anything else.
SettingsRead ==
    \A k \in Names :
        LET given == {read[j].value : j \in Given(k)}
            c == g_global_conf[k]
        IN  IF status # "0" THEN c = NoValue
            ELSE /\ given = {} => c = Default[k]
                 /\ \A v \in given :
                        CASE k \notin IntNames -> c = v
                          [] k \in IntNames /\ (v = NoDigits \/ v \notin Longs) -> c = Default[k]
                          [] OTHER -> c \in Ints /\ (v - c) % (2 * (INT_MAX + 1)) = 0
=============================================================================
