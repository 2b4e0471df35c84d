------------------------------- MODULE MCConf -------------------------------
(* Files of up to seven lines, a number and a text to set besides server, and  *)
(* two chains, so that the keys of different blocks share one.  An int has    *)
(* three bits, so that 5 is kept as -3, and a long five: 20 is beyond it.     *)
EXTENDS FenglingConf

CONSTANTS n, s

MCSign == [k \in Keys |-> k.no + k.sub]
MCTexts == [k \in Names \cup {SERVER} |-> IF k = n THEN Values ELSE {1}]
MCDefault == [k \in Names |-> IF k = n THEN 2 ELSE "default"]
=============================================================================
