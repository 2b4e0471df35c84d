---------------------------- MODULE FenglingHash ----------------------------
(***************************************************************************)
(* What the two hashes of fenglingHash.c read of a key of len characters:  *)
(* positions from its start.  The dictionary takes mmhash64 for a function *)
(* of the key (FenglingDict's Sign); it is one because it reads the key's  *)
(* characters, all of them and nothing behind them.                        *)
(***************************************************************************)
EXTENDS Integers

\* The loop reads words of eight characters, the switch falls through the cases
\* from len & 7 down to 1.
mmhash64Words(len) == {8 * w + b : w \in 0 .. (len \div 8) - 1, b \in 0 .. 7}
mmhash64Tail(len) == {8 * (len \div 8) + b : b \in 0 .. (len % 8) - 1}
mmhash64(len) == IF len <= 0 THEN {} ELSE mmhash64Words(len) \cup mmhash64Tail(len)

\* naivehash64, which has no caller, picks eight characters.
naivehash64(len) ==
    CASE len <= 0 -> {}
      [] len \in 1 .. 7 -> 0 .. len - 1
      [] len \in 8 .. 15 -> {1, 3, 4, 7, 9, 11, 13, 15}
      [] len \in 16 .. 31 -> {2, 5, 9, 14, 17, 20, 25, 30}
      [] OTHER -> {3, 6, 7, 12, 16, len - 7, len - 4, len - 1}
=============================================================================
