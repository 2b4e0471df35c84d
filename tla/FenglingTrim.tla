---------------------------- MODULE FenglingTrim ----------------------------
(***************************************************************************)
(* trim of fenglingConf.c: white space cut off both ends of a line, in     *)
(* place.  One loop walks in from both ends at once, with a position and a *)
(* flag for each, and three ways out.  One action is one turn of the loop. *)
(***************************************************************************)
EXTENDS Integers, Sequences

CONSTANTS Chars,
          Spaces        \* the characters isspace accepts

VARIABLES line,         \* the line as it was
          buf,          \* the line in the buffer
          i, s_pos, e_pos,
          s_flag, e_flag,   \* booleans
          pc            \* loop, cut, done

vars == <<line, buf, i, s_pos, e_pos, s_flag, e_flag, pc>>

-----------------------------------------------------------------------------
len == Len(line)

\* *s and *e
First == line[s_pos + 1]
Last == line[len - e_pos]

Init == /\ line \in Seq(Chars)
        /\ buf = line
        /\ i = 0 /\ s_pos = 0 /\ e_pos = 0
        /\ s_flag = FALSE /\ e_flag = FALSE
        /\ pc = IF len = 0 THEN "done" ELSE "loop"

\* The first break: the start is found after the end has been.
FindStart == /\ pc = "loop" /\ ~s_flag /\ e_flag /\ First \notin Spaces
             /\ s_flag' = TRUE
             /\ pc' = "cut"
             /\ UNCHANGED <<line, buf, i, s_pos, e_pos, e_flag>>

\* The second: the end is found, after the start or in the same turn.
FindEnd == /\ pc = "loop" /\ (s_flag \/ First \notin Spaces)
           /\ ~e_flag /\ Last \notin Spaces
           /\ s_flag' = TRUE /\ e_flag' = TRUE
           /\ pc' = "cut"
           /\ UNCHANGED <<line, buf, i, s_pos, e_pos>>

\* A whole turn: each end not found yet moves in.  The third break: the two
\* have passed all of the line; or it was the last of the len turns.
Turn == /\ pc = "loop"
        /\ s_flag' = (s_flag \/ First \notin Spaces)
        /\ e_flag' = (e_flag \/ Last \notin Spaces)
        /\ ~(s_flag' /\ e_flag')
        /\ s_pos' = IF s_flag' THEN s_pos ELSE s_pos + 1
        /\ e_pos' = IF e_flag' THEN e_pos ELSE e_pos + 1
        /\ i' = i + 1
        /\ pc' = IF s_pos' + e_pos' >= len \/ i' = len THEN "cut" ELSE "loop"
        /\ UNCHANGED <<line, buf>>

\* The rest of trim: the line emptied, or moved to the front and terminated.
Cut == /\ pc = "cut"
       /\ buf' = IF s_pos + e_pos >= len THEN <<>> ELSE SubSeq(line, s_pos + 1, len - e_pos)
       /\ pc' = "done"
       /\ UNCHANGED <<line, i, s_pos, e_pos, s_flag, e_flag>>

Next == FindStart \/ FindEnd \/ Turn \/ Cut

Spec == Init /\ [][Next]_vars

-----------------------------------------------------------------------------
\* The two ends pass each other by one character at most, and only in the turn
\* that ends the loop; so every read of *s and *e is inside the line.
TypeOK ==
    /\ line \in Seq(Chars) /\ buf \in Seq(Chars)
    /\ i \in 0 .. len /\ s_pos \in 0 .. len /\ e_pos \in 0 .. len
    /\ s_flag \in BOOLEAN /\ e_flag \in BOOLEAN
    /\ pc \in {"loop", "cut", "done"}
    /\ s_pos + e_pos <= len + 1
    /\ pc = "loop" => s_pos + e_pos < len

\* What trim is for (conf_init calls it before it looks for a comment or an
\* empty line): the line without the white space around it, nothing else lost.
Solid == {k \in 1 .. len : line[k] \notin Spaces}

TrimCorrect ==
    pc = "done" =>
        IF Solid = {} THEN buf = <<>>
        ELSE \E f, l \in Solid : /\ \A k \in Solid : f <= k /\ k <= l
                                 /\ buf = SubSeq(line, f, l)
=============================================================================
