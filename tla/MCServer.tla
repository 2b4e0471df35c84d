------------------------------ MODULE MCServer ------------------------------
(* A client of x with two tunnels, and one of xx-y: CA takes its name for xx,  *)
(* which does not fit in a slot and is stored as x, and its total for 0.  A    *)
(* stranger says FL and one token.  The Domain is d: a host of the subdomain   *)
(* xd is cut to x as well.  The last request is the ordinary one: its Referer  *)
(* is not in the first line.                                                   *)
EXTENDS FenglingServer, TLC

CONSTANTS t1, t2, t3, n1

MCTunnels == {t1, t2, t3}
MCSubDomain == (t1 :> <<"x">>) @@ (t2 :> <<"x">>) @@ (t3 :> <<"x", "x", "-", "y">>)
MCCMaxPoll == [t \in MCTunnels |-> "2"]
MCSays == n1 :> <<"-", "x">>
MCValue == ("1" :> 1) @@ ("2" :> 2)
MCRequests == {<<"//", "y", "Referer", "//", "x", ".", "d", "eol", "y">>,
               <<"Referer", "//", "x", "d", ".", "d", "eol">>,
               <<"Referer", "x", "//", "x", "x", ".", "d">>,
               <<"eol", "x", "eol", "Referer", "//", "x", ".", "d">>}
=============================================================================
