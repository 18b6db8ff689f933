----------------------------- MODULE MCTcpServer -----------------------------
(* Instances of TcpServer for TLC. *)
EXTENDS TcpServer

CONSTANTS c1, c2

MCConns == {c1, c2}

\* Two lines from one client, of which one has two bytes, and one line from
\* the other.
MCLines == c1 :> << <<"a", "b">>, <<"c">> >> @@ c2 :> << <<"x">> >>
MCOneLine == c1 :> << <<"a">> >> @@ c2 :> << <<"x">> >>
==============================================================================
