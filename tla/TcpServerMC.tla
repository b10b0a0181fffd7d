----------------------------- MODULE TcpServerMC -----------------------------
(***************************************************************************)
(* TcpServer for TLC.  Two connections, at a server with room for both or  *)
(* for one; callbacks that call their own connection, as all of netdis     *)
(* does, or any connection; laps that take time; a thread of the user.     *)
(***************************************************************************)
EXTENDS TcpServer

MCConn == 1 .. 2

Setting(limit, maxLag, reach, other) ==
    [limit |-> limit, maxLag |-> maxLag, reach |-> reach, foreign |-> other]

MCAny == {Setting(2, 1, "any", FALSE), Setting(1, 0, "own", TRUE)}
MCOwn == {Setting(2, 0, "own", FALSE), Setting(1, 0, "own", FALSE)}
=============================================================================
