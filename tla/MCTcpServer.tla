------------------------------ MODULE MCTcpServer ------------------------------
(***************************************************************************)
(* Clients and streams for model-checking TcpServer.                       *)
(***************************************************************************)
EXTENDS TcpServer, TLC

CONSTANTS c1, c2, c3, f3, f16

MCClients  == {c1, c2, c3}
MCRequests == {f3, f16}

Whole(r)   == << [req |-> r, part |-> "front"], [req |-> r, part |-> "back"] >>
Cut(r)     == << [req |-> r, part |-> "front"] >>

(* A whole request, one that breaks off, and a client that only connects.  *)
MCStreams == c1 :> {Whole(f16)} @@ c2 :> {Cut(f3)} @@ c3 :> {<< >>}
===============================================================================
