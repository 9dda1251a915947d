------------------------------ MODULE MCHomeNode -----------------------------
(* Model checking of HomeNode: up to four guests on three physical nodes, so *)
(* that homes have to be shared only when all guests are there.  Guests 2 to *)
(* 4 are not present everywhere, which makes the search back up, and guest 3 *)
(* has no node 1: its default home is not one of its nodes.                  *)
EXTENDS HomeNode, TLC

MCPnodeOf == (1 :> <<1, 2, 3>>) @@ (2 :> <<1, 2>>) @@ (3 :> (2 :> 1))
                @@ (4 :> (1 :> 3 @@ 2 :> 2))
=============================================================================
