------------------------------- MODULE NsSession -------------------------------
(***************************************************************************)
(* What the namespace protocol promises when the client opens and closes *)
(* namespaces and the server answers (spec section 4.4): for each          *)
(* namespace the two tables move through one cycle,                       *)
(*                                                                         *)
(*    neither --Accept--> server --Join--> both --Release--> client        *)
(*            --Leave--> neither                                           *)
(*                                                                         *)
(* The server's OnNamespaceConnect accepts before the client stores the  *)
(* NSConn, and the server deletes its entry before the client does.  A  *)
(* refused request changes neither table.                                 *)
(***************************************************************************)
CONSTANT Namespaces

VARIABLES
    srv,   \* namespaces in the server's table
    cli    \* namespaces in the client's table

Init == srv = {} /\ cli = {}

\* The server's replyConnect accepts a connect request.
Accept(n) == n \notin srv /\ n \notin cli /\ srv' = srv \cup {n} /\ UNCHANGED cli

\* The client's askConnect stores the NSConn after the empty reply.
Join(n) == n \in srv /\ n \notin cli /\ cli' = cli \cup {n} /\ UNCHANGED srv

\* The server's replyDisconnect accepts a disconnect request.
Release(n) == n \in srv /\ n \in cli /\ srv' = srv \ {n} /\ UNCHANGED cli

\* The client's askDisconnect deletes its entry after the empty reply.
Leave(n) == n \notin srv /\ n \in cli /\ cli' = cli \ {n} /\ UNCHANGED srv

Next == \E n \in Namespaces : Accept(n) \/ Join(n) \/ Release(n) \/ Leave(n)

Spec == Init /\ [][Next]_<<srv, cli>>

=============================================================================
