---------------------------- MODULE MCLockOrder ----------------------------
(***************************************************************************)
(* Mixes of requests for TLC: appointments 1 and 2 of professionals 1 and  *)
(* 2, product 7.                                                           *)
(***************************************************************************)
EXTENDS LockOrder

(* Operations that agree on one order.                                     *)
AgreeingRequests ==
  {Create(1, 1, TRUE, <<7>>), Cancel(1, 1, <<7, 8>>, TRUE), Cancel(2, 2, <<8>>, FALSE),
   Move(1, 1, 2), Move(2, 2, 1), Promote(1, 1), Handover(2, 2, <<8, 7>>), UpdateStatus(2, 2),
   CloseComanda(1, 1, <<>>), AdjustStock(7), JoinOrLeave(1), Elsewhere(2, 1, 1),
   AcceptOffer(3, 2, FALSE), Visit(4, <<2, 1>>, TRUE, <<7>>)}

(* A comanda with a product, and a cancellation that returns it.           *)
ProductRequests ==
  {Create(1, 1, FALSE, <<7>>), Cancel(2, 2, <<7>>, FALSE), CloseComanda(1, 1, <<7>>),
   Reserve(1, 1, <<7>>), AdjustStock(7), UpdateStatus(2, 2)}
=============================================================================
