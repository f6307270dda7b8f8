----------------------------- MODULE MCBooking -----------------------------
(***************************************************************************)
(* Small salons for TLC: two professionals, slots that touch, overlap and  *)
(* leave less than the buffer between them.                                *)
(***************************************************************************)
EXTENDS Booking, TLC

At(p, f, t) == [pro |-> p, from |-> f, to |-> t]

(* Two professionals; ana's slots are next to each other (the buffer       *)
(* forbids both), bia's stands alone.                                      *)
AgendaSlots == {At("ana", 1, 2), At("ana", 2, 3), At("bia", 1, 2)}
(* One released slot, one that overlaps it and one far away.               *)
QueueSlots == {At("ana", 1, 3), At("ana", 2, 4), At("bia", 1, 3)}

(* A released slot and the one right after it. *)
NextSlots == {At("ana", 1, 3), At("ana", 3, 4)}

(* One slot of each professional. *)
PairSlots == {At("ana", 1, 2), At("bia", 1, 2)}

Booked(s, status) == [AbsentRow EXCEPT !.status = status, !.slot = s, !.ver = 1]
Table(rows) == [a \in Appts |-> IF a \in DOMAIN rows THEN rows[a] ELSE AbsentRow]

EmptyAgenda == {Table(<<>>)}
OneBooked == {Table(<<Booked(At("ana", 1, 2), "CONFIRMED")>>)}
AgendaTables == {Table(<<Booked(At("ana", 1, 2), "PENDING"), Booked(At("bia", 1, 2), "CONFIRMED")>>)}
QueueTables == {Table(<<Booked(At("ana", 1, 3), "CONFIRMED")>>)}

Symmetry == Permutations(Txs) \cup Permutations(Keys)
=============================================================================
