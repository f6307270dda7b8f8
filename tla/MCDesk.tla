---- MODULE MCDesk ----
(* The components of the salon's desk that share no state: a behaviour is a    *)
(* scene of one of them, and the others stay quiet. The same few people and    *)
(* things play the parts of every scene, interchangeably.                      *)
EXTENDS Team, Offers, Dialogue, Visits, Delivery, TLC

CONSTANTS d1, d2, x1, x2, w1, w2, eva, leo, dryer, trio, exception

VARIABLE scene

Pairs == Permutations({d1, d2}) \cup Permutations({x1, x2})

\* Eva and Leo cut and brush hair; Leo does nails, with the salon's one dryer.
DeskServices == [hair |-> [length |-> 1, room |-> NoRoom, staff |-> <<eva, leo>>],
                 brush |-> [length |-> 1, room |-> NoRoom, staff |-> <<eva, leo>>],
                 nails |-> [length |-> 1, room |-> dryer, staff |-> <<leo>>]]
Choice(service, pro, offset) == [service |-> service, pro |-> pro, offset |-> offset]
\* Hair, nails at the same time and a brush; and, by the staff and whatever
\* the hours, hair and nails in one appointment, which holds the dryer throughout.
DeskOrders ==
    (trio :> [choices |-> <<Choice("hair", Anyone, -1), Choice("nails", leo, 0), Choice("brush", Anyone, -1)>>,
              manual |-> FALSE, override |-> FALSE]) @@
    (exception :> [choices |-> <<Choice("hair", leo, -1), Choice("nails", leo, -1)>>,
                   manual |-> TRUE, override |-> TRUE])
DeskParallel == {{"hair", "nails"}}
Booking(pro, from, room) == [pro |-> pro, from |-> from, to |-> from + 1, rooms |-> room]
DeskSingles == {Booking(eva, 0, {dryer}), Booking(leo, 2, {dryer})}
DeskSpans == {[from |-> 0, to |-> 2], [from |-> 2, to |-> 4]}

DeskInit ==
    /\ TeamInit /\ OffersInit /\ DialogueInit /\ VisitsInit /\ DeliveryInit
    /\ scene \in 1..5
    /\ spent.calls # 0 => price = 1
    /\ (scene = 1) = (asks = 0)
    /\ (scene = 2) = (spent.calls = 0)
    /\ (scene = 3) = (\E c \in Calls : call[c].pc = "waiting")
    /\ scene # 5 => client = [devices |-> {}, mail |-> FALSE]

\* A reminder is queued again or a claim of it is lost, not both; and an
\* appointment that leaves the day of the reminder does not come back to it.
DeskReminder == DeliveryNext /\ (queued' = "again" => lapses' = 0) /\ (visit = Elsewhere => visit' = visit)

DeskNext ==
    /\ UNCHANGED scene
    /\ \/ scene = 1 /\ TeamNext /\ UNCHANGED <<offerVars, dialogueVars, visitVars, deliveryVars>>
       \/ scene = 2 /\ OffersNext /\ UNCHANGED <<teamVars, dialogueVars, visitVars, deliveryVars>>
       \/ scene = 3 /\ DialogueNext /\ UNCHANGED <<teamVars, offerVars, visitVars, deliveryVars>>
       \/ scene = 4 /\ VisitsNext /\ UNCHANGED <<teamVars, offerVars, dialogueVars, deliveryVars>>
       \/ scene = 5 /\ DeskReminder /\ UNCHANGED <<teamVars, offerVars, dialogueVars, visitVars>>

DeskSpec ==
    DeskInit /\ [][DeskNext]_<<scene, teamVars, offerVars, dialogueVars, visitVars, deliveryVars>>
====
