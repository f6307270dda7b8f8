---- MODULE MCServices ----
(* The components that talk to an outside service, side by side: they share no *)
(* state. A behaviour starts a scene of one of them and leaves the other quiet.*)
EXTENDS Subscription, Credits

BillingScene(running, clicks, cancels, hooks, faults, invoices) ==
    [running |-> running, clicks |-> clicks, cancels |-> cancels, hooks |-> hooks,
     faults |-> faults, bills |-> invoices]
NoBilling == BillingScene(FALSE, 0, 0, 0, 0, 0)
MCScenes == {NoBilling,
    BillingScene(FALSE, 1, 1, 0, 1, 0), BillingScene(FALSE, 2, 0, 0, 1, 0),
    BillingScene(TRUE, 0, 1, 1, 0, 0), BillingScene(TRUE, 0, 0, 1, 0, 1),
    BillingScene(TRUE, 0, 0, 0, 1, 1), BillingScene(TRUE, 0, 0, 0, 0, 2)}

CreditsScene(open, clicks, pays, looks, requests, grants, faults) ==
    [open |-> open, clicks |-> clicks, pays |-> pays, looks |-> looks,
     requests |-> requests, grants |-> grants, faults |-> faults]
NoCredits == CreditsScene(FALSE, 0, 0, 0, 0, 0, 0)
MCCreditScenes == {NoCredits,
    CreditsScene(FALSE, 2, 1, 0, 0, 0, 1), CreditsScene(TRUE, 0, 3, 0, 0, 0, 0),
    CreditsScene(TRUE, 0, 2, 1, 0, 0, 1), CreditsScene(TRUE, 0, 2, 0, 1, 0, 0),
    CreditsScene(TRUE, 0, 1, 0, 2, 0, 0), CreditsScene(TRUE, 0, 0, 0, 4, 1, 2)}

ServicesInit ==
    /\ SubscriptionInit /\ CreditsInit
    /\ (left = NoBilling) # (budget = NoCredits)
ServicesNext ==
    \/ SubscriptionNext /\ UNCHANGED creditVars
    \/ CreditsNext /\ UNCHANGED subscriptionVars
ServicesSpec ==
    /\ ServicesInit /\ [][ServicesNext]_<<subscriptionVars, creditVars>>
    /\ SubscriptionFairness /\ CreditsFairness
====
