----------------------------- MODULE MCPurchases -----------------------------
(* Two users; two plans on sale, each in one interval only, and a product
   that is no plan; a secret with one key, and one that yields both.        *)
EXTENDS Purchases

CONSTANTS ann, bob, starterMonth, creatorYear, sticker

MCConfigured == [plan \in PaidPlans |-> [interval \in Intervals |->
    CASE plan = "starter" /\ interval = "month" -> starterMonth
      [] plan = "creator" /\ interval = "year" -> creatorYear
      [] OTHER -> None]]

MCVintage == <<"plain", "decoded">>

(* A plan's product without a subscription to it.                          *)
MCOneOffs == {<<bob, starterMonth>>}
=============================================================================
