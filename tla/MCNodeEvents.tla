--------------------------- MODULE MCNodeEvents ----------------------------
(* NodeEvents with small sets, one budget per question.                    *)
EXTENDS NodeEvents

CONSTANTS n1, n2

OneEach == n1 :> "required" @@ n2 :> "optional"

Offer(fee, prop, min, max) == [minFee |-> fee, prop |-> prop, min |-> min, max |-> max]
Ours == Offer(1, 1, 1, 2)
AMenus == {<<>>, <<Offer(2, 1, 1, 3), Offer(1, 2, 1, 3)>>, <<Offer(1, 1, 3, 3), Offer(2, 3, 1, 3)>>}
AJits == {[amount |-> 2, limit |-> Nothing], [amount |-> 3, limit |-> 2],
          [amount |-> 0, limit |-> 1]}
AOrders == {[lsp |-> 2, client |-> 0], [lsp |-> 1, client |-> 1]}
ALimits == {[size |-> 2..3, lsp |-> 2..3, client |-> 0..1],
            [size |-> 1..2, lsp |-> 0..2, client |-> 0..2]}

Kinds == {"opens", "closes", "splices", "inbound", "jits", "losses", "fails", "crashes",
          "calls", "asks", "mails", "uris", "payUris", "snapshots", "polls", "scorePolls",
          "persists"}
Only(budget) == [k \in Kinds |-> IF k \in DOMAIN budget THEN budget[k] ELSE 0]

AllScenarios == {
    Only([opens |-> 2, closes |-> 1]),
    Only([opens |-> 1, inbound |-> 1, closes |-> 1]),
    Only([opens |-> 1, jits |-> 1]),
    Only([opens |-> 1, fails |-> 1, crashes |-> 1, closes |-> 1]),
    Only([opens |-> 1, splices |-> 2, losses |-> 1]),
    Only([jits |-> 1, crashes |-> 1]),
    Only([inbound |-> 2, closes |-> 1]),
    Only([calls |-> 2]),
    Only([asks |-> 4, fails |-> 1]),
    Only([asks |-> 1, fails |-> 1, inbound |-> 1, losses |-> 1, crashes |-> 1]),
    Only([mails |-> 5]),
    Only([uris |-> 1, payUris |-> 2, fails |-> 1]),
    Only([snapshots |-> 2, polls |-> 2, persists |-> 2, crashes |-> 1]),
    Only([snapshots |-> 1, polls |-> 2, persists |-> 1, crashes |-> 2]),
    Only([snapshots |-> 2, polls |-> 2, persists |-> 1, crashes |-> 1, fails |-> 1]),
    Only([snapshots |-> 2, scorePolls |-> 2, fails |-> 1, crashes |-> 1]) }
=============================================================================
