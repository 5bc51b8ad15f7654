---------------------------- MODULE MCRequests ----------------------------
(* The three specifications of requests that share tables, in one run: an  *)
(* initial state picks the one that moves, the others stand still, so that *)
(* their state spaces add up and do not multiply.                          *)
(*   records    two requests at a time, over a history about to fill its   *)
(*              window;                                                    *)
(*   promotion  two operators, over a paper record one trade short;        *)
(*   login      two e-mails from two addresses: more pairs, and more       *)
(*              addresses, than the tables have room for.                  *)
EXTENDS Records, Promotion, LoginLimit
VARIABLE part
allVars == <<vars, promotionVars, loginVars, part>>

Good == [executed |-> TRUE, accuracy |-> 20, hints |-> {}]
Bad == [executed |-> FALSE, accuracy |-> 0, hints |-> {"error"}]
Dull == [executed |-> FALSE, accuracy |-> 20, hints |-> {"error", "tune"}]
MCRuns == {Good, Bad, Dull}
MCHistories == {<<Good, Good, Bad>>, <<Good, Bad, Dull>>, <<Bad, Dull>>}
\* Tasks and Operators, and Emails and Names, are given the same values.
Symmetry == Permutations(Tasks) \cup Permutations(Emails) \cup Permutations(Ips)

AllInit ==
    /\ part \in {"records", "promotion", "login"}
    /\ Init /\ PromotionInit /\ LoginInit
    /\ part # "records" => users = {} /\ strategy.status = "draft" /\ Len(runs) = 2
AllNext ==
    /\ UNCHANGED part
    /\ \/ part = "records" /\ Next /\ UNCHANGED <<promotionVars, loginVars>>
       \/ part = "promotion" /\ PromotionNext /\ UNCHANGED <<vars, loginVars>>
       \/ part = "login" /\ LoginNext /\ UNCHANGED <<vars, promotionVars>>
AllSpec == AllInit /\ [][AllNext]_allVars
=============================================================================
