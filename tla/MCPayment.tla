----------------------------- MODULE MCPayment -----------------------------
(* Lists of routes: two over mediators with one between them that cannot be *)
(* used, the channel with the target itself, a second route that has the    *)
(* amount and not the fee, and two routes that start with the same channel. *)
EXTENDS Payment

hop    == [hop |-> 1, usable |-> TRUE, funded |-> TRUE, settle |-> 6, direct |-> FALSE,
           margin |-> 1]
other  == [hop EXCEPT !.hop = 2]
costly == [other EXCEPT !.funded = FALSE]
poor   == [hop EXCEPT !.hop = 3, !.usable = FALSE, !.funded = FALSE]
direct == [hop EXCEPT !.hop = 4, !.settle = 5, !.direct = TRUE, !.margin = 0]

twoRoutes  == {<<hop, poor, other>>, <<poor, direct>>}
routeLists == twoRoutes \cup {<<hop, hop>>, <<hop, costly>>}

=============================================================================
