---------------------------- MODULE MCExternalItems ----------------------------
(* Constants of the runs of ExternalItems: an article with an id, and a copy of   *)
(* it without one that comes again with a denial and a tracker in its address.    *)
EXTENDS ExternalItems

CONSTANTS w1, w2, A, B, p, q, deal, denies, wins

Article  == [provider |-> A, id |-> 1, page |-> p, tracker |-> "none",
             title |-> {deal, wins}, published |-> 0]
Copy     == [Article EXCEPT !.provider = B, !.id = NoId, !.page = q, !.title = {deal}]
Reworded == [Copy EXCEPT !.tracker = "utm", !.title = {deal, denies}]

MCPages == {p, q, NoPage}
MCDeliveries == {Article, Copy, Reworded}
=============================================================================
