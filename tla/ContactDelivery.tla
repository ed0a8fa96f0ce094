--------------------------- MODULE ContactDelivery ---------------------------
(* What pushes and lists promise a watch: it comes to hold contacts of its  *)
(* own book and no others, and what it holds is not taken back while it is  *)
(* in the book.                                                             *)

CONSTANTS Watches, Contacts, None

VARIABLES book,   \* the watch of each contact that there is
          holds   \* the contacts of the book that each watch holds

Init ==
    /\ book = [k \in Contacts |-> None]
    /\ holds = [w \in Watches |-> {}]

Insert(k, w) ==
    /\ book[k] = None
    /\ book' = [book EXCEPT ![k] = w]
    /\ UNCHANGED holds

Delete(k) ==
    /\ book[k] # None
    /\ book' = [book EXCEPT ![k] = None]
    /\ holds' = [w \in Watches |-> holds[w] \ {k}]

\* By a push, one contact; by a list, any number.
Deliver(w, ks) ==
    /\ ks \subseteq {k \in Contacts : book[k] = w}
    /\ holds' = [holds EXCEPT ![w] = @ \cup ks]
    /\ UNCHANGED book

Next ==
    \/ \E k \in Contacts : Delete(k) \/ \E w \in Watches : Insert(k, w)
    \/ \E w \in Watches : \E ks \in SUBSET Contacts : Deliver(w, ks)

Spec == Init /\ [][Next]_<<book, holds>>
=============================================================================
