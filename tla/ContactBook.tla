----------------------------- MODULE ContactBook -----------------------------
(* What the contact API promises: a book of complete contacts, each request *)
(* taking effect at one moment and touching nothing it was not asked to.    *)
EXTENDS Naturals

CONSTANTS Devices,   \* watches
          Values,    \* phone numbers and names
          Ids,       \* ids the watches know contacts by
          Keys       \* keys of the table

VARIABLE book        \* the contacts in the book, by key

Contact == [user_id: Ids, device: Devices, phone: Values, name: Values, ext: {TRUE}]

Init == book = [k \in {} |-> 0]

\* A new contact, whose id is new and whose number its watch did not have yet.
Add(k, c) ==
    /\ k \notin DOMAIN book
    /\ \A j \in DOMAIN book : book[j].user_id # c.user_id
    /\ \A j \in DOMAIN book : book[j].device = c.device => book[j].phone # c.phone
    /\ book' = [j \in DOMAIN book \cup {k} |-> IF j = k THEN c ELSE book[j]]

\* One field of one contact changes.
Update(k, f, v) == book' = [book EXCEPT ![k][f] = v]

Delete(k) == book' = [j \in DOMAIN book \ {k} |-> book[j]]

Next ==
    \/ \E k \in Keys, c \in Contact : Add(k, c)
    \/ \E k \in DOMAIN book, f \in {"phone", "name"}, v \in Values : Update(k, f, v)
    \/ \E k \in DOMAIN book : Delete(k)

Spec == Init /\ [][Next]_book
=============================================================================
