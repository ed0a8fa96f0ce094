------------------------------ MODULE ContactFeed -----------------------------
(***************************************************************************)
(* What the TCP server sees of the HTTP workers, whatever they do at the   *)
(* same time: contacts appear in the table, each under a key of its own    *)
(* and to be announced once; they are deleted; and a deleted one comes     *)
(* back, unannounced, when a request that had read it saves it.            *)
(*                                                                         *)
(* ContactPush has these steps for its workers, and ContactApi, which has  *)
(* the statements of each request, is shown to take no others.             *)
(***************************************************************************)
EXTENDS Naturals

CONSTANTS Watches, MaxContacts, None

Contacts == 1 .. MaxContacts

VARIABLES
    book,         \* Contact.device of the rows there are
    deleted,      \* the watch of each contact that was deleted
    unannounced,  \* contacts inserted, and not published yet
    used          \* keys given out, in this order: 1, 2, ...

Init ==
    /\ book = [k \in Contacts |-> None] /\ deleted = [k \in Contacts |-> None]
    /\ unannounced = {} /\ used = 0

Insert(w) ==
    /\ used < MaxContacts /\ used' = used + 1
    /\ book' = [book EXCEPT ![used'] = w]
    /\ unannounced' = unannounced \cup {[watch |-> w, contact |-> used']}
    /\ UNCHANGED deleted

\* The worker is done with the announcement: it was published, or never will be.
Settle(n) ==
    /\ unannounced' = unannounced \ {n}
    /\ UNCHANGED <<book, deleted, used>>

Delete(k) ==
    /\ book[k] # None
    /\ book' = [book EXCEPT ![k] = None]
    /\ deleted' = [deleted EXCEPT ![k] = book[k]]
    /\ UNCHANGED <<unannounced, used>>

\* save() of an instance that was read before the row was deleted.
SaveAgain(k) ==
    /\ book[k] = None /\ deleted[k] # None
    /\ book' = [book EXCEPT ![k] = deleted[k]]
    /\ UNCHANGED <<deleted, unannounced, used>>

Next ==
    \/ \E w \in Watches : Insert(w)
    \/ \E n \in unannounced : Settle(n)
    \/ \E k \in Contacts : Delete(k) \/ SaveAgain(k)

Spec == Init /\ [][Next]_<<book, deleted, unannounced, used>>
=============================================================================
