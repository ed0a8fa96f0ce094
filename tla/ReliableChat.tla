----------------------------- MODULE ReliableChat -----------------------------
(* What the chat protocol promises ("实现了消息确认（ACK）机制，确保消息可靠送达"): *)
(* a message is confirmed only after it was stored, and stays stored until the   *)
(* operator deletes it.                                                          *)

CONSTANT Messages

VARIABLES stored, deleted, confirmed

Init == stored = {} /\ deleted = {} /\ confirmed = {}

Store(m) ==
    /\ m \notin stored
    /\ stored' = stored \cup {m}
    /\ UNCHANGED <<deleted, confirmed>>

Confirm(m) ==
    /\ m \in (stored \cup deleted) \ confirmed
    /\ confirmed' = confirmed \cup {m}
    /\ UNCHANGED <<stored, deleted>>

Delete(ms) ==
    /\ ms \subseteq stored
    /\ stored' = stored \ ms /\ deleted' = deleted \cup ms
    /\ UNCHANGED confirmed

Next ==
    \/ \E m \in Messages : Store(m) \/ Confirm(m)
    \/ \E ms \in SUBSET Messages : Delete(ms)

Spec == Init /\ [][Next]_<<stored, deleted, confirmed>>
=============================================================================
