--------------------------- MODULE WatchDialogue ---------------------------
(***************************************************************************)
(* What a connection of the TCP server promises a watch: its packets are   *)
(* handled whole, one at a time, in the order sent, and each that a        *)
(* handler is registered for gets one answer or ends the connection.       *)
(***************************************************************************)
EXTENDS Protocol

CONSTANT Bodies
VARIABLES sent, handled, session, replies, open

dialogue == <<sent, handled, session, replies, open>>

Init == sent = <<>> /\ handled = 0 /\ session = FALSE /\ replies = <<>> /\ open = TRUE

Send(b) == sent' = Append(sent, b) /\ UNCHANGED <<handled, session, replies, open>>

Hangup == open /\ open' = FALSE /\ UNCHANGED <<sent, handled, session, replies>>

\* The packet that is handled next.
This == sent[handled + 1]
Due == open /\ handled < Len(sent) /\ handled' = handled + 1 /\ sent' = sent

Ignore ==
    /\ Due
    /\ WellFormed(This) /\ ~Dispatched(This)
    /\ UNCHANGED <<session, replies, open>>

Answer ==
    /\ Due
    /\ Dispatched(This) /\ ~Raises(This, session)
    /\ session' = (session \/ LogsIn(This))
    /\ replies' = Append(replies, ReplyTo(This, session))
    /\ open' = open

Refuse ==
    /\ Due
    /\ ~WellFormed(This) \/ (Dispatched(This) /\ Raises(This, session))
    /\ open' = FALSE
    /\ UNCHANGED <<session, replies>>

Next == (\E b \in Bodies : Send(b)) \/ Ignore \/ Answer \/ Refuse \/ Hangup

Spec == Init /\ [][Next]_dialogue
=============================================================================
