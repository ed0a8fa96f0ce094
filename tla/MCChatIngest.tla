----------------------------- MODULE MCChatIngest -----------------------------
(* ChatIngest for TLC: the messages of two watches.                          *)
EXTENDS ChatIngest

\* One id is used by both watches.
TwoWatches == {[dev |-> 1, id |-> 1, kind |-> "voice"],
               [dev |-> 2, id |-> 1, kind |-> "text"]}
=============================================================================
