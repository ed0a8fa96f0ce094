--------------------------- MODULE ChatIngestProofs ---------------------------
(***************************************************************************)
(* ChatIngest implements ReliableChat, for any messages and any bounds.    *)
(***************************************************************************)
EXTENDS ChatIngest, TLAPS

-----------------------------------------------------------------------------
(* The inductive invariant.                                                *)

\* While a message is being saved it has no row yet, and the file of a voice
\* message is whole before its row is inserted.
SavesNewMessage ==
    /\ step \in {"open", "write", "create"} => ~AlreadyStored(work)
    /\ step = "create" /\ work.kind = "voice" => files[work] = "whole"

\* A row keeps what its message brought, and comes after the file.
RowOfMessage ==
    \A m \in Messages : AlreadyStored(m) =>
        /\ chatlog[m.id].content = Content(m.kind)
        /\ m.kind = "voice" => files[m] = "whole"

\* Every ACK, sent, received or about to be sent, is for a message that is
\* stored, or was until the operator deleted it.
WasStored(m) == AlreadyStored(m) \/ m \in removed

AcksOfStored ==
    /\ \A m \in acks \cup acked : WasStored(m)
    /\ step = "reply" => WasStored(work)

IInv == TypeOK /\ SavesNewMessage /\ RowOfMessage /\ AcksOfStored

\* What the invariant says of the message at work.
LEMMA AtWork ==
    ASSUME TypeOK, step # "idle"
    PROVE  work \in Messages
BY DEF TypeOK

\* A step that leaves the table and the files alone leaves the stored ones alone.
LEMMA SameTable ==
    ASSUME UNCHANGED <<chatlog, files>>
    PROVE  /\ \A m \in Messages : AlreadyStored(m)' <=> AlreadyStored(m)
           /\ Stored' = Stored
BY DEF AlreadyStored, Stored

\* Create gives up, or the stored messages are those there were and the new one.
GivesUp == UNCHANGED <<chatlog, files>> /\ step' = "idle" /\ work' = None
Inserts ==
    /\ work \in Messages /\ work' = work /\ step' = "reply" /\ files' = files
    /\ \A m \in Messages : AlreadyStored(m)' <=> (AlreadyStored(m) \/ m = work)
    /\ chatlog'[work.id].content = Content(work.kind)
    /\ \A m \in Messages : AlreadyStored(m) => chatlog'[m.id] = chatlog[m.id]

LEMMA CreateEffect ==
    ASSUME IInv, Create
    PROVE  GivesUp \/ Inserts
<1>1. work \in Messages
  BY AtWork DEF IInv, Create
<1>2. CASE work.kind # "bad" /\ work.id \notin DOMAIN chatlog /\ work.dev \notin rowless
  <2>1. /\ work' = work /\ step' = "reply" /\ files' = files
        /\ DOMAIN chatlog' = DOMAIN chatlog \cup {work.id}
        /\ chatlog'[work.id] = [dev |-> work.dev, content |-> Content(work.kind)]
        /\ \A i \in DOMAIN chatlog : i # work.id /\ chatlog'[i] = chatlog[i]
    BY <1>2 DEF Create, Goto
  <2>2. ASSUME NEW m \in Messages
        PROVE  AlreadyStored(m)' <=> (AlreadyStored(m) \/ m = work)
    <3>1. CASE m.id \in DOMAIN chatlog
      BY <1>2, <2>1, <3>1 DEF AlreadyStored
    <3>2. CASE m.id \notin DOMAIN chatlog /\ m.id # work.id
      BY <2>1, <3>2 DEF AlreadyStored
    <3>3. CASE m.id = work.id
      <4>1. ~AlreadyStored(m)
        BY <1>2, <3>3 DEF AlreadyStored
      <4>2. AlreadyStored(m)' <=> m.dev = work.dev
        BY <2>1, <3>3 DEF AlreadyStored
      <4> QED
        BY <1>1, <3>3, <4>1, <4>2, ChatIngestAssumption
    <3> QED
      BY <3>1, <3>2, <3>3
  <2> QED
    BY <1>1, <2>1, <2>2 DEF Inserts, AlreadyStored
<1>3. CASE ~(work.kind # "bad" /\ work.id \notin DOMAIN chatlog /\ work.dev \notin rowless)
  BY <1>3 DEF Create, Done, GivesUp
<1> QED
  BY <1>2, <1>3

\* The operator's deletions.
Deletes ==
    \/ \E d \in Senders : DeleteDevice(d)
    \/ \E i \in MessageIds : DeleteLog(i)

LEMMA DeleteEffect ==
    ASSUME TypeOK, Deletes
    PROVE  /\ UNCHANGED <<work, step, files, wire, queue, acks, acked, failures>>
           /\ rowless' \subseteq Senders /\ deletions' \in 0..MaxDeletions
           /\ removed \subseteq removed' /\ removed' \subseteq Messages
           /\ \E ids :
                 /\ DOMAIN chatlog' = DOMAIN chatlog \ ids
                 /\ chatlog' \in [DOMAIN chatlog' -> Row]
                 /\ \A m \in Messages : AlreadyStored(m)' <=> AlreadyStored(m) /\ m.id \notin ids
                 /\ \A m \in Messages : AlreadyStored(m)' => chatlog'[m.id] = chatlog[m.id]
                 /\ removed' = removed \cup {m \in Messages : AlreadyStored(m) /\ m.id \in ids}
<1>1. PICK ids : DeleteRows(ids)
  BY DEF Deletes, DeleteDevice, DeleteLog
<1>2. /\ chatlog' = [i \in DOMAIN chatlog \ ids |-> chatlog[i]]
      /\ UNCHANGED <<work, step, files, wire, queue, acks, acked, failures>>
      /\ deletions' = deletions + 1 /\ deletions < MaxDeletions
  BY <1>1 DEF DeleteRows, network
<1>3. removed' = removed \cup {m \in Messages : AlreadyStored(m) /\ m.id \in ids}
  BY <1>1 DEF DeleteRows, AlreadyStored
<1>4. rowless' \subseteq Senders
  BY DEF Deletes, DeleteDevice, DeleteLog, TypeOK
<1>5. deletions' \in 0..MaxDeletions
  BY <1>2, ChatIngestAssumption DEF TypeOK
<1>6. /\ DOMAIN chatlog' = DOMAIN chatlog \ ids
      /\ chatlog' \in [DOMAIN chatlog' -> Row]
      /\ \A m \in Messages : AlreadyStored(m)' <=> AlreadyStored(m) /\ m.id \notin ids
      /\ \A m \in Messages : AlreadyStored(m)' => chatlog'[m.id] = chatlog[m.id]
  BY <1>2 DEF AlreadyStored, TypeOK
<1> QED
  BY <1>2, <1>3, <1>4, <1>5, <1>6 DEF TypeOK

-----------------------------------------------------------------------------
(* The invariant is inductive.                                             *)

\* The server starts without messages.
LEMMA InitInv == Init => IInv
<1> SUFFICES ASSUME Init PROVE IInv
  OBVIOUS
<1> USE DEF Init
<1>1. \A m : ~AlreadyStored(m)
  BY DEF AlreadyStored
<1>2. TypeOK
  BY ChatIngestAssumption DEF TypeOK
<1> QED
  BY <1>1, <1>2 DEF IInv, SavesNewMessage, RowOfMessage, AcksOfStored

\* No step leaves the declared types.
LEMMA TypeStep == TypeOK /\ [Next]_vars => TypeOK'
<1> SUFFICES ASSUME TypeOK, [Next]_vars PROVE TypeOK'
  OBVIOUS
<1> USE ChatIngestAssumption DEF TypeOK, server, network, operator, Goto, Done
<1>0. CASE Deletes
  BY <1>0, DeleteEffect
<1>1. ASSUME NEW m \in Messages, Send(m) \/ LosePacket(m) \/ LoseAck(m) \/ ReceiveAck(m)
      PROVE  TypeOK'
  BY <1>1 DEF Send, LosePacket, LoseAck, ReceiveAck
<1>2. ASSUME NEW m \in Messages, Read(m) PROVE TypeOK'
  BY <1>2 DEF Read
<1>3. CASE Take \/ TakeLogin
  <2>1. Tail(queue) \in Seq(Messages \cup Logins) /\ rowless \ {Head(queue).dev} \subseteq Senders
    BY <1>3 DEF Take, TakeLogin
  <2> QED
    BY <1>3, <2>1 DEF Take, TakeLogin
<1>8. ASSUME NEW d \in Senders, LogIn(d) PROVE TypeOK'
  <2>1. LoginOf(d) \in Logins
    BY DEF LoginOf, Logins
  <2> QED
    BY <1>8, <2>1 DEF LogIn
<1>4. CASE Check \/ OpenFile \/ WriteFile \/ Reply
  BY <1>4, AtWork DEF Check, OpenFile, WriteFile, Reply
<1>5. CASE Create
  <2>1. work \in Messages
    BY <1>5 DEF Create
  <2>2. work.id \in MessageIds /\ [dev |-> work.dev, content |-> Content(work.kind)] \in Row
    BY <2>1 DEF MessageIds, Senders, Row, Content
  <2> QED
    BY <1>5, <2>1, <2>2 DEF Create
<1>6. CASE Error \/ Kill
  <2>1. failures' \in 0..MaxFailures /\ <<>> \in Seq(Messages \cup Logins)
    BY <1>6 DEF Error, Kill
  <2> QED
    BY <1>6, <2>1 DEF Error, Kill
<1>7. CASE UNCHANGED vars
  BY <1>7 DEF vars
<1> QED
  BY <1>0, <1>1, <1>2, <1>3, <1>4, <1>5, <1>6, <1>7, <1>8 DEF Next, Handler, Deletes

\* No step of the handler saves a message twice, or its row before its file.
LEMMA SavesStep == IInv /\ [Next]_vars => SavesNewMessage'
<1> SUFFICES ASSUME IInv, [Next]_vars PROVE SavesNewMessage'
  OBVIOUS
<1>t. TypeOK /\ TypeOK'
  BY TypeStep DEF IInv
<1>1. CASE UNCHANGED <<work, step, chatlog, files>>
  BY <1>1 DEF IInv, SavesNewMessage, AlreadyStored
<1>2. CASE step' \in {"idle", "check", "reply"}
  BY <1>2 DEF SavesNewMessage
<1>3. CASE Check
  BY <1>3, <1>t, AtWork DEF Check, Goto, SavesNewMessage, AlreadyStored
<1>4. CASE OpenFile \/ WriteFile
  BY <1>4, <1>t, AtWork DEF OpenFile, WriteFile, Goto, IInv, SavesNewMessage, AlreadyStored, TypeOK
<1>5. CASE Create
  BY <1>2, <1>5, CreateEffect DEF GivesUp, Inserts
<1>6. CASE Deletes
  BY <1>6, <1>t, DeleteEffect, AtWork DEF IInv, SavesNewMessage
<1> QED
  BY <1>1, <1>2, <1>3, <1>4, <1>5, <1>6
     DEF Next, Handler, vars, server, Send, Read, LosePacket, LoseAck, ReceiveAck,
         LogIn, TakeLogin, Take, Reply, Error, Kill, Done, Deletes

\* No step makes a row lose its content or its file.
LEMMA RowStep == IInv /\ [Next]_vars => RowOfMessage'
<1> SUFFICES ASSUME IInv, [Next]_vars PROVE RowOfMessage'
  OBVIOUS
<1>1. CASE UNCHANGED <<chatlog, files>>
  BY <1>1 DEF IInv, RowOfMessage, AlreadyStored
<1>2. CASE OpenFile \/ WriteFile
  <2>1. work \in Messages /\ ~AlreadyStored(work)
    BY <1>2, AtWork DEF OpenFile, WriteFile, IInv, SavesNewMessage
  <2>2. chatlog' = chatlog /\ \A m \in Messages : m # work => files'[m] = files[m]
    BY <1>2, <2>1 DEF OpenFile, WriteFile, IInv, TypeOK
  <2> QED
    BY <2>1, <2>2 DEF IInv, RowOfMessage, AlreadyStored
<1>3. CASE Create /\ Inserts
  <2>1. work.kind = "voice" => files[work] = "whole"
    BY <1>3 DEF Create, IInv, SavesNewMessage
  <2> QED
    BY <1>3, <2>1 DEF Inserts, IInv, RowOfMessage
<1>4. CASE Deletes
  BY <1>4, DeleteEffect DEF IInv, RowOfMessage
<1> QED
  BY <1>1, <1>2, <1>3, <1>4, CreateEffect
     DEF Next, Handler, vars, server, Send, Read, LosePacket, LoseAck, ReceiveAck,
         LogIn, TakeLogin, Take, Check, Reply, Error, Kill, GivesUp, Deletes

\* No step sends an ACK for a message that was never stored, or unstores one.
LEMMA AcksStep == IInv /\ [Next]_vars => AcksOfStored'
<1> SUFFICES ASSUME IInv, [Next]_vars PROVE AcksOfStored'
  OBVIOUS
<1>t. acks \subseteq Messages /\ acked \subseteq Messages /\ TypeOK
  BY DEF IInv, TypeOK
<1>0. CASE Deletes
  <2>1. \A m \in Messages : WasStored(m) => WasStored(m)'
    BY <1>0, <1>t, DeleteEffect DEF WasStored
  <2>2. UNCHANGED <<acks, acked, step, work>>
    BY <1>0, <1>t, DeleteEffect
  <2> QED
    BY <1>t, <2>1, <2>2, AtWork DEF IInv, AcksOfStored
<1>1. CASE UNCHANGED <<chatlog, removed>> /\ step' # "reply" /\ acks' \cup acked' \subseteq acks \cup acked
  BY <1>1 DEF IInv, AcksOfStored, WasStored, AlreadyStored
<1>2. CASE UNCHANGED <<chatlog, removed, step, work>> /\ acks' \cup acked' \subseteq acks \cup acked
  BY <1>2 DEF IInv, AcksOfStored, WasStored, AlreadyStored
<1>3. CASE Check
  BY <1>3 DEF Check, Goto, network, operator, IInv, AcksOfStored, WasStored, AlreadyStored
<1>4. CASE Reply
  BY <1>4 DEF Reply, Done, operator, IInv, AcksOfStored, WasStored, AlreadyStored
<1>5. CASE Create /\ Inserts
  BY <1>5, <1>t DEF Create, Inserts, network, operator, IInv, AcksOfStored, WasStored
<1>6. CASE Create /\ GivesUp
  BY <1>1, <1>6 DEF Create, GivesUp, network, operator
<1>7. ASSUME NEW m \in Messages, LoseAck(m) \/ ReceiveAck(m)
      PROVE  AcksOfStored'
  BY <1>2, <1>7 DEF LoseAck, ReceiveAck, server, operator
<1>8. ASSUME NEW m \in Messages, Send(m) \/ Read(m) \/ LosePacket(m)
      PROVE  AcksOfStored'
  BY <1>2, <1>8 DEF Send, Read, LosePacket, server, operator
<1>9. CASE Take \/ OpenFile \/ WriteFile \/ Error \/ Kill
  BY <1>1, <1>9 DEF Take, OpenFile, WriteFile, Error, Kill, Goto, Done, network, operator
<1>10. CASE TakeLogin \/ UNCHANGED vars
  BY <1>2, <1>10 DEF TakeLogin, vars, server, network, operator
<1>11. ASSUME NEW d \in Senders, LogIn(d)
       PROVE  AcksOfStored'
  BY <1>2, <1>11 DEF LogIn, server, operator
<1> QED
  BY <1>0, <1>3, <1>4, <1>5, <1>6, <1>7, <1>8, <1>9, <1>10, <1>11, CreateEffect
     DEF Next, Handler, Deletes

\* The inductive invariant holds in every reachable state.
THEOREM Inductive == Spec => []IInv
<1>1. IInv /\ [Next]_vars => IInv'
  BY TypeStep, SavesStep, RowStep, AcksStep DEF IInv
<1> QED
  BY <1>1, InitInv, PTL DEF Spec

\* Every variable of the chat model keeps its type.
THEOREM TypeCorrect == Spec => []TypeOK
<1>1. IInv => TypeOK
  BY DEF IInv
<1> QED
  BY <1>1, Inductive, PTL

\* A row that names a voice file has the whole file, however often its message
\* is repeated and wherever the handler is killed.
THEOREM FilesAreWhole == Spec => []RowFileIsWhole
<1>1. IInv => RowFileIsWhole
  BY DEF IInv, RowOfMessage, RowFileIsWhole, AlreadyStored, Content
<1> QED
  BY <1>1, Inductive, PTL

-----------------------------------------------------------------------------
(* Refinement.                                                             *)

\* Among the messages, the stored ones are those that have their row.
LEMMA StoredHasRow ==
    IInv => /\ Stored \subseteq Messages
            /\ \A m \in Messages : m \in Stored <=> AlreadyStored(m)
BY DEF IInv, RowOfMessage, Stored, AlreadyStored

\* An insertion stores a message, a received ACK confirms one, the operator deletes
\* some, and no other step changes what is stored, deleted or confirmed.
LEMMA StepRefinement ==
    ASSUME IInv, IInv', [Next]_vars
    PROVE  [Chat!Next]_<<Stored, removed, acked>>
<1>s. /\ Stored \subseteq Messages /\ \A m \in Messages : m \in Stored <=> AlreadyStored(m)
      /\ Stored' \subseteq Messages /\ \A m \in Messages : m \in Stored' <=> AlreadyStored(m)'
  <2>1. (Stored \subseteq Messages /\ \A m \in Messages : m \in Stored <=> AlreadyStored(m))'
    BY StoredHasRow, PTL
  <2> QED
    BY <2>1, StoredHasRow
<1>1. CASE UNCHANGED <<chatlog, removed, acked>>
  <2>1. Stored' = Stored
    BY <1>s, <1>1 DEF AlreadyStored
  <2> QED
    BY <1>1, <2>1
<1>2. CASE Create /\ Inserts
  <2>1. acked' = acked /\ removed' = removed /\ work \in Messages
    BY <1>2 DEF Create, Inserts, network, operator
  <2>2. Stored' = Stored \cup {work}
    BY <1>s, <1>2 DEF Inserts
  <2>3. work \notin Stored
    BY <1>s, <1>2, <2>1 DEF Create, IInv, SavesNewMessage
  <2> QED
    BY <2>1, <2>2, <2>3 DEF Chat!Next, Chat!Store
<1>3. ASSUME NEW m \in Messages, ReceiveAck(m)
      PROVE  [Chat!Next]_<<Stored, removed, acked>>
  <2>1. Stored' = Stored /\ removed' = removed
    BY <1>s, <1>3 DEF ReceiveAck, server, operator, AlreadyStored
  <2>2. m \in Stored \cup removed /\ acked' = acked \cup {m}
    BY <1>s, <1>3 DEF ReceiveAck, IInv, AcksOfStored, WasStored
  <2>3. m \in acked => acked' = acked
    BY <2>2
  <2>4. m \notin acked => Chat!Confirm(m)
    BY <2>1, <2>2 DEF Chat!Confirm
  <2> QED
    BY <2>1, <2>3, <2>4 DEF Chat!Next
<1>4. CASE Deletes
  <2>1. TypeOK /\ acked' = acked
    BY <1>4, DeleteEffect DEF IInv
  <2>2. PICK ids : /\ \A m \in Messages : AlreadyStored(m)' <=> AlreadyStored(m) /\ m.id \notin ids
                   /\ removed' = removed \cup {m \in Messages : AlreadyStored(m) /\ m.id \in ids}
    BY <1>4, <2>1, DeleteEffect
  <2> DEFINE ms == {m \in Messages : AlreadyStored(m) /\ m.id \in ids}
  <2>3. ms \subseteq Stored /\ Stored' = Stored \ ms /\ removed' = removed \cup ms
    BY <1>s, <2>2
  <2>4. ms \in SUBSET Messages
    OBVIOUS
  <2> HIDE DEF ms
  <2> QED
    BY <2>1, <2>3, <2>4 DEF Chat!Next, Chat!Delete
<1> QED
  BY <1>1, <1>2, <1>3, <1>4, CreateEffect
     DEF Next, Handler, vars, server, network, operator, Send, Read, LosePacket, LoseAck, LogIn,
         TakeLogin, Take, Check, OpenFile, WriteFile, Create, Reply, Error, Kill, GivesUp, Deletes

\* handle_chat_message_db, its retries, its crashes and the deletions of the operator
\* included, implements the promise of the chat protocol: confirmed only after it was
\* stored, and stored until the operator deletes it.
THEOREM Refinement == Spec => ImplementsReliableChat
<1>1. Init => Chat!Init
  BY DEF Init, Chat!Init, Stored
<1> QED
  BY <1>1, Inductive, StepRefinement, PTL DEF Spec, ImplementsReliableChat, Chat!Spec
=============================================================================
