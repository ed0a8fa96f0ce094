------------------------------ MODULE ChatIngest ------------------------------
(***************************************************************************)
(* Chat messages, from the watch that repeats one until it is acknowledged *)
(* to handle_chat_message_db, which looks for a duplicate, writes the voice *)
(* file, inserts the row and answers with the ACK.                         *)
(*                                                                         *)
(* Handlers run one at a time in the database thread, in the order in which *)
(* their packets were read; but the process may be killed between any two  *)
(* of their steps, packets and ACKs are lost with their connections, and   *)
(* the operator may delete chat logs, and devices with theirs, in between. *)
(* The session of a deleted device goes on, with an instance that has no   *)
(* row: what it brings is refused until the watch logs in again.  A watch   *)
(* that does so has left its earlier connection.                           *)
(*                                                                         *)
(* Bounds: MaxCopies of a message read and not yet handled, MaxFailures,   *)
(* MaxDeletions.                                                           *)
(***************************************************************************)
EXTENDS Naturals, Sequences, FiniteSets

CONSTANTS Messages,    \* records [dev, id, kind], what the watches have to say
          None,        \* no message
          MaxCopies,   \* copies of one message waiting for the thread
          MaxFailures, \* kills of the process and errors of the database
          MaxDeletions \* deletions by the operator

\* "bad" is a message that the parser or the database rejects.
ContentKinds == {"text", "voice", "image", "bad"}

ASSUME ChatIngestAssumption ==
    /\ \A m \in Messages : m.kind \in ContentKinds
    /\ \A m, n \in Messages : m.dev = n.dev /\ m.id = n.id => m = n
    /\ None \notin Messages
    /\ MaxCopies \in Nat /\ MaxFailures \in Nat /\ MaxDeletions \in Nat

VARIABLES
    wire,        \* messages on their way to the server
    queue,       \* messages and logins read, whose handler waits for the thread
    work, step,  \* the message the handler is busy with, and its next step
    chatlog,     \* the ChatLog table, by message_id: the device and what is kept
    files,       \* voice_messages/<udid>/<message_id>.amr, for each message
    acks,        \* ACKs on their way back
    acked,       \* messages whose ACK the watch has received
    rowless,     \* devices deleted, whose watch has not logged in since
    removed,     \* messages whose row was deleted
    failures, deletions

server == <<work, step, chatlog, files>>
network == <<wire, queue, acks>>
operator == <<rowless, removed, deletions>>
vars == <<server, network, acked, operator, failures>>

MessageIds == {m.id : m \in Messages}
Senders == {m.dev : m \in Messages}
Logins == [dev: Senders, id: {None}, kind: {"login"}]
Row == [dev: Senders, content: {"text", "file", "none"}]

TypeOK ==
    /\ wire \subseteq Messages
    /\ queue \in Seq(Messages \cup Logins)
    /\ work \in Messages \cup {None}
    /\ step \in {"idle", "check", "open", "write", "create", "reply"}
    /\ work = None <=> step = "idle"
    /\ DOMAIN chatlog \subseteq MessageIds /\ chatlog \in [DOMAIN chatlog -> Row]
    /\ files \in [Messages -> {"absent", "partial", "whole"}]
    /\ acks \subseteq Messages
    /\ acked \subseteq Messages
    /\ rowless \subseteq Senders /\ removed \subseteq Messages
    /\ deletions \in 0..MaxDeletions
    /\ failures \in 0..MaxFailures

Init ==
    /\ wire = {} /\ queue = <<>>
    /\ work = None /\ step = "idle"
    /\ chatlog = [i \in {} |-> None]
    /\ files = [m \in Messages |-> "absent"]
    /\ acks = {} /\ acked = {}
    /\ rowless = {} /\ removed = {}
    /\ failures = 0 /\ deletions = 0

-----------------------------------------------------------------------------
(* The watches and the network.                                            *)

\* A watch sends a message for which it has no ACK yet, again if need be.
Send(m) ==
    /\ m \notin acked \cup wire
    /\ wire' = wire \cup {m}
    /\ UNCHANGED <<server, queue, acks, acked, operator, failures>>

\* handle_client reads it and calls the handler.
Copies(m) == {i \in DOMAIN queue : queue[i] = m}
Read(m) ==
    /\ m \in wire /\ Cardinality(Copies(m)) < MaxCopies
    /\ wire' = wire \ {m}
    /\ queue' = Append(queue, m)
    /\ UNCHANGED <<server, acks, acked, operator, failures>>

\* A connection breaks: the packet, or the ACK, is not delivered.
LosePacket(m) ==
    /\ m \in wire
    /\ wire' = wire \ {m}
    /\ UNCHANGED <<server, queue, acks, acked, operator, failures>>

LoseAck(m) ==
    /\ m \in acks
    /\ acks' = acks \ {m}
    /\ UNCHANGED <<server, wire, queue, acked, operator, failures>>

ReceiveAck(m) ==
    /\ m \in acks
    /\ acks' = acks \ {m}
    /\ acked' = acked \cup {m}
    /\ UNCHANGED <<server, wire, queue, operator, failures>>

\* The watch of a deleted device logs in again.
LoginOf(d) == [dev |-> d, id |-> None, kind |-> "login"]
LogIn(d) ==
    /\ d \in rowless /\ \A i \in DOMAIN queue : queue[i] # LoginOf(d)
    /\ queue' = Append(queue, LoginOf(d))
    /\ UNCHANGED <<server, wire, acks, acked, operator, failures>>

-----------------------------------------------------------------------------
(* handle_chat_message_db.                                                 *)

Goto(s) == step' = s /\ work' = work
Done == step' = "idle" /\ work' = None

\* The database thread takes the next call: a login creates the device, ...
TakeLogin ==
    /\ work = None /\ queue # <<>> /\ Head(queue) \in Logins
    /\ rowless' = rowless \ {Head(queue).dev}
    /\ queue' = Tail(queue)
    /\ UNCHANGED <<server, wire, acks, acked, removed, deletions, failures>>

\* ... and a message is looked at.
Take ==
    /\ work = None /\ queue # <<>> /\ Head(queue) \in Messages
    /\ work' = Head(queue) /\ step' = "check"
    /\ queue' = Tail(queue)
    /\ UNCHANGED <<chatlog, files, wire, acks, acked, operator, failures>>

\* Faulty variants: the message is looked up for all devices, or not at all.
StoredForAnyone(m) == m.id \in DOMAIN chatlog
StoredForNobody(m) == FALSE

\* ChatLog.objects.filter(device=device_instance, message_id=message_id).exists()
AlreadyStored(m) == m.id \in DOMAIN chatlog /\ chatlog[m.id].dev = m.dev

\* Faulty variant: a duplicate is dropped without a word.
DropDuplicate ==
    /\ step = "check"
    /\ IF AlreadyStored(work) THEN Done
       ELSE IF work.kind = "voice" THEN Goto("open") ELSE Goto("create")
    /\ UNCHANGED <<chatlog, files, network, acked, operator, failures>>

\* A duplicate is acknowledged again, so that the watch stops repeating it.
Check ==
    /\ step = "check"
    /\ IF AlreadyStored(work) THEN Goto("reply")
       ELSE IF work.kind = "voice" THEN Goto("open") ELSE Goto("create")
    /\ UNCHANGED <<chatlog, files, network, acked, operator, failures>>

\* open(file_path, 'wb') empties the file, and write fills it.
OpenFile ==
    /\ step = "open"
    /\ files' = [files EXCEPT ![work] = "partial"]
    /\ Goto("write")
    /\ UNCHANGED <<chatlog, network, acked, operator, failures>>

WriteFile ==
    /\ step = "write"
    /\ files' = [files EXCEPT ![work] = "whole"]
    /\ Goto("create")
    /\ UNCHANGED <<chatlog, network, acked, operator, failures>>

\* What the row keeps of the content: there is no code for an image yet.
Content(k) == IF k = "text" THEN "text" ELSE IF k = "voice" THEN "file" ELSE "none"

\* ChatLog.objects.create.  message_id is unique in the whole table: a bad
\* message, an id that another watch has used, or a message of a device that
\* has no row, is answered without ACK.
Create ==
    /\ step = "create"
    /\ IF work.kind # "bad" /\ work.id \notin DOMAIN chatlog /\ work.dev \notin rowless
       THEN /\ chatlog' = [i \in DOMAIN chatlog \cup {work.id} |->
                             IF i = work.id THEN [dev |-> work.dev, content |-> Content(work.kind)]
                                            ELSE chatlog[i]]
            /\ Goto("reply")
       ELSE Done /\ chatlog' = chatlog
    /\ UNCHANGED <<files, network, acked, operator, failures>>

\* Faulty variant: the message is not let go of.
ReplyAndKeep ==
    /\ step = "reply"
    /\ acks' = acks \cup {work}
    /\ step' = "idle" /\ work' = work
    /\ UNCHANGED <<chatlog, files, wire, queue, acked, operator, failures>>

Reply ==
    /\ step = "reply"
    /\ acks' = acks \cup {work}
    /\ Done
    /\ UNCHANGED <<chatlog, files, wire, queue, acked, operator, failures>>

-----------------------------------------------------------------------------
\* The handler is given up, for an error of the database or of the disk.
Error ==
    /\ work # None /\ failures < MaxFailures
    /\ failures' = failures + 1
    /\ Done
    /\ UNCHANGED <<chatlog, files, network, acked, operator>>

\* The process is killed, and every connection is broken.
Kill ==
    /\ failures < MaxFailures
    /\ failures' = failures + 1
    /\ Done
    /\ wire' = {} /\ queue' = <<>>
    /\ UNCHANGED <<chatlog, files, acks, acked, operator>>

-----------------------------------------------------------------------------
(* The operator, in the admin interface.  The voice files stay.            *)

DeleteRows(ids) ==
    /\ deletions < MaxDeletions /\ deletions' = deletions + 1
    /\ chatlog' = [i \in DOMAIN chatlog \ ids |-> chatlog[i]]
    /\ removed' = removed \cup {m \in Messages : /\ m.id \in ids \cap DOMAIN chatlog
                                                /\ chatlog[m.id].dev = m.dev}
    /\ UNCHANGED <<work, step, files, network, acked, failures>>

DeleteLog(i) ==
    /\ i \in DOMAIN chatlog
    /\ DeleteRows({i})
    /\ rowless' = rowless

\* The chat logs of a device are deleted with it.
DeleteDevice(d) ==
    /\ d \notin rowless /\ rowless' = rowless \cup {d}
    /\ DeleteRows({i \in DOMAIN chatlog : chatlog[i].dev = d})

-----------------------------------------------------------------------------
Handler == TakeLogin \/ Take \/ Check \/ OpenFile \/ WriteFile \/ Create \/ Reply

Next ==
    \/ \E m \in Messages : \/ Send(m) \/ Read(m) \/ LosePacket(m)
                           \/ LoseAck(m) \/ ReceiveAck(m)
    \/ Handler
    \/ Error \/ Kill
    \/ \E d \in Senders : LogIn(d) \/ DeleteDevice(d)
    \/ \E i \in MessageIds : DeleteLog(i)

Spec == Init /\ [][Next]_vars

\* The database thread keeps running.  A watch does not give up a message, and
\* connections are not broken each time before its packet or its ACK is through;
\* the watch of a deleted device connects again, and so logs in, in the end.
Fairness ==
    /\ WF_vars(Handler)
    /\ \A d \in Senders : WF_vars(LogIn(d))
    /\ \A m \in Messages : /\ WF_vars(Send(m))
                           /\ SF_vars(Read(m)) /\ SF_vars(ReceiveAck(m))

FairSpec == Spec /\ Fairness

-----------------------------------------------------------------------------
(* Properties.                                                             *)

\* A row that names a voice file has the whole file, even when its message is
\* repeated, and the handler killed, after it was stored.
RowFileIsWhole ==
    \A m \in Messages :
        m.id \in DOMAIN chatlog /\ chatlog[m.id] = [dev |-> m.dev, content |-> "file"]
          => files[m] = "whole"

\* handle_chat_message_db keeps the promise of the chat protocol: what a watch
\* knows to be acknowledged was stored, as its own, with its file, and stays so
\* until the operator deletes it; nothing that the code does takes it back, not
\* even a late repetition that is stored again.
Stored == {m \in Messages : /\ m.id \in DOMAIN chatlog /\ chatlog[m.id].dev = m.dev
                            /\ m.kind = "voice" => files[m] = "whole"}
Chat == INSTANCE ReliableChat WITH stored <- Stored, deleted <- removed, confirmed <- acked
ImplementsReliableChat == Chat!Spec

\* A well-formed message is acknowledged in the end, whatever was lost on the way,
\* wherever the handler was killed and whatever the operator deletes meanwhile,
\* unless another watch's message has taken its id and keeps it.
TakenByOther(m) == m.id \in DOMAIN chatlog /\ chatlog[m.id].dev # m.dev
GoodMessagesDelivered ==
    \A m \in Messages : m.kind # "bad" => <>(m \in acked) \/ <>[]TakenByOther(m)

\* The ACK mechanism is to deliver messages reliably, those of every watch.
WellFormedMessagesDelivered == \A m \in Messages : m.kind # "bad" => <>(m \in acked)
=============================================================================
