----------------------------- MODULE ContactPush -----------------------------
(***************************************************************************)
(* The way of a contact from the HTTP server to a watch: the worker that   *)
(* inserts and announces it, Redis, the one redis_listener of the TCP      *)
(* server with its two jobs in the database thread, the writer it took     *)
(* from CLIENTS and awaits to drain, and the list that a watch may ask for *)
(* at any time (handle_contact_request_db).                                *)
(*                                                                         *)
(* Sessions has the registry in detail, ContactApi the workers; here a     *)
(* watch connects again only after the server has noticed that its         *)
(* connection is gone.  The watch and Redis are modelled as the code uses  *)
(* them.                                                                   *)
(*                                                                         *)
(* Bounds: MaxContacts contacts inserted, MaxFaults failures of any kind    *)
(* and contacts deleted, MaxSyncs lists asked for.                         *)
(***************************************************************************)
EXTENDS Naturals, Sequences, SequencesExt

CONSTANTS Watches, MaxContacts, None, MaxFaults, MaxSyncs

Contacts == 1 .. MaxContacts
Note == [watch: Watches, contact: Contacts]

ASSUME PushAssumption ==
    /\ None \notin Watches \cup Note
    /\ MaxContacts \in Nat /\ MaxFaults \in Nat /\ MaxSyncs \in Nat

VARIABLES
    book,         \* Contact.device of the rows there are
    deleted,      \* the watch of each contact that was deleted
    unannounced,  \* contacts inserted, and not published yet
    redis,        \* is Redis up?
    channel,      \* notifications that the subscription holds
    subscribed,
    listener,     \* where redis_listener is, its notification and its writer
    peer,         \* the connection of a watch: none, reading, stalled, gone
    conn,         \* the number of that connection
    wire,         \* packets written to it that the watch has not read
    known,        \* the contacts the watch holds
    jobs, done,   \* database jobs, and results whose coroutine is not resumed
    used,         \* ids given out, in this order: 1, 2, ...
    missed,       \* contacts whose announcement was lost somewhere, or that came back without
    blind,        \* this process found Redis down when it was to subscribe
    faults, syncs

http == <<book, deleted, unannounced, used>>
broker == <<redis, channel, subscribed>>
watches == <<peer, conn, wire, known>>
thread == <<jobs, done>>
bounds == <<faults, syncs>>
vars == <<http, broker, listener, watches, thread, missed, blind, bounds>>

Resting == [at |-> "get", note |-> None, conn |-> 0]
Starting == [Resting EXCEPT !.at = "start"]
Dead == [Resting EXCEPT !.at = "dead"]

\* A packet that adds one contact, or the list of all.
Add(k) == [type |-> "add", person |-> {k}]
All(ks) == [type |-> "all", person |-> ks]
AddsIn(s) == UNION {s[i].person : i \in {j \in DOMAIN s : s[j].type = "add"}}
ContactsOf(notes) == {n.contact : n \in notes}

\* A call for watch w, on the connection it has now.
NewJob(k, w) ==
    [kind |-> k, watch |-> w, person |-> {}, conn |-> conn[w], raised |-> FALSE]
OfListener(s) == {i \in DOMAIN s : s[i].kind # "sync"}
Idle(s) == OfListener(s) = {}
Awaits(s) == \E i \in DOMAIN s : OfListener(s) = {i}

TypeOK ==
    /\ book \in [Contacts -> Watches \cup {None}] /\ deleted \in [Contacts -> Watches \cup {None}]
    /\ unannounced \subseteq Note /\ used \in 0 .. MaxContacts
    /\ redis \in BOOLEAN /\ subscribed \in BOOLEAN /\ blind \in BOOLEAN
    /\ channel \in Seq(Note)
    /\ listener.at \in {"start", "get", "lookup", "build", "drain", "sleep", "dead"}
    /\ listener.note \in Note \cup {None}
    /\ IF listener.at \in {"lookup", "build"}
       THEN (Awaits(jobs) /\ Idle(done)) \/ (Idle(jobs) /\ Awaits(done))
       ELSE Idle(jobs) /\ Idle(done)
    /\ peer \in [Watches -> {"none", "reading", "stalled", "gone"}]
    /\ conn \in [Watches -> Nat]
    /\ known \in [Watches -> SUBSET Contacts]
    /\ missed \subseteq 1 .. used

Feed == INSTANCE ContactFeed

Init ==
    /\ Feed!Init
    /\ redis \in BOOLEAN /\ blind = FALSE
    /\ channel = <<>> /\ subscribed = FALSE
    /\ listener = Starting
    /\ peer = [w \in Watches |-> "none"] /\ conn = [w \in Watches |-> 0]
    /\ wire = [w \in Watches |-> <<>>] /\ known = [w \in Watches |-> {}]
    /\ jobs = <<>> /\ done = <<>>
    /\ missed = {}
    /\ faults = 0 /\ syncs = 0

Fault == faults < MaxFaults /\ faults' = faults + 1 /\ syncs' = syncs

-----------------------------------------------------------------------------
(* The HTTP workers: the requests of /contacts, and notify_add_contact.    *)

Insert(w) ==
    /\ Feed!Insert(w)
    /\ UNCHANGED <<broker, listener, watches, thread, missed, blind, bounds>>

\* An exception of publish is printed; Redis keeps nothing for who is not there.
Publish(n) ==
    /\ Feed!Settle(n)
    /\ IF redis /\ subscribed
       THEN channel' = Append(channel, n) /\ missed' = missed
       ELSE channel' = channel /\ missed' = missed \cup {n.contact}
    /\ UNCHANGED <<redis, subscribed, listener, watches, thread, blind, bounds>>

\* The worker is killed between the insertion and the announcement.
WorkerDies(n) ==
    /\ Fault
    /\ Feed!Settle(n)
    /\ missed' = missed \cup {n.contact}
    /\ UNCHANGED <<broker, listener, watches, thread, blind>>

Delete(k) ==
    /\ Fault
    /\ Feed!Delete(k)
    /\ UNCHANGED <<broker, listener, watches, thread, missed, blind>>

\* An update of the deleted contact inserts it again, and announces nothing.
SaveAgain(k) ==
    /\ Feed!SaveAgain(k)
    /\ missed' = missed \cup {k}
    /\ UNCHANGED <<broker, listener, watches, thread, blind, bounds>>

-----------------------------------------------------------------------------
(* Redis and the connections of the watches.                               *)

RedisDown ==
    /\ Fault
    /\ redis /\ redis' = FALSE
    /\ subscribed' = FALSE /\ channel' = <<>>
    /\ missed' = missed \cup ContactsOf(ToSet(channel))
    /\ UNCHANGED <<http, listener, watches, thread, blind>>

RedisUp ==
    /\ ~redis /\ redis' = TRUE
    /\ UNCHANGED <<http, channel, subscribed, listener, watches, thread, missed, blind, bounds>>

\* A watch logs in and is registered.
Login(w) ==
    /\ peer[w] = "none"
    /\ peer' = [peer EXCEPT ![w] = "reading"]
    /\ conn' = [conn EXCEPT ![w] = @ + 1]
    /\ UNCHANGED <<http, broker, listener, wire, known, thread, missed, blind, bounds>>

WatchReads(w) ==
    /\ peer[w] = "reading" /\ wire[w] # <<>>
    /\ LET p == Head(wire[w])
       IN  known' = [known EXCEPT ![w] = IF p.type = "add" THEN @ \cup p.person ELSE p.person]
    /\ wire' = [wire EXCEPT ![w] = Tail(@)]
    /\ UNCHANGED <<http, broker, listener, peer, conn, thread, missed, blind, bounds>>

\* The watch does not read and its buffers are full.
Stall(w) ==
    /\ Fault
    /\ peer[w] = "reading" /\ peer' = [peer EXCEPT ![w] = "stalled"]
    /\ UNCHANGED <<http, broker, listener, conn, wire, known, thread, missed, blind>>

Recover(w) ==
    /\ peer[w] = "stalled" /\ peer' = [peer EXCEPT ![w] = "reading"]
    /\ UNCHANGED <<http, broker, listener, conn, wire, known, thread, missed, blind, bounds>>

Lose(w) ==
    /\ Fault
    /\ peer[w] \in {"reading", "stalled"} /\ peer' = [peer EXCEPT ![w] = "gone"]
    /\ wire' = [wire EXCEPT ![w] = <<>>]
    /\ missed' = missed \cup AddsIn(wire[w])
    /\ UNCHANGED <<http, broker, listener, conn, known, thread, blind>>

\* handle_client of the lost connection ends: del CLIENTS[udid].
Notice(w) ==
    /\ peer[w] = "gone" /\ peer' = [peer EXCEPT ![w] = "none"]
    /\ UNCHANGED <<http, broker, listener, conn, wire, known, thread, missed, blind, bounds>>

\* What is written to a connection that is gone, or is no longer the watch's, is lost.
Write(w, n, p) ==
    IF conn[w] = n /\ peer[w] \in {"reading", "stalled"}
    THEN wire' = [wire EXCEPT ![w] = Append(@, p)] /\ missed' = missed
    ELSE wire' = wire /\ missed' = missed \cup AddsIn(<<p>>)

-----------------------------------------------------------------------------
(* redis_listener.                                                         *)

\* subscribe is awaited before the loop and its try.
Subscribe ==
    /\ listener.at = "start"
    /\ IF redis THEN subscribed' = TRUE /\ listener' = Resting /\ blind' = blind
                ELSE subscribed' = FALSE /\ listener' = Dead /\ blind' = TRUE
    /\ UNCHANGED <<http, redis, channel, watches, thread, missed, bounds>>

\* Faulty variant: the loop is inside the try.
GetEndsLoop ==
    /\ listener.at = "get" /\ ~redis
    /\ listener' = Dead
    /\ UNCHANGED <<http, broker, watches, thread, missed, blind, bounds>>

\* get_message raises: except, and asyncio.sleep(5).
GetRaises ==
    /\ listener.at = "get" /\ ~redis
    /\ listener' = [Resting EXCEPT !.at = "sleep"]
    /\ UNCHANGED <<http, broker, watches, thread, missed, blind, bounds>>

Wake ==
    /\ listener.at = "sleep" /\ listener' = Resting
    /\ UNCHANGED <<http, broker, watches, thread, missed, blind, bounds>>

\* The client library connects and subscribes again.
Resubscribe ==
    /\ listener.at = "get" /\ redis /\ ~subscribed
    /\ subscribed' = TRUE
    /\ UNCHANGED <<http, redis, channel, listener, watches, thread, missed, blind, bounds>>

Registered(w) == peer[w] # "none"

\* A notification for a watch that is not in CLIENTS is dropped.
GetMessage ==
    /\ listener.at = "get" /\ channel # <<>>
    /\ channel' = Tail(channel)
    /\ LET n == Head(channel)
       IN  IF Registered(n.watch)
           THEN /\ listener' = [at |-> "lookup", note |-> n, conn |-> conn[n.watch]]
                /\ jobs' = Append(jobs, NewJob("lookup", n.watch))
                /\ missed' = missed
           ELSE missed' = missed \cup {n.contact} /\ UNCHANGED <<listener, jobs>>
    /\ UNCHANGED <<http, redis, subscribed, watches, done, blind, bounds>>

\* The row of the watch is read; a second job builds the packet.
ResumeLookup ==
    /\ done # <<>> /\ Head(done).kind = "lookup" /\ ~Head(done).raised
    /\ done' = Tail(done)
    /\ listener' = [listener EXCEPT !.at = "build"]
    /\ jobs' = Append(jobs, [Head(done) EXCEPT !.kind = "build", !.person = {listener.note.contact}])
    /\ UNCHANGED <<http, broker, watches, missed, blind, bounds>>

\* handle_add_contact_push_db returned the packet, or None for a contact that is gone.
ResumeBuild ==
    /\ done # <<>> /\ Head(done).kind = "build" /\ ~Head(done).raised
    /\ done' = Tail(done)
    /\ LET r == Head(done)
       IN  IF r.person = {}
           THEN listener' = Resting /\ UNCHANGED <<wire, missed>>
           ELSE /\ Write(r.watch, r.conn, Add(listener.note.contact))
                /\ listener' = [listener EXCEPT !.at = "drain"]
    /\ UNCHANGED <<http, broker, peer, conn, known, jobs, blind, bounds>>

\* objects.get or handle_add_contact_push_db raised: the inner except logs it, and
\* the notification is dropped.
ResumeRaised ==
    /\ done # <<>> /\ Head(done).kind # "sync" /\ Head(done).raised
    /\ done' = Tail(done)
    /\ listener' = Resting
    /\ missed' = missed \cup {listener.note.contact}
    /\ UNCHANGED <<http, broker, watches, jobs, blind, bounds>>

\* await writer.drain() of a peer that does not read.
Blocked ==
    /\ listener.at = "drain"
    /\ peer[listener.note.watch] = "stalled" /\ conn[listener.note.watch] = listener.conn

Drained ==
    /\ listener.at = "drain" /\ ~Blocked
    /\ listener' = Resting
    /\ UNCHANGED <<http, broker, watches, thread, missed, blind, bounds>>

-----------------------------------------------------------------------------
(* The watch asks for all contacts; the database thread.                   *)

AskAll(w) ==
    /\ syncs < MaxSyncs /\ syncs' = syncs + 1 /\ faults' = faults
    /\ peer[w] = "reading"
    /\ jobs' = Append(jobs, NewJob("sync", w))
    /\ UNCHANGED <<http, broker, listener, watches, done, missed, blind>>

\* The contacts that a job finds.
Selected(j) ==
    {k \in Contacts : j.kind # "lookup" /\ book[k] = j.watch
                       /\ (j.kind = "build" => k \in j.person)}

\* Faulty variant: the last result is delivered first.
FinishLast(r) == done' = <<r>> \o done

\* Faulty variant: a call that raised has no result.
FinishFound(r) == done' = IF r.kind = "build" /\ r.person = {} THEN done ELSE Append(done, r)

Finish(r) == done' = Append(done, r)

RunJob ==
    /\ jobs # <<>> /\ jobs' = Tail(jobs)
    /\ Finish([Head(jobs) EXCEPT !.person = Selected(Head(jobs))])
    /\ UNCHANGED <<http, broker, listener, watches, missed, blind, bounds>>

\* The database is locked, or the row of the watch is gone: the call raises.
JobRaises ==
    /\ Fault
    /\ jobs # <<>> /\ jobs' = Tail(jobs)
    /\ Finish([Head(jobs) EXCEPT !.raised = TRUE, !.person = {}])
    /\ UNCHANGED <<http, broker, listener, watches, missed, blind>>

\* handle_general_message catches what the list raised: an error packet instead.
ResumeSync ==
    /\ done # <<>> /\ Head(done).kind = "sync"
    /\ done' = Tail(done)
    /\ IF Head(done).raised THEN UNCHANGED <<wire, missed>>
       ELSE Write(Head(done).watch, Head(done).conn, All(Head(done).person))
    /\ UNCHANGED <<http, broker, listener, peer, conn, known, jobs, blind, bounds>>

\* What the process holds in memory goes with it.
InMemory == ContactsOf(ToSet(channel) \cup ({listener.note} \ {None}))
              \cup UNION {AddsIn(wire[w]) : w \in Watches}

Restart ==
    /\ Fault
    /\ listener' = Starting
    /\ channel' = <<>> /\ subscribed' = FALSE
    /\ jobs' = <<>> /\ done' = <<>>
    /\ peer' = [w \in Watches |-> "none"]
    /\ wire' = [w \in Watches |-> <<>>]
    /\ missed' = missed \cup InMemory
    /\ blind' = FALSE
    /\ UNCHANGED <<http, redis, conn, known>>

-----------------------------------------------------------------------------
Loop == Subscribe \/ GetRaises \/ Wake \/ Resubscribe \/ GetMessage
          \/ ResumeLookup \/ ResumeBuild \/ ResumeRaised \/ Drained \/ ResumeSync

Next ==
    \/ Loop \/ RunJob \/ JobRaises \/ Restart
    \/ RedisDown \/ RedisUp
    \/ \E n \in unannounced : Publish(n) \/ WorkerDies(n)
    \/ \E k \in Contacts : Delete(k) \/ SaveAgain(k)
    \/ \E w \in Watches : \/ Login(w) \/ WatchReads(w) \/ Stall(w) \/ Recover(w)
                          \/ Lose(w) \/ Notice(w) \/ AskAll(w) \/ Insert(w)

Spec == Init /\ [][Next]_vars

(* The event loop, the thread and the workers go on, and a watch reads unless it  *)
(* is stalled; nothing is assumed of Redis, or of watches that recover or return. *)
Fairness ==
    /\ WF_vars(Subscribe \/ Wake \/ Resubscribe \/ GetMessage \/ Drained)
    /\ WF_vars(ResumeLookup \/ ResumeBuild \/ ResumeRaised \/ ResumeSync)
    /\ WF_vars(RunJob \/ JobRaises)
    /\ WF_vars(\E n \in unannounced : Publish(n))
    /\ \A w \in Watches : WF_vars(WatchReads(w)) /\ WF_vars(Notice(w))

FairSpec == Spec /\ Fairness

-----------------------------------------------------------------------------
(* Properties.                                                             *)

\* Pushes and lists together: whatever is resumed, lost or restarted in between, a watch
\* holds more and more of its own book, and a list that was asked for before a push takes
\* nothing back.  A contact that was deleted is none of the book, even if it comes back.
Lasting == [k \in Contacts |-> IF deleted[k] = None THEN book[k] ELSE None]
Holds == [w \in Watches |-> {k \in known[w] : Lasting[k] # None}]
Delivery == INSTANCE ContactDelivery WITH book <- Lasting, holds <- Holds
ImplementsDelivery == Delivery!Spec

Announcing == ContactsOf(unannounced) \cup InMemory

\* A contact in the book is on the watch, on its way, or was lost where the code loses
\* it: with a worker, with Redis, with a watch that is not registered, with a call of the
\* listener that raises, with a connection, with the process; or it was deleted and a
\* save put it back, which nothing announces.
NothingForgotten ==
    \A k \in Contacts : book[k] # None => k \in known[book[k]] \cup Announcing \cup missed

\* The listener comes back for the next notification, whatever Redis, its calls, a
\* connection or a deletion do, unless it waits for ever for one peer that does not read,
\* or has ended because Redis was down when it was to subscribe.
PushesGoOn ==
    \/ []<>(listener.at = "get")
    \/ <>[]Blocked
    \/ <>[](listener.at = "dead" /\ blind)

\* A contact is known to its watch in the end, or deleted, or was lost; unless some
\* watch has stopped to read for ever.
EventuallyKnown ==
    (\E w \in Watches : <>[](peer[w] = "stalled")) \/
    \A k \in Contacts :
        book[k] # None ~> \/ book[k] = None \/ k \in missed
                          \/ k \in known[book[k]]
=============================================================================
