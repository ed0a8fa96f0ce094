------------------------------ MODULE Sessions ------------------------------
(***************************************************************************)
(* The TCP server of run_tcp_server.py: one handle_client coroutine per    *)
(* connection, the CLIENTS registry from udid to writer, the single        *)
(* database thread every handler is sent to, and the redis_listener        *)
(* coroutine that pushes new contacts to registered writers.               *)
(*                                                                         *)
(* What the asyncio loop runs between two awaits is one action.  A handler *)
(* decorated with database_sync_to_async runs in one shared thread, so the *)
(* jobs of all the coroutines form one FIFO queue, and the coroutines are  *)
(* resumed in the order in which their jobs ended.                         *)
(*                                                                         *)
(* A login names any watch: the server takes the udid of each login packet *)
(* as it comes, also when the connection has logged in as another before.  *)
(* A peer that does not read fills its transport's buffer, and the await of *)
(* drain() holds whoever has written to it.  What the bytes of a packet    *)
(* are and how they are cut out of the stream is left out; a Redis that    *)
(* fails after the listener has subscribed is in ContactPush.              *)
(*                                                                         *)
(* Bounds, all of the environment: a connection is used once, at most one  *)
(* packet per connection is on its way to the server, MaxPackets, MaxStalls, *)
(* MaxPushes and MaxRestarts.                                              *)
(***************************************************************************)
EXTENDS Naturals, Sequences, FiniteSets

CONSTANTS Devices,      \* watches, named by their udid
          Conns,        \* TCP connections (and their handle_client coroutines)
          Listener,     \* the redis_listener coroutine
          None,         \* Python's None
          MaxPackets,   \* packets the watches send
          MaxStalls,    \* times a peer stops reading until the buffer is full
          MaxPushes,    \* notifications published on 'contacts_notify'
          MaxRestarts   \* restarts of the server process

ASSUME SessionsAssumption ==
    /\ Listener \notin Conns
    /\ None \notin Devices \cup Conns \cup {Listener}
    /\ MaxPackets \in Nat /\ MaxStalls \in Nat
    /\ MaxPushes \in Nat /\ MaxRestarts \in Nat

VARIABLES
    link,            \* state of each TCP connection: "stalled" while the peer does not
                     \* read and the buffer is full, "lost" when only the peer is gone
    inbox,           \* the packet on its way to the server, or None
    phase,           \* handle_client: reading, waiting for its handler, or draining
    device_instance, \* handle_client's local of the same name
    CLIENTS,         \* the registry: a partial function from udid to connection
    http_token,      \* WatchDevice.http_token, 0 before the first login
    minted,          \* how many tokens uuid4() has produced
    jobs,            \* database_sync_to_async calls not yet run, oldest first
    done,            \* finished calls whose coroutine was not resumed yet
    channel,         \* notifications the subscriber has not read
    lphase, ldev, lwriter, \* redis_listener: where it is, its udid and its writer
    given,           \* the last token handed out on each connection for each watch
    left,            \* the watches each connection served before its present one
    pushed,          \* pushes written to a connection whose peer is there
    overlapped,      \* watches that logged in beside an unfinished session of their own
    sent, stalls, published, restarts \* what the bounds count

coroutines == <<phase, device_instance, given, left>>
registry == <<CLIENTS, overlapped>>
database == <<http_token, minted>>
listener == <<lphase, ldev, lwriter>>
network == <<link, inbox>>
bounds == <<sent, stalls, published, restarts>>
vars == <<network, coroutines, registry, database, jobs, done, channel,
          listener, pushed, bounds>>

(* What a packet makes handle_client do: log in the watch it names, await   *)
(* another handler, await one that raises (an invalid login does too: its  *)
(* reply is not bytes), answer without an await, or leave because the      *)
(* parser raised.                                                          *)
LoginPackets == [kind: {"login"}, udid: Devices]
OtherPackets(kinds) == [kind: kinds, udid: {None}]
Awaited == LoginPackets \cup OtherPackets({"report", "raise"})
Packets == Awaited \cup OtherPackets({"direct", "broken"})
ListenerKinds == {"lookup", "build"}

Call(x, k, d) == [by |-> x, kind |-> k, udid |-> d]
Job == [by: Conns, kind: {"login"}, udid: Devices]
       \cup [by: Conns, kind: {"report", "raise"}, udid: {None}]
       \cup [by: {Listener}, kind: ListenerKinds, udid: {None}]
Result == [call: Job, token: Nat]

Without(f, x) == [y \in DOMAIN f \ {x} |-> f[y]]
With(f, x, v) == [y \in DOMAIN f \cup {x} |-> IF y = x THEN v ELSE f[y]]

TypeOK ==
    /\ link \in [Conns -> {"new", "up", "stalled", "lost", "closed"}]
    /\ inbox \in [Conns -> Packets \cup {None}]
    /\ phase \in [Conns -> {"reading", "waiting", "draining"}]
    /\ device_instance \in [Conns -> Devices \cup {None}]
    /\ given \in [Conns -> [Devices -> Nat]]
    /\ left \in [Conns -> SUBSET Devices]
    /\ DOMAIN CLIENTS \subseteq Devices
    /\ CLIENTS \in [DOMAIN CLIENTS -> Conns]
    /\ overlapped \subseteq Devices
    /\ http_token \in [Devices -> Nat]
    /\ minted \in Nat
    /\ jobs \in Seq(Job)
    /\ done \in Seq(Result)
    /\ channel \in Seq(Devices)
    /\ lphase \in {"start", "idle", "lookup", "build", "drain", "dead"}
    /\ ldev \in Devices \cup {None}
    /\ lwriter \in Conns \cup {None}
    /\ pushed \subseteq [dev: Devices, conn: Conns]
    /\ sent \in Nat
    /\ stalls \in Nat
    /\ published \in Nat
    /\ restarts \in Nat

Init ==
    /\ link = [c \in Conns |-> "new"]
    /\ inbox = [c \in Conns |-> None]
    /\ phase = [c \in Conns |-> "reading"]
    /\ device_instance = [c \in Conns |-> None]
    /\ given = [c \in Conns |-> [d \in Devices |-> 0]]
    /\ left = [c \in Conns |-> {}]
    /\ CLIENTS = [d \in {} |-> None]
    /\ overlapped = {}
    /\ http_token = [d \in Devices |-> 0]
    /\ minted = 0
    /\ jobs = <<>>
    /\ done = <<>>
    /\ channel = <<>>
    /\ lphase = "start" /\ ldev = None /\ lwriter = None
    /\ pushed = {}
    /\ sent = 0
    /\ stalls = 0
    /\ published = 0
    /\ restarts = 0

-----------------------------------------------------------------------------
(* The watches and the network.                                            *)

\* A watch opens a connection: start_server creates a handle_client for it.
Connect(c) ==
    /\ link[c] = "new"
    /\ link' = [link EXCEPT ![c] = "up"]
    /\ UNCHANGED <<inbox, coroutines, registry, database, jobs, done, channel,
                   listener, pushed, bounds>>

\* A watch sends a packet.
Send(c, p) ==
    /\ link[c] \in {"up", "stalled"} /\ inbox[c] = None
    /\ sent < MaxPackets
    /\ sent' = sent + 1
    /\ inbox' = [inbox EXCEPT ![c] = p]
    /\ UNCHANGED <<link, coroutines, registry, database, jobs, done, channel,
                   listener, pushed, stalls, published, restarts>>

\* The peer does not read: what is written to it exceeds the buffer's limit.
Stall(c) ==
    /\ link[c] = "up"
    /\ stalls < MaxStalls
    /\ stalls' = stalls + 1
    /\ link' = [link EXCEPT ![c] = "stalled"]
    /\ UNCHANGED <<inbox, coroutines, registry, database, jobs, done, channel,
                   listener, pushed, sent, published, restarts>>

\* The peer has read on and the buffer is below its limit again.
Recover(c) ==
    /\ link[c] = "stalled"
    /\ link' = [link EXCEPT ![c] = "up"]
    /\ UNCHANGED <<inbox, coroutines, registry, database, jobs, done, channel,
                   listener, pushed, bounds>>

\* The peer is gone.  The server learns of it later, or never: no timeout is set.
Lose(c) ==
    /\ link[c] \in {"up", "stalled"}
    /\ link' = [link EXCEPT ![c] = "lost"]
    /\ UNCHANGED <<inbox, coroutines, registry, database, jobs, done, channel,
                   listener, pushed, bounds>>

\* The HTTP server publishes {'command': 'add_contact', 'udid': d, ...}; while
\* nobody is subscribed, Redis delivers it to nobody.
Publish(d) ==
    /\ published < MaxPushes
    /\ published' = published + 1
    /\ channel' = IF lphase \in {"start", "dead"} THEN channel ELSE Append(channel, d)
    /\ UNCHANGED <<network, coroutines, registry, database, jobs, done,
                   listener, pushed, sent, stalls, restarts>>

-----------------------------------------------------------------------------
(* handle_client.                                                          *)

\* The connection was accepted, and its handle_client has not ended.
Live(c) == link[c] \in {"up", "stalled", "lost"}

\* A whole packet was read: parse it, find its handler and await it.
ReadPacket(c) ==
    /\ Live(c) /\ phase[c] = "reading"
    /\ inbox[c] \in Awaited
    /\ inbox' = [inbox EXCEPT ![c] = None]
    /\ jobs' = Append(jobs, Call(c, inbox[c].kind, inbox[c].udid))
    /\ phase' = [phase EXCEPT ![c] = "waiting"]
    /\ UNCHANGED <<link, device_instance, given, left, registry, database,
                   done, channel, listener, pushed, bounds>>

\* Faulty variants of the finally block: the entry is forgotten; every watch the
\* connection has ever served is removed.
UnregisterNothing(c) == CLIENTS' = CLIENTS
UnregisterAllServed(c) ==
    CLIENTS' = [d \in DOMAIN CLIENTS \ (left[c] \cup {device_instance[c]}) |-> CLIENTS[d]]

\* The finally block: whichever writer is registered under this udid goes.
Unregister(c) ==
    CLIENTS' = IF device_instance[c] # None /\ device_instance[c] \in DOMAIN CLIENTS
               THEN Without(CLIENTS, device_instance[c])
               ELSE CLIENTS

\* The coroutine ends: the finally block, and the transport is closed.
Ended(c) ==
    /\ Unregister(c)
    /\ link' = [link EXCEPT ![c] = "closed"]
    /\ inbox' = [inbox EXCEPT ![c] = None]
    /\ phase' = [phase EXCEPT ![c] = "reading"]

\* What was written is drained: at once, unless the peer has stopped reading.
AfterWrite(c) == IF link[c] = "stalled" THEN "draining" ELSE "reading"

\* A packet is answered without a call (the weather, the list of applications,
\* an unknown subtype), or dropped for its unknown type.
ReadDirect(c) ==
    /\ Live(c) /\ phase[c] = "reading"
    /\ inbox[c] \in OtherPackets({"direct"})
    /\ inbox' = [inbox EXCEPT ![c] = None]
    /\ \E p \in {"reading", AfterWrite(c)} : phase' = [phase EXCEPT ![c] = p]
    /\ UNCHANGED <<link, device_instance, given, left, registry, database, jobs,
                   done, channel, listener, pushed, bounds>>

\* The header or the parser raised: except, then finally.
ReadBroken(c) ==
    /\ Live(c) /\ phase[c] = "reading"
    /\ inbox[c] \in OtherPackets({"broken"})
    /\ Ended(c)
    /\ UNCHANGED <<device_instance, given, left, overlapped, database, jobs,
                   done, channel, listener, pushed, bounds>>

\* The peer reads again, and the await of drain() returns.
Drained(c) ==
    /\ link[c] = "up" /\ phase[c] = "draining"
    /\ phase' = [phase EXCEPT ![c] = "reading"]
    /\ UNCHANGED <<network, device_instance, given, left, registry, database,
                   jobs, done, channel, listener, pushed, bounds>>

\* EOF, or read or drain raises ConnectionResetError: the loop is left and the
\* finally block runs.
Disconnected(c) ==
    /\ link[c] = "lost" /\ phase[c] \in {"reading", "draining"}
    /\ Ended(c)
    /\ UNCHANGED <<device_instance, given, left, overlapped, database, jobs,
                   done, channel, listener, pushed, bounds>>

\* c serves a watch that logged in as d, and has not ended.
InSession(c, d) == Live(c) /\ device_instance[c] = d

\* The oldest finished call is that of x: its coroutine is resumed.
Resumed(x) ==
    /\ done # <<>> /\ Head(done).call.by = x
    /\ done' = Tail(done)

\* Faulty variant: registered before the local was replaced.
RegisterThenAssign(c) ==
    /\ Resumed(c) /\ Head(done).call.kind = "login"
    /\ CLIENTS' = With(CLIENTS, device_instance[c], c)
    /\ device_instance' = [device_instance EXCEPT ![c] = Head(done).call.udid]
    /\ phase' = [phase EXCEPT ![c] = AfterWrite(c)]
    /\ UNCHANGED <<network, given, left, overlapped, database, jobs, channel,
                   listener, pushed, bounds>>

\* The login is registered under the udid its packet named, whatever the session
\* was before, and its reply is written: there is no await between the two.
ResumeLogin(c) ==
    /\ Resumed(c) /\ Head(done).call.kind = "login"
    /\ LET udid == Head(done).call.udid
       IN  /\ device_instance' = [device_instance EXCEPT ![c] = udid]
           /\ CLIENTS' = With(CLIENTS, udid, c)
           /\ given' = [given EXCEPT ![c] = [@ EXCEPT ![udid] = Head(done).token]]
           /\ left' = [left EXCEPT ![c] =
                          (@ \cup {device_instance[c]}) \ {None, udid}]
           /\ overlapped' = IF \E e \in Conns \ {c} : InSession(e, udid)
                            THEN overlapped \cup {udid} ELSE overlapped
    /\ phase' = [phase EXCEPT ![c] = AfterWrite(c)]
    /\ UNCHANGED <<network, database, jobs, channel, listener, pushed, bounds>>

\* Faulty variant: every request registers the writer under the udid it names.
RegisterAnyReply(c) ==
    /\ Resumed(c) /\ Head(done).call.kind = "report"
    /\ \E d \in Devices : CLIENTS' = With(CLIENTS, d, c)
    /\ phase' = [phase EXCEPT ![c] = AfterWrite(c)]
    /\ UNCHANGED <<network, device_instance, given, left, overlapped, database,
                   jobs, channel, listener, pushed, bounds>>

\* Any other handler: its reply, or the error packet, is written.
ResumeReport(c) ==
    /\ Resumed(c) /\ Head(done).call.kind = "report"
    /\ phase' = [phase EXCEPT ![c] = AfterWrite(c)]
    /\ UNCHANGED <<network, device_instance, given, left, registry, database,
                   jobs, channel, listener, pushed, bounds>>

\* The handler raised: except, then finally.
ResumeRaise(c) ==
    /\ Resumed(c) /\ Head(done).call.kind = "raise"
    /\ Ended(c)
    /\ UNCHANGED <<device_instance, given, left, overlapped, database, jobs,
                   channel, listener, pushed, bounds>>

-----------------------------------------------------------------------------
(* The database thread: one job at a time, each login mints a token.       *)

\* Faulty variants: results overtake one another; an exception is lost.
FinishLIFO(j, t) == done' = <<[call |-> j, token |-> t]>> \o done
FinishUnlessRaised(j, t) ==
    done' = IF j.kind = "raise" THEN done ELSE Append(done, [call |-> j, token |-> t])

\* The call has ended: its coroutine will be resumed after those that wait already.
Finish(j, t) == done' = Append(done, [call |-> j, token |-> t])

\* handle_login_request_db replaces the device's token; no other handler does.
RunLogin(j) ==
    /\ j.kind = "login"
    /\ minted' = minted + 1
    /\ http_token' = [http_token EXCEPT ![j.udid] = minted + 1]
    /\ Finish(j, minted + 1)

RunOther(j) ==
    /\ j.kind # "login"
    /\ Finish(j, 0)
    /\ UNCHANGED database

RunJob ==
    /\ jobs # <<>>
    /\ RunLogin(Head(jobs)) \/ RunOther(Head(jobs))
    /\ jobs' = Tail(jobs)
    /\ UNCHANGED <<network, coroutines, registry, channel, listener,
                   pushed, bounds>>

-----------------------------------------------------------------------------
(* redis_listener.                                                         *)

\* The coroutine subscribes, or ends for good: no try surrounds this await.
Subscribe ==
    /\ lphase = "start"
    /\ lphase' \in {"idle", "dead"}
    /\ UNCHANGED <<network, coroutines, registry, database, jobs, done, channel,
                   ldev, lwriter, pushed, bounds>>

\* A notification for a registered watch: keep its writer, await objects.get.
TakeRegistered ==
    /\ lphase = "idle" /\ channel # <<>>
    /\ Head(channel) \in DOMAIN CLIENTS
    /\ channel' = Tail(channel)
    /\ ldev' = Head(channel)
    /\ lwriter' = CLIENTS[Head(channel)]
    /\ lphase' = "lookup"
    /\ jobs' = Append(jobs, Call(Listener, "lookup", None))
    /\ UNCHANGED <<network, coroutines, registry, database, done, pushed,
                   bounds>>

\* A notification for a watch that CLIENTS does not know is logged and dropped.
TakeUnregistered ==
    /\ lphase = "idle" /\ channel # <<>>
    /\ Head(channel) \notin DOMAIN CLIENTS
    /\ channel' = Tail(channel)
    /\ UNCHANGED <<network, coroutines, registry, database, jobs, done,
                   listener, pushed, bounds>>

\* The device was found: await handle_add_contact_push_db.
ResumeLookup ==
    /\ Resumed(Listener) /\ Head(done).call.kind = "lookup"
    /\ lphase' = "build"
    /\ jobs' = Append(jobs, Call(Listener, "build", None))
    /\ UNCHANGED <<network, coroutines, registry, database, channel, ldev,
                   lwriter, pushed, bounds>>

\* The packet is written to the writer kept since the notification was read (on
\* a connection that is gone the bytes are discarded), and drained: a peer that
\* does not read holds the listener here.
ResumeBuild ==
    /\ Resumed(Listener) /\ Head(done).call.kind = "build"
    /\ pushed' = IF link[lwriter] \in {"up", "stalled"}
                 THEN pushed \cup {[dev |-> ldev, conn |-> lwriter]} ELSE pushed
    /\ IF link[lwriter] = "stalled"
       THEN lphase' = "drain" /\ UNCHANGED <<ldev, lwriter>>
       ELSE lphase' = "idle" /\ ldev' = None /\ lwriter' = None
    /\ UNCHANGED <<network, coroutines, registry, database, jobs, channel,
                   bounds>>

\* The peer reads again, or its connection has ended and drain raises: either
\* way the listener goes back to get_message.
ListenerDrained ==
    /\ lphase = "drain" /\ link[lwriter] # "stalled"
    /\ lphase' = "idle" /\ ldev' = None /\ lwriter' = None
    /\ UNCHANGED <<network, coroutines, registry, database, jobs, done, channel,
                   pushed, bounds>>

\* Faulty variant: the exception ends the coroutine instead of one notification.
ListenerDies ==
    /\ Resumed(Listener)
    /\ lphase' = "dead" /\ ldev' = None /\ lwriter' = None
    /\ UNCHANGED <<network, coroutines, registry, database, jobs, channel,
                   pushed, bounds>>

\* The device or the contact is gone, or a call or the write has raised (the
\* inner except): nothing is written.
ResumeNothing ==
    /\ Resumed(Listener)
    /\ lphase' = "idle" /\ ldev' = None /\ lwriter' = None
    /\ UNCHANGED <<network, coroutines, registry, database, jobs, channel,
                   pushed, bounds>>

-----------------------------------------------------------------------------
\* systemd restarts the process: its memory and its connections are gone, and
\* what was published while nobody was subscribed is not delivered.
Restart ==
    /\ restarts < MaxRestarts
    /\ restarts' = restarts + 1
    /\ link' = [c \in Conns |-> IF link[c] = "new" THEN "new" ELSE "closed"]
    /\ inbox' = [c \in Conns |-> None]
    /\ phase' = [c \in Conns |-> "reading"]
    /\ device_instance' = [c \in Conns |-> None]
    /\ CLIENTS' = [d \in {} |-> None]
    /\ overlapped' = {}
    /\ jobs' = <<>> /\ done' = <<>> /\ channel' = <<>>
    /\ lphase' = "start" /\ ldev' = None /\ lwriter' = None
    /\ UNCHANGED <<given, left, database, pushed, sent, stalls, published>>

Server ==
    \/ \E c \in Conns : \/ ReadPacket(c) \/ ReadDirect(c) \/ ReadBroken(c)
                        \/ ResumeLogin(c) \/ ResumeReport(c) \/ ResumeRaise(c)
                        \/ Drained(c)
    \/ RunJob
    \/ Subscribe
    \/ TakeRegistered \/ TakeUnregistered
    \/ ResumeLookup \/ ResumeBuild \/ ResumeNothing
    \/ ListenerDrained

Environment ==
    \/ \E c \in Conns : \/ Connect(c) \/ Stall(c) \/ Recover(c)
                        \/ Lose(c) \/ Disconnected(c)
    \/ \E c \in Conns, p \in Packets : Send(c, p)
    \/ \E d \in Devices : Publish(d)
    \/ Restart

Next == Server \/ Environment

Spec == Init /\ [][Next]_vars

\* The loop and the thread keep running; nothing is assumed of the watches, of
\* the network or of how soon a lost connection is noticed.  The await of drain
\* is resolved the moment the buffer is read and stays so if the peer stops
\* reading again, hence its strong fairness; while a connection is lost but not
\* yet ended, nothing promises that it is resolved.
Fairness ==
    /\ \A c \in Conns : WF_vars(ResumeLogin(c) \/ ResumeReport(c) \/ ResumeRaise(c))
    /\ WF_vars(RunJob)
    /\ WF_vars(Subscribe)
    /\ WF_vars(TakeRegistered \/ TakeUnregistered)
    /\ WF_vars(ResumeLookup \/ ResumeBuild \/ ResumeNothing)
    /\ SF_vars(ListenerDrained /\ link[lwriter] # "lost")

FairSpec == Spec /\ Fairness

-----------------------------------------------------------------------------
(* Properties.                                                             *)

\* A coroutine that waits for a call has exactly one among the queued and the
\* finished ones, and one that does not has none: no result is lost, so nobody
\* waits for ever, and none is left for a coroutine that has moved on.
Waiters == {c \in Conns : phase[c] = "waiting"}
           \cup (IF lphase \in ListenerKinds THEN {Listener} ELSE {})
Calls(x) == {i \in DOMAIN jobs : jobs[i].by = x}
Results(x) == {i \in DOMAIN done : done[i].call.by = x}

AwaitsOneCall ==
    \A x \in Conns \cup {Listener} :
        Cardinality(Calls(x)) + Cardinality(Results(x)) = IF x \in Waiters THEN 1 ELSE 0

\* A registered writer belongs to a handle_client that has not ended and that
\* serves this very watch.  The one exception is a connection that has logged in
\* as this watch and then as another: its old entry stays, also when it is closed.
RegistrationSound ==
    \A d \in DOMAIN CLIENTS : InSession(CLIENTS[d], d) \/ d \in left[CLIENTS[d]]

\* The registered connection of a watch was handed the token the HTTP API
\* accepts, unless a newer login of that watch is about to be registered: a
\* watch that is told of a new contact can fetch it.
RegisteredHoldsValidToken ==
    \A d \in DOMAIN CLIENTS :
        \/ given[CLIENTS[d]][d] = http_token[d]
        \/ \E i \in DOMAIN done : done[i].call.kind = "login" /\ done[i].call.udid = d

\* As long as no connection has logged in as a watch beside an unfinished session
\* of that watch, its session is the registered one.
RegisteredUnlessOverlapped ==
    \A c \in Conns, d \in Devices \ overlapped :
        InSession(c, d) => d \in DOMAIN CLIENTS /\ CLIENTS[d] = c

\* A push for a watch reaches only connections that have logged in as this watch,
\* and never before the reply to that login.
PushAfterLoginReply ==
    \A p \in pushed : given[p.conn][p.dev] # 0

\* Every packet that was read is answered, or its connection is closed.
RequestsServed ==
    \A c \in Conns : phase[c] = "waiting" ~> phase[c] # "waiting"

\* redis_listener holds a packet for a peer that does not read, or whose loss has
\* not been noticed.
ListenerBlocked == lphase = "drain" /\ link[lwriter] \in {"stalled", "lost"}

\* Unless it is blocked for ever by one such peer, redis_listener reads every
\* notification that reached it, whatever its calls raise and whichever
\* connections end meanwhile; a listener that ended when it subscribed has none.
NotificationsConsumed ==
    \/ <>[]ListenerBlocked
    \/ channel # <<>> ~> channel = <<>> /\ lphase \in {"idle", "dead"}

\* What the listener's log line says of a watch that CLIENTS does not know: it
\* is not connected.
UnregisteredIsNotConnected ==
    \A c \in Conns, d \in Devices :
        link[c] = "up" /\ InSession(c, d) => d \in DOMAIN CLIENTS
=============================================================================
