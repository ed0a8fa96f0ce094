--------------------------- MODULE SessionsProofs ---------------------------
(***************************************************************************)
(* The safety invariants of Sessions, proved for any set of watches and of *)
(* connections and for any bound.                                          *)
(***************************************************************************)
EXTENDS Sessions, FiniteSetTheorems, TLAPS

-----------------------------------------------------------------------------
(* Facts about the registry's updates and about queues.                    *)

\* What Without keeps, used for del CLIENTS[udid].
LEMMA WithoutFacts ==
    ASSUME NEW f, NEW x
    PROVE  /\ DOMAIN Without(f, x) = DOMAIN f \ {x}
           /\ \A y \in DOMAIN f \ {x} : Without(f, x)[y] = f[y]
BY DEF Without

\* An update stores a value of the right type, whatever the index.
LEMMA ExceptType ==
    ASSUME NEW D, NEW S, NEW f \in [D -> S], NEW x, NEW v \in S
    PROVE  [f EXCEPT ![x] = v] \in [D -> S]
OBVIOUS

\* CLIENTS stays a partial function from watches to connections.
LEMMA RegistryType ==
    ASSUME NEW D, NEW C, NEW f, DOMAIN f \subseteq D, f \in [DOMAIN f -> C],
           NEW x
    PROVE  /\ DOMAIN Without(f, x) \subseteq D
           /\ Without(f, x) \in [DOMAIN Without(f, x) -> C]
           /\ \A v \in C : x \in D =>
                /\ DOMAIN With(f, x, v) \subseteq D
                /\ With(f, x, v) \in [DOMAIN With(f, x, v) -> C]
BY DEF With, Without

\* The indices and the elements of a queue after an element was added.
LEMMA AppendFacts ==
    ASSUME NEW S, NEW s \in Seq(S), NEW e \in S
    PROVE  /\ Append(s, e) \in Seq(S)
           /\ \A i \in DOMAIN s : i \in DOMAIN Append(s, e) /\ Append(s, e)[i] = s[i]
           /\ Len(s) + 1 \in DOMAIN Append(s, e)
           /\ Append(s, e)[Len(s) + 1] = e
           /\ \A i \in DOMAIN Append(s, e) :
                i = Len(s) + 1 \/ (i \in DOMAIN s /\ Append(s, e)[i] = s[i])
           /\ \A i \in DOMAIN s : i \in Nat /\ i < Len(s) + 1
OBVIOUS

\* The indices and the elements of a queue after its head was taken.
LEMMA TailFacts ==
    ASSUME NEW S, NEW s \in Seq(S), s # <<>>
    PROVE  /\ Tail(s) \in Seq(S)
           /\ Head(s) \in S
           /\ 1 \in DOMAIN s
           /\ Head(s) = s[1]
           /\ \A i \in DOMAIN Tail(s) : /\ i \in Nat
                                        /\ i + 1 # 1
                                        /\ i + 1 \in DOMAIN s
                                        /\ Tail(s)[i] = s[i + 1]
           /\ \A j \in DOMAIN s \ {1} : /\ j \in Nat
                                        /\ j - 1 \in DOMAIN Tail(s)
                                        /\ Tail(s)[j - 1] = s[j]
OBVIOUS

-----------------------------------------------------------------------------
(* The inductive invariant.                                                *)

\* No coroutine has two calls under way, and only those that wait have one.
OneCallEach ==
    /\ \A i, j \in DOMAIN jobs : jobs[i].by = jobs[j].by => i = j
    /\ \A i, j \in DOMAIN done : done[i].call.by = done[j].call.by => i = j
    /\ \A i \in DOMAIN jobs, j \in DOMAIN done : jobs[i].by # done[j].call.by
    /\ \A i \in DOMAIN jobs : jobs[i].by \in Waiters
    /\ \A i \in DOMAIN done : done[i].call.by \in Waiters

\* A handle_client that waits has not ended, and one that has not started serves
\* nobody.
WaitsAlive ==
    \A c \in Conns :
        /\ phase[c] = "waiting" => Live(c)
        /\ link[c] = "new" => device_instance[c] = None

\* While the listener works on a notification it holds a writer on which a login
\* of the watch concerned was answered.
AtWork == lphase \in {"lookup", "build", "drain"}

ListenerHoldsWriter ==
    AtWork => /\ ldev \in Devices
              /\ lwriter \in Conns
              /\ given[lwriter][ldev] # 0

\* Only connections that were given a token of the watch are registered, and
\* tokens are not 0.
RegisteredWasGiven ==
    /\ \A d \in DOMAIN CLIENTS : given[CLIENTS[d]][d] # 0
    /\ \A i \in DOMAIN done : done[i].call.kind = "login" => done[i].token # 0

\* The last finished login of a watch carries the token that is in the database.
LastLoginIsValid ==
    \A i \in DOMAIN done : done[i].call.kind = "login" =>
        \/ done[i].token = http_token[done[i].call.udid]
        \/ \E j \in DOMAIN done : /\ j > i
                                  /\ done[j].call.kind = "login"
                                  /\ done[j].call.udid = done[i].call.udid

IInv ==
    /\ TypeOK
    /\ OneCallEach
    /\ WaitsAlive
    /\ RegisteredWasGiven
    /\ ListenerHoldsWriter
    /\ LastLoginIsValid
    /\ RegistrationSound
    /\ PushAfterLoginReply
    /\ RegisteredHoldsValidToken
    /\ RegisteredUnlessOverlapped

-----------------------------------------------------------------------------
(* Type correctness.                                                       *)

\* The server starts in states of the declared types.
LEMMA InitType == Init => TypeOK
<1> SUFFICES ASSUME Init PROVE TypeOK
  OBVIOUS
<1>1. jobs \in Seq(Job) /\ done \in Seq(Result) /\ channel \in Seq(Devices)
  BY DEF Init
<1>2. DOMAIN CLIENTS \subseteq Devices /\ CLIENTS \in [DOMAIN CLIENTS -> Conns]
  BY DEF Init
<1> QED
  BY <1>1, <1>2 DEF Init, TypeOK

\* The registry after the finally block.
LEMMA UnregisterType ==
    ASSUME TypeOK, NEW c \in Conns, Unregister(c)
    PROVE  /\ DOMAIN CLIENTS' \subseteq Devices
           /\ CLIENTS' \in [DOMAIN CLIENTS' -> Conns]
<1>1. /\ DOMAIN CLIENTS \subseteq Devices
      /\ CLIENTS \in [DOMAIN CLIENTS -> Conns]
  BY DEF TypeOK
<1> QED
  BY <1>1, RegistryType DEF Unregister

\* A coroutine that ends leaves the network and the registry well typed.
LEMMA EndedType ==
    ASSUME TypeOK, NEW c \in Conns, Ended(c)
    PROVE  /\ DOMAIN CLIENTS' \subseteq Devices
           /\ CLIENTS' \in [DOMAIN CLIENTS' -> Conns]
           /\ link' \in [Conns -> {"new", "up", "stalled", "lost", "closed"}]
           /\ inbox' \in [Conns -> Packets \cup {None}]
           /\ phase' \in [Conns -> {"reading", "waiting", "draining"}]
<1>1. Unregister(c)
  BY DEF Ended
<1>2. /\ DOMAIN CLIENTS' \subseteq Devices
      /\ CLIENTS' \in [DOMAIN CLIENTS' -> Conns]
  BY <1>1, UnregisterType
<1>3. /\ link' \in [Conns -> {"new", "up", "stalled", "lost", "closed"}]
      /\ inbox' \in [Conns -> Packets \cup {None}]
      /\ phase' \in [Conns -> {"reading", "waiting", "draining"}]
  BY DEF Ended, TypeOK
<1> QED
  BY <1>2, <1>3

\* A resumed coroutine takes its result from the queue.
LEMMA ResumedType ==
    ASSUME TypeOK, NEW x, Resumed(x)
    PROVE  /\ done' \in Seq(Result)
           /\ Head(done) \in Result
<1>1. done \in Seq(Result) /\ done # <<>> /\ done' = Tail(done)
  BY DEF TypeOK, Resumed
<1> QED
  BY <1>1, TailFacts

\* A handle_client that goes on is in one of its phases.
LEMMA PhaseType ==
    ASSUME TypeOK, NEW c \in Conns,
           NEW p \in {"reading", "waiting", AfterWrite(c)},
           phase' = [phase EXCEPT ![c] = p]
    PROVE  phase' \in [Conns -> {"reading", "waiting", "draining"}]
BY DEF TypeOK, AfterWrite

\* The database thread takes a well-typed call and leaves a well-typed result.
LEMMA RunJobType ==
    ASSUME TypeOK, RunJob
    PROVE  /\ jobs' \in Seq(Job)
           /\ done' \in Seq(Result)
           /\ minted' \in Nat
           /\ http_token' \in [Devices -> Nat]
<1> DEFINE j == Head(jobs)
<1>1. jobs \in Seq(Job) /\ jobs # <<>> /\ jobs' = Tail(jobs)
  BY DEF TypeOK, RunJob
<1>2. jobs' \in Seq(Job) /\ j \in Job
  BY <1>1, TailFacts
<1>3. \A t \in Nat : [call |-> j, token |-> t] \in Result
  BY <1>2 DEF Result
<1>4. /\ done \in Seq(Result) /\ minted \in Nat
      /\ http_token \in [Devices -> Nat]
  BY DEF TypeOK
<1>5. CASE RunLogin(j)
  <2>1. [call |-> j, token |-> minted + 1] \in Result
    BY <1>3, <1>4
  <2>2. done' = Append(done, [call |-> j, token |-> minted + 1])
    BY <1>5 DEF RunLogin, Finish
  <2>3. done' \in Seq(Result)
    BY <1>4, <2>1, <2>2, AppendFacts
  <2>4. minted' \in Nat /\ minted + 1 \in Nat
    BY <1>4, <1>5 DEF RunLogin
  <2>5. http_token' = [http_token EXCEPT ![j.udid] = minted + 1]
    BY <1>5 DEF RunLogin
  <2>6. http_token' \in [Devices -> Nat]
    BY <1>4, <2>4, <2>5, ExceptType
  <2> QED
    BY <1>2, <2>3, <2>4, <2>6
<1>6. CASE RunOther(j)
  <2>1. [call |-> j, token |-> 0] \in Result
    BY <1>3
  <2>2. done' = Append(done, [call |-> j, token |-> 0])
    BY <1>6 DEF RunOther, Finish
  <2>3. done' \in Seq(Result)
    BY <1>4, <2>1, <2>2, AppendFacts
  <2>4. minted' \in Nat /\ http_token' \in [Devices -> Nat]
    BY <1>4, <1>6 DEF RunOther, database
  <2> QED
    BY <1>2, <2>3, <2>4
<1> QED
  BY <1>5, <1>6 DEF RunJob

\* A result belongs to a coroutine that waits; a resumed handle_client has
\* not ended.
LEMMA ResumedIsLive ==
    ASSUME IInv, NEW c \in Conns, Resumed(c)
    PROVE  phase[c] = "waiting" /\ Live(c)
<1>1. 1 \in DOMAIN done /\ Head(done) = done[1]
  BY TailFacts DEF IInv, TypeOK, Resumed
<1>2. c \in Waiters
  BY <1>1 DEF IInv, OneCallEach, Resumed
<1>3. phase[c] = "waiting"
  BY <1>2, SessionsAssumption DEF Waiters
<1> QED
  BY <1>3 DEF IInv, WaitsAlive

\* A resumed login names a watch.
LEMMA LoginNamesWatch ==
    ASSUME IInv, NEW c \in Conns, ResumeLogin(c)
    PROVE  /\ Head(done).call.udid \in Devices
           /\ Head(done).token \in Nat
<1>1. Head(done) \in Result /\ Head(done).call.kind = "login"
  BY ResumedType DEF ResumeLogin, IInv
<1> QED
  BY <1>1 DEF Result, Job, ListenerKinds

\* When the listener is resumed it still holds the writer it kept.
LEMMA ListenerAtWork ==
    ASSUME IInv, Resumed(Listener)
    PROVE  /\ lphase \in ListenerKinds
           /\ ldev \in Devices /\ lwriter \in Conns
           /\ given[lwriter][ldev] # 0
<1>1. 1 \in DOMAIN done /\ Head(done) = done[1] /\ Head(done).call.by = Listener
  BY TailFacts DEF IInv, TypeOK, Resumed
<1>2. Listener \in Waiters
  BY <1>1 DEF IInv, OneCallEach
<1> QED
  BY <1>2, SessionsAssumption DEF Waiters, IInv, ListenerHoldsWriter, AtWork,
                                  ListenerKinds

\* The network's steps, apart from the loss that handle_client notices.
NetworkStep(c) == Connect(c) \/ Stall(c) \/ Recover(c) \/ Lose(c)

\* A restart leaves no call and no result.
LEMMA EmptyQueues ==
    /\ <<>> \in Seq(Job) /\ <<>> \in Seq(Result) /\ <<>> \in Seq(Devices)
    /\ \A S : [d \in {} |-> None] \in [{} -> S] /\ DOMAIN [d \in {} |-> None] = {}
OBVIOUS

\* No step leaves the declared types.
LEMMA TypeStep == IInv /\ [Next]_vars => TypeOK'
<1> SUFFICES ASSUME IInv, [Next]_vars PROVE TypeOK'
  OBVIOUS
<1> USE DEF network, coroutines, registry, database, listener, bounds
<1>t. TypeOK
  BY DEF IInv
<1>c. ASSUME NEW c \in Conns,
             \/ ReadDirect(c) \/ ReadBroken(c) \/ ReadPacket(c) \/ Disconnected(c)
             \/ ResumeLogin(c) \/ ResumeReport(c) \/ ResumeRaise(c) \/ Drained(c)
      PROVE  TypeOK'
  <2>1. CASE ReadPacket(c)
    <3>1. Call(c, inbox[c].kind, inbox[c].udid) \in Job
      BY <2>1 DEF ReadPacket, Call, Job, Awaited, LoginPackets, OtherPackets
    <3>2. jobs' \in Seq(Job)
      <4>1. /\ jobs \in Seq(Job)
            /\ jobs' = Append(jobs, Call(c, inbox[c].kind, inbox[c].udid))
        BY <1>t, <2>1 DEF ReadPacket, TypeOK
      <4> QED
        BY <3>1, <4>1, AppendFacts
    <3> QED
      BY <1>t, <2>1, <3>2 DEF ReadPacket, TypeOK
  <2>2. CASE ReadDirect(c)
    <3>1. phase' \in [Conns -> {"reading", "waiting", "draining"}]
      BY <1>t, <2>2, PhaseType DEF ReadDirect
    <3> QED
      BY <1>t, <2>2, <3>1 DEF ReadDirect, TypeOK
  <2>3. CASE ReadBroken(c)
    BY <1>t, <2>3, EndedType DEF ReadBroken, TypeOK
  <2>4. CASE Disconnected(c)
    BY <1>t, <2>4, EndedType DEF Disconnected, TypeOK
  <2>5. CASE ResumeLogin(c)
    <3> DEFINE u == Head(done).call.udid
               g == [given[c] EXCEPT ![u] = Head(done).token]
               l == (left[c] \cup {device_instance[c]}) \ {None, u}
    <3>1. u \in Devices /\ Head(done).token \in Nat /\ Resumed(c)
      BY <2>5, LoginNamesWatch DEF ResumeLogin
    <3>2. /\ DOMAIN CLIENTS' \subseteq Devices
          /\ CLIENTS' \in [DOMAIN CLIENTS' -> Conns]
      <4>1. /\ DOMAIN CLIENTS \subseteq Devices
            /\ CLIENTS \in [DOMAIN CLIENTS -> Conns]
        BY <1>t DEF TypeOK
      <4>2. CLIENTS' = With(CLIENTS, u, c)
        BY <2>5 DEF ResumeLogin
      <4> HIDE DEF u
      <4> QED
        BY <3>1, <4>1, <4>2, RegistryType
    <3>3. done' \in Seq(Result)
      BY <1>t, <3>1, ResumedType
    <3>4. phase' \in [Conns -> {"reading", "waiting", "draining"}]
      BY <1>t, <2>5, PhaseType DEF ResumeLogin
    <3>5. given' \in [Conns -> [Devices -> Nat]]
      <4>1. given \in [Conns -> [Devices -> Nat]]
        BY <1>t DEF TypeOK
      <4>2. g \in [Devices -> Nat]
        BY <3>1, <4>1, ExceptType
      <4>3. given' = [given EXCEPT ![c] = g]
        BY <2>5 DEF ResumeLogin
      <4> QED
        BY <4>1, <4>2, <4>3, ExceptType
    <3>6. left' \in [Conns -> SUBSET Devices]
      <4>1. left \in [Conns -> SUBSET Devices] /\ l \in SUBSET Devices
        BY <1>t DEF TypeOK
      <4>2. left' = [left EXCEPT ![c] = l]
        BY <2>5 DEF ResumeLogin
      <4> QED
        BY <4>1, <4>2, ExceptType
    <3>7. /\ device_instance' = [device_instance EXCEPT ![c] = u]
          /\ overlapped' = overlapped \/ overlapped' = overlapped \cup {u}
      BY <2>5 DEF ResumeLogin
    <3>8. UNCHANGED <<network, database, jobs, channel, listener, pushed, bounds>>
      BY <2>5 DEF ResumeLogin
    <3> HIDE DEF u, g, l
    <3> QED
      BY <1>t, <3>1, <3>2, <3>3, <3>4, <3>5, <3>6, <3>7, <3>8 DEF TypeOK
  <2>6. CASE ResumeReport(c)
    <3>1. Resumed(c)
      BY <2>6 DEF ResumeReport
    <3>2. phase' \in [Conns -> {"reading", "waiting", "draining"}]
      BY <1>t, <2>6, PhaseType DEF ResumeReport
    <3> QED
      BY <1>t, <2>6, <3>1, <3>2, ResumedType DEF ResumeReport, TypeOK
  <2>7. CASE ResumeRaise(c)
    <3>1. Resumed(c) /\ Ended(c)
      BY <2>7 DEF ResumeRaise
    <3> QED
      BY <1>t, <2>7, <3>1, ResumedType, EndedType DEF ResumeRaise, TypeOK
  <2>8. CASE Drained(c)
    BY <1>t, <2>8 DEF Drained, TypeOK
  <2> QED
    BY <1>c, <2>1, <2>2, <2>3, <2>4, <2>5, <2>6, <2>7, <2>8
<1>d. CASE RunJob
  BY <1>t, <1>d, RunJobType DEF RunJob, TypeOK
<1>l. ASSUME \/ TakeRegistered \/ TakeUnregistered \/ Subscribe
             \/ ResumeLookup \/ ResumeBuild \/ ResumeNothing \/ ListenerDrained
      PROVE  TypeOK'
  <2>1. CASE TakeRegistered
    <3>1. /\ channel' \in Seq(Devices)
          /\ Head(channel) \in Devices
      BY <1>t, <2>1, TailFacts DEF TakeRegistered, TypeOK
    <3>2. Call(Listener, "lookup", None) \in Job
      BY DEF Call, Job, ListenerKinds
    <3>3. jobs' \in Seq(Job)
      BY <1>t, <2>1, <3>2, AppendFacts DEF TakeRegistered, TypeOK
    <3> QED
      BY <1>t, <2>1, <3>1, <3>3 DEF TakeRegistered, TypeOK
  <2>2. CASE TakeUnregistered
    <3>1. channel \in Seq(Devices) /\ channel # <<>> /\ channel' = Tail(channel)
      BY <1>t, <2>2 DEF TakeUnregistered, TypeOK
    <3>2. channel' \in Seq(Devices)
      BY <3>1, TailFacts
    <3> QED
      BY <1>t, <2>2, <3>2 DEF TakeUnregistered, TypeOK
  <2>3. CASE ResumeLookup
    <3>1. Call(Listener, "build", None) \in Job
      BY DEF Call, Job, ListenerKinds
    <3>2. jobs' \in Seq(Job)
      BY <1>t, <2>3, <3>1, AppendFacts DEF ResumeLookup, TypeOK
    <3>3. done' \in Seq(Result)
      BY <1>t, <2>3, ResumedType DEF ResumeLookup
    <3> QED
      BY <1>t, <2>3, <3>2, <3>3 DEF ResumeLookup, TypeOK
  <2>4. CASE ResumeBuild
    <3>1. ldev \in Devices /\ lwriter \in Conns
      BY <2>4, ListenerAtWork DEF ResumeBuild
    <3>2. done' \in Seq(Result)
      BY <1>t, <2>4, ResumedType DEF ResumeBuild
    <3> QED
      BY <1>t, <2>4, <3>1, <3>2 DEF ResumeBuild, TypeOK
  <2>5. CASE ResumeNothing
    <3>1. done' \in Seq(Result)
      BY <1>t, <2>5, ResumedType DEF ResumeNothing
    <3> QED
      BY <1>t, <2>5, <3>1 DEF ResumeNothing, TypeOK
  <2>6. CASE Subscribe
    BY <1>t, <2>6 DEF Subscribe, TypeOK
  <2>7. CASE ListenerDrained
    BY <1>t, <2>7 DEF ListenerDrained, TypeOK
  <2> QED
    BY <1>l, <2>1, <2>2, <2>3, <2>4, <2>5, <2>6, <2>7
<1>e. CASE Environment
  <2>1. ASSUME NEW c \in Conns, NetworkStep(c) PROVE TypeOK'
    <3>1. CASE Connect(c) \/ Recover(c)
      BY <1>t, <3>1 DEF Connect, Recover, TypeOK
    <3>2. CASE Stall(c)
      BY <1>t, <3>2 DEF Stall, TypeOK
    <3>3. CASE Lose(c)
      BY <1>t, <3>3 DEF Lose, TypeOK
    <3> QED
      BY <2>1, <3>1, <3>2, <3>3 DEF NetworkStep
  <2>2. ASSUME NEW c \in Conns, NEW k \in Packets, Send(c, k) PROVE TypeOK'
    BY <1>t, <2>2 DEF Send, TypeOK
  <2>4. ASSUME NEW d \in Devices, Publish(d) PROVE TypeOK'
    <3>1. channel \in Seq(Devices) /\ (channel' = channel \/ channel' = Append(channel, d))
      BY <1>t, <2>4 DEF Publish, TypeOK
    <3>2. channel' \in Seq(Devices)
      BY <3>1, AppendFacts
    <3>3. published' \in Nat
      BY <1>t, <2>4 DEF Publish, TypeOK
    <3> QED
      BY <1>t, <2>4, <3>2, <3>3 DEF Publish, TypeOK
  <2>5. CASE Restart
    BY <1>t, <2>5, EmptyQueues DEF Restart, TypeOK
  <2> QED
    BY <1>c, <1>e, <2>1, <2>2, <2>4, <2>5 DEF Environment, NetworkStep
<1>u. CASE UNCHANGED vars
  BY <1>t, <1>u DEF vars, TypeOK
<1> QED
  BY <1>c, <1>d, <1>l, <1>e, <1>u DEF Next, Server

-----------------------------------------------------------------------------
(* One call per coroutine.                                                 *)

\* A coroutine that was not waiting adds its call.
LEMMA CallAdded ==
    ASSUME TypeOK, OneCallEach, NEW j \in Job, j.by \notin Waiters,
           jobs' = Append(jobs, j), done' = done,
           Waiters' = Waiters \cup {j.by}
    PROVE  OneCallEach'
<1>1. /\ jobs \in Seq(Job) /\ done \in Seq(Result)
      /\ \A i \in DOMAIN jobs : jobs[i].by \in Conns \cup {Listener}
      /\ \A i \in DOMAIN done : done[i].call.by \in Conns \cup {Listener}
      /\ j.by \in Conns \cup {Listener}
  <2>1. \A k \in Job : k.by \in Conns \cup {Listener}
    BY DEF Job
  <2>2. \A r \in Result : r.call \in Job
    BY DEF Result
  <2> QED
    BY <2>1, <2>2 DEF TypeOK
<1>2. \A i \in DOMAIN jobs : jobs[i].by # j.by
  BY DEF OneCallEach
<1>3. \A i \in DOMAIN done : done[i].call.by # j.by
  BY DEF OneCallEach
<1>4. \A i \in DOMAIN jobs' : \/ i \in DOMAIN jobs /\ jobs'[i] = jobs[i]
                              \/ i = Len(jobs) + 1 /\ jobs'[i] = j
  BY <1>1, AppendFacts
<1>5. \A i, k \in DOMAIN jobs' : jobs'[i].by = jobs'[k].by => i = k
  BY <1>2, <1>4 DEF OneCallEach
<1>6. \A i \in DOMAIN jobs', k \in DOMAIN done' : jobs'[i].by # done'[k].call.by
  BY <1>3, <1>4 DEF OneCallEach
<1>7. \A i \in DOMAIN jobs' : jobs'[i].by \in Waiters'
  BY <1>1, <1>4 DEF OneCallEach
<1>8. \A i \in DOMAIN done' : done'[i].call.by \in Waiters'
  BY <1>1 DEF OneCallEach
<1> QED
  BY <1>5, <1>6, <1>7, <1>8 DEF OneCallEach

\* The coroutine at the head of the results takes its own and waits no more.
LEMMA ResultTaken ==
    ASSUME TypeOK, OneCallEach, done # <<>>,
           jobs' = jobs, done' = Tail(done),
           Waiters' = Waiters \ {Head(done).call.by}
    PROVE  OneCallEach'
<1> DEFINE x == Head(done).call.by
<1>1. 1 \in DOMAIN done /\ done[1].call.by = x
  BY TailFacts DEF TypeOK
<1>2. \A i \in DOMAIN done' : /\ i \in Nat /\ i + 1 # 1 /\ i + 1 \in DOMAIN done
                              /\ done'[i] = done[i + 1]
  BY TailFacts DEF TypeOK
<1>3. \A i \in DOMAIN done' : done'[i].call.by # x
  BY <1>1, <1>2 DEF OneCallEach
<1>4. \A i \in DOMAIN jobs : jobs[i].by # x
  BY <1>1 DEF OneCallEach
<1>5. \A i, k \in DOMAIN done' : done'[i].call.by = done'[k].call.by => i = k
  <2> SUFFICES ASSUME NEW i \in DOMAIN done', NEW k \in DOMAIN done',
                      done'[i].call.by = done'[k].call.by
               PROVE  i = k
    OBVIOUS
  <2>1. i + 1 = k + 1
    BY <1>2 DEF OneCallEach
  <2> QED
    BY <1>2, <2>1
<1>6. \A i \in DOMAIN jobs', k \in DOMAIN done' : jobs'[i].by # done'[k].call.by
  BY <1>2 DEF OneCallEach
<1>7. \A i \in DOMAIN jobs' : jobs'[i].by \in Waiters'
  BY <1>4 DEF OneCallEach
<1>8. \A i \in DOMAIN done' : done'[i].call.by \in Waiters'
  BY <1>2, <1>3 DEF OneCallEach
<1> QED
  BY <1>5, <1>6, <1>7, <1>8 DEF OneCallEach

\* The listener takes the device that was found and makes its second call.
LEMMA CallReplaced ==
    ASSUME TypeOK, OneCallEach, done # <<>>, NEW j \in Job, j.by = Head(done).call.by,
           jobs' = Append(jobs, j), done' = Tail(done), Waiters' = Waiters
    PROVE  OneCallEach'
<1>1. 1 \in DOMAIN done /\ done[1].call.by = j.by
  BY TailFacts DEF TypeOK
<1>2. \A i \in DOMAIN done' : /\ i \in Nat /\ i + 1 # 1 /\ i + 1 \in DOMAIN done
                              /\ done'[i] = done[i + 1]
  BY TailFacts DEF TypeOK
<1>3. \A i \in DOMAIN done' : done'[i].call.by # j.by
  BY <1>1, <1>2 DEF OneCallEach
<1>4. \A i \in DOMAIN jobs : jobs[i].by # j.by
  BY <1>1 DEF OneCallEach
<1>5. \A i \in DOMAIN jobs' : \/ i \in DOMAIN jobs /\ jobs'[i] = jobs[i]
                              \/ i = Len(jobs) + 1 /\ jobs'[i] = j
  BY AppendFacts DEF TypeOK
<1>6. \A i, k \in DOMAIN jobs' : jobs'[i].by = jobs'[k].by => i = k
  BY <1>4, <1>5 DEF OneCallEach
<1>7. \A i, k \in DOMAIN done' : done'[i].call.by = done'[k].call.by => i = k
  <2> SUFFICES ASSUME NEW i \in DOMAIN done', NEW k \in DOMAIN done',
                      done'[i].call.by = done'[k].call.by
               PROVE  i = k
    OBVIOUS
  <2>1. i + 1 = k + 1
    BY <1>2 DEF OneCallEach
  <2> QED
    BY <1>2, <2>1
<1>8. \A i \in DOMAIN jobs', k \in DOMAIN done' : jobs'[i].by # done'[k].call.by
  BY <1>2, <1>3, <1>5 DEF OneCallEach
<1>9. \A i \in DOMAIN jobs' : jobs'[i].by \in Waiters'
  BY <1>1, <1>5 DEF OneCallEach
<1>10. \A i \in DOMAIN done' : done'[i].call.by \in Waiters'
  BY <1>2 DEF OneCallEach
<1> QED
  BY <1>6, <1>7, <1>8, <1>9, <1>10 DEF OneCallEach

\* A call that was run becomes a result of the same coroutine.
LEMMA CallFinished ==
    ASSUME TypeOK, OneCallEach, jobs # <<>>,
           NEW r \in Result, r.call.by = Head(jobs).by,
           jobs' = Tail(jobs), done' = Append(done, r), Waiters' = Waiters
    PROVE  OneCallEach'
<1>1. 1 \in DOMAIN jobs /\ jobs[1].by = r.call.by
  BY TailFacts DEF TypeOK
<1>2. \A i \in DOMAIN jobs' : /\ i \in Nat /\ i + 1 # 1 /\ i + 1 \in DOMAIN jobs
                              /\ jobs'[i] = jobs[i + 1]
  BY TailFacts DEF TypeOK
<1>3. \A i \in DOMAIN jobs' : jobs'[i].by # r.call.by
  BY <1>1, <1>2 DEF OneCallEach
<1>4. \A i \in DOMAIN done : done[i].call.by # r.call.by
  BY <1>1 DEF OneCallEach
<1>5. \A i \in DOMAIN done' : \/ i \in DOMAIN done /\ done'[i] = done[i]
                              \/ i = Len(done) + 1 /\ done'[i] = r
  BY AppendFacts DEF TypeOK
<1>6. \A i, k \in DOMAIN done' : done'[i].call.by = done'[k].call.by => i = k
  BY <1>4, <1>5 DEF OneCallEach
<1>7. \A i, k \in DOMAIN jobs' : jobs'[i].by = jobs'[k].by => i = k
  <2> SUFFICES ASSUME NEW i \in DOMAIN jobs', NEW k \in DOMAIN jobs',
                      jobs'[i].by = jobs'[k].by
               PROVE  i = k
    OBVIOUS
  <2>1. i + 1 = k + 1
    BY <1>2 DEF OneCallEach
  <2> QED
    BY <1>2, <2>1
<1>8. \A i \in DOMAIN jobs', k \in DOMAIN done' : jobs'[i].by # done'[k].call.by
  BY <1>2, <1>3, <1>5 DEF OneCallEach
<1>9. \A i \in DOMAIN done' : done'[i].call.by \in Waiters'
  BY <1>1, <1>5 DEF OneCallEach
<1>10. \A i \in DOMAIN jobs' : jobs'[i].by \in Waiters'
  BY <1>2 DEF OneCallEach
<1> QED
  BY <1>6, <1>7, <1>8, <1>9, <1>10 DEF OneCallEach

\* No step gives a coroutine a second call, or a call to one that does not wait.
LEMMA CallsStep == IInv /\ [Next]_vars => OneCallEach'
<1> SUFFICES ASSUME IInv, [Next]_vars PROVE OneCallEach'
  OBVIOUS
<1> USE DEF network, coroutines, registry, database, listener, bounds
<1>t. TypeOK /\ OneCallEach
  BY DEF IInv
<1>q. jobs' = jobs /\ done' = done /\ Waiters' = Waiters => OneCallEach'
  BY <1>t DEF OneCallEach
<1>c. ASSUME NEW c \in Conns,
             \/ ReadDirect(c) \/ ReadBroken(c) \/ ReadPacket(c) \/ Disconnected(c)
             \/ ResumeLogin(c) \/ ResumeReport(c) \/ ResumeRaise(c) \/ Drained(c)
      PROVE  OneCallEach'
  <2>1. CASE ReadPacket(c)
    <3> DEFINE j == Call(c, inbox[c].kind, inbox[c].udid)
    <3>1. j \in Job /\ j.by = c
      BY <2>1 DEF ReadPacket, Call, Job, Awaited, LoginPackets, OtherPackets
    <3>2. jobs' = Append(jobs, j) /\ done' = done
      BY <2>1 DEF ReadPacket
    <3>3. c \notin Waiters
      BY <2>1, SessionsAssumption DEF ReadPacket, Waiters
    <3>4. Waiters' = Waiters \cup {c}
      BY <1>t, <2>1 DEF ReadPacket, Waiters, TypeOK
    <3> HIDE DEF j
    <3> QED
      BY <1>t, <3>1, <3>2, <3>3, <3>4, CallAdded
  <2>2. CASE ReadDirect(c) \/ ReadBroken(c) \/ Disconnected(c) \/ Drained(c)
    <3>1. Waiters' = Waiters
      <4>1. phase[c] # "waiting" /\ phase'[c] # "waiting"
        BY <1>t, <2>2 DEF ReadDirect, ReadBroken, Disconnected, Drained, Ended,
                          AfterWrite, TypeOK
      <4>2. lphase' = lphase /\ \A e \in Conns : e # c => phase'[e] = phase[e]
        BY <1>t, <2>2 DEF ReadDirect, ReadBroken, Disconnected, Drained, Ended, TypeOK
      <4> QED
        BY <4>1, <4>2 DEF Waiters
    <3> QED
      BY <1>q, <2>2, <3>1 DEF ReadDirect, ReadBroken, Disconnected, Drained
  <2>3. CASE ResumeLogin(c) \/ ResumeReport(c) \/ ResumeRaise(c)
    <3>1. Resumed(c) /\ jobs' = jobs /\ lphase' = lphase
      BY <2>3 DEF ResumeLogin, ResumeReport, ResumeRaise
    <3>2. Waiters' = Waiters \ {c}
      <4>1. phase'[c] # "waiting" /\ \A e \in Conns : e # c => phase'[e] = phase[e]
        BY <1>t, <2>3 DEF ResumeLogin, ResumeReport, ResumeRaise, Ended, AfterWrite, TypeOK
      <4> QED
        BY <3>1, <4>1, SessionsAssumption DEF Waiters
    <3> QED
      BY <1>t, <3>1, <3>2, ResultTaken DEF Resumed
  <2> QED
    BY <1>c, <2>1, <2>2, <2>3
<1>d. CASE RunJob
  <2>1. jobs # <<>> /\ jobs' = Tail(jobs) /\ Waiters' = Waiters
    BY <1>d DEF RunJob, Waiters
  <2>2. Head(jobs) \in Job
    BY <1>t, <2>1, TailFacts DEF TypeOK
  <2>3. PICK t \in Nat : Finish(Head(jobs), t)
    <3>1. minted + 1 \in Nat
      BY <1>t DEF TypeOK
    <3>2. Finish(Head(jobs), minted + 1) \/ Finish(Head(jobs), 0)
      BY <1>d DEF RunJob, RunLogin, RunOther
    <3> QED
      BY <3>1, <3>2
  <2> DEFINE r == [call |-> Head(jobs), token |-> t]
  <2>4. r \in Result /\ r.call.by = Head(jobs).by
    BY <2>2 DEF Result
  <2>5. done' = Append(done, r)
    BY <2>3 DEF Finish
  <2> HIDE DEF r
  <2> QED
    BY <1>t, <2>1, <2>4, <2>5, CallFinished
<1>l. ASSUME \/ TakeRegistered \/ TakeUnregistered \/ Subscribe
             \/ ResumeLookup \/ ResumeBuild \/ ResumeNothing \/ ListenerDrained
      PROVE  OneCallEach'
  <2>1. CASE TakeRegistered
    <3> DEFINE j == Call(Listener, "lookup", None)
    <3>1. j \in Job /\ j.by = Listener
      BY DEF Call, Job, ListenerKinds
    <3>2. jobs' = Append(jobs, j) /\ done' = done
      BY <2>1 DEF TakeRegistered
    <3>3. Listener \notin Waiters /\ Waiters' = Waiters \cup {Listener}
      BY <2>1, SessionsAssumption DEF TakeRegistered, Waiters, ListenerKinds
    <3> HIDE DEF j
    <3> QED
      BY <1>t, <3>1, <3>2, <3>3, CallAdded
  <2>2. CASE TakeUnregistered
    BY <1>q, <2>2 DEF TakeUnregistered, Waiters
  <2>3. CASE ResumeLookup
    <3> DEFINE j == Call(Listener, "build", None)
    <3>1. j \in Job /\ j.by = Head(done).call.by
      BY <2>3 DEF Call, Job, ListenerKinds, ResumeLookup, Resumed
    <3>2. jobs' = Append(jobs, j) /\ done' = Tail(done) /\ done # <<>>
      BY <2>3 DEF ResumeLookup, Resumed
    <3>3. Waiters' = Waiters
      BY <2>3, ListenerAtWork DEF ResumeLookup, Waiters, ListenerKinds
    <3> HIDE DEF j
    <3> QED
      BY <1>t, <3>1, <3>2, <3>3, CallReplaced
  <2>4. CASE ResumeBuild \/ ResumeNothing
    <3>1. /\ done # <<>> /\ Head(done).call.by = Listener /\ done' = Tail(done)
          /\ jobs' = jobs /\ phase' = phase /\ lphase' \notin ListenerKinds
      BY <2>4 DEF ResumeBuild, ResumeNothing, Resumed, ListenerKinds
    <3>2. Waiters' = Waiters \ {Listener}
      BY <3>1, SessionsAssumption DEF Waiters
    <3> QED
      BY <1>t, <3>1, <3>2, ResultTaken
  <2>5. CASE Subscribe \/ ListenerDrained
    BY <1>q, <2>5 DEF Subscribe, ListenerDrained, Waiters, ListenerKinds
  <2> QED
    BY <1>l, <2>1, <2>2, <2>3, <2>4, <2>5
<1>e. CASE Environment
  <2>1. ASSUME NEW c \in Conns, NetworkStep(c) PROVE OneCallEach'
    BY <1>q, <2>1 DEF NetworkStep, Connect, Stall, Recover, Lose, Waiters
  <2>2. ASSUME NEW c \in Conns, NEW k \in Packets, Send(c, k) PROVE OneCallEach'
    BY <1>q, <2>2 DEF Send, Waiters
  <2>4. ASSUME NEW d \in Devices, Publish(d) PROVE OneCallEach'
    BY <1>q, <2>4 DEF Publish, Waiters
  <2>5. CASE Restart
    <3>1. jobs' = <<>> /\ done' = <<>>
      BY <2>5 DEF Restart
    <3> QED
      BY <3>1 DEF OneCallEach
  <2> QED
    BY <1>c, <1>e, <2>1, <2>2, <2>4, <2>5 DEF Environment, NetworkStep
<1>u. CASE UNCHANGED vars
  BY <1>q, <1>u DEF vars, Waiters
<1> QED
  BY <1>c, <1>d, <1>l, <1>e, <1>u DEF Next, Server

-----------------------------------------------------------------------------
(* The connections and the registry.                                       *)

\* No step leaves a handle_client waiting after its end.
LEMMA WaitsStep == IInv /\ [Next]_vars => WaitsAlive'
<1> SUFFICES ASSUME IInv, [Next]_vars, NEW e \in Conns
             PROVE  /\ phase'[e] = "waiting" => Live(e)'
                    /\ link'[e] = "new" => device_instance'[e] = None
  BY DEF WaitsAlive
<1> DEFINE Goal == /\ phase'[e] = "waiting" => Live(e)'
                   /\ link'[e] = "new" => device_instance'[e] = None
<1> USE DEF network, coroutines, registry, database, listener, bounds
<1>t. TypeOK
  BY DEF IInv
<1>i. /\ phase[e] = "waiting" => Live(e)
      /\ link[e] = "new" => device_instance[e] = None
  BY DEF IInv, WaitsAlive
<1>q. link' = link /\ phase' = phase /\ device_instance' = device_instance => Goal
  BY <1>i DEF Live
<1>c. ASSUME NEW c \in Conns,
             \/ ReadDirect(c) \/ ReadBroken(c) \/ ReadPacket(c) \/ Disconnected(c)
             \/ ResumeLogin(c) \/ ResumeReport(c) \/ ResumeRaise(c) \/ Drained(c)
      PROVE  Goal
  <2>1. CASE ReadPacket(c)
    BY <1>t, <1>i, <2>1 DEF ReadPacket, Live, TypeOK
  <2>2. CASE ReadDirect(c)
    BY <1>t, <1>i, <2>2 DEF ReadDirect, Live, TypeOK
  <2>3. CASE ReadBroken(c) \/ Disconnected(c)
    BY <1>t, <1>i, <2>3 DEF ReadBroken, Disconnected, Ended, Live, TypeOK
  <2>4. CASE ResumeLogin(c)
    <3>1. Live(c)
      BY <2>4, ResumedIsLive DEF ResumeLogin
    <3> QED
      BY <1>t, <1>i, <2>4, <3>1 DEF ResumeLogin, Live, TypeOK
  <2>5. CASE ResumeReport(c)
    <3>1. Live(c)
      BY <2>5, ResumedIsLive DEF ResumeReport
    <3> QED
      BY <1>t, <1>i, <2>5, <3>1 DEF ResumeReport, Live, TypeOK
  <2>6. CASE ResumeRaise(c)
    BY <1>t, <1>i, <2>6 DEF ResumeRaise, Ended, Live, TypeOK
  <2>7. CASE Drained(c)
    BY <1>t, <1>i, <2>7 DEF Drained, Live, TypeOK
  <2> QED
    BY <1>c, <2>1, <2>2, <2>3, <2>4, <2>5, <2>6, <2>7
<1>d. CASE RunJob
  BY <1>q, <1>d DEF RunJob
<1>l. CASE \/ TakeRegistered \/ TakeUnregistered \/ Subscribe
           \/ ResumeLookup \/ ResumeBuild \/ ResumeNothing \/ ListenerDrained
  BY <1>q, <1>l DEF TakeRegistered, TakeUnregistered, Subscribe, ResumeLookup,
                    ResumeBuild, ResumeNothing, ListenerDrained
<1>e. CASE Environment
  <2>1. ASSUME NEW c \in Conns, NetworkStep(c) PROVE Goal
    BY <1>t, <1>i, <2>1 DEF NetworkStep, Connect, Stall, Recover, Lose, Live, TypeOK
  <2>2. ASSUME NEW c \in Conns, NEW k \in Packets, Send(c, k) PROVE Goal
    BY <1>q, <2>2 DEF Send
  <2>4. ASSUME NEW d \in Devices, Publish(d) PROVE Goal
    BY <1>q, <2>4 DEF Publish
  <2>5. CASE Restart
    BY <1>t, <1>i, <2>5 DEF Restart, TypeOK
  <2> QED
    BY <1>c, <1>e, <2>1, <2>2, <2>4, <2>5 DEF Environment, NetworkStep
<1>u. CASE UNCHANGED vars
  BY <1>q, <1>u DEF vars
<1> QED
  BY <1>c, <1>d, <1>l, <1>e, <1>u DEF Next, Server

\* A coroutine that ends takes out no entry but that of the watch it serves, and
\* leaves none of its own but those of watches it served before.
LEMMA UnregisterEffect ==
    ASSUME IInv, NEW c \in Conns, Unregister(c)
    PROVE  /\ DOMAIN CLIENTS' \subseteq DOMAIN CLIENTS
           /\ \A d \in DOMAIN CLIENTS' : /\ CLIENTS'[d] = CLIENTS[d]
                                         /\ CLIENTS[d] = c => d \in left[c]
           /\ \A d \in DOMAIN CLIENTS : d # device_instance[c] => d \in DOMAIN CLIENTS'
<1>1. \A d \in DOMAIN CLIENTS : CLIENTS[d] = c => device_instance[c] = d \/ d \in left[c]
  BY DEF IInv, RegistrationSound, InSession
<1>2. None \notin DOMAIN CLIENTS
  BY SessionsAssumption DEF IInv, TypeOK
<1>3. CASE device_instance[c] \in DOMAIN CLIENTS
  <2>1. CLIENTS' = Without(CLIENTS, device_instance[c])
    BY <1>2, <1>3 DEF Unregister
  <2>2. /\ DOMAIN CLIENTS' = DOMAIN CLIENTS \ {device_instance[c]}
        /\ \A d \in DOMAIN CLIENTS \ {device_instance[c]} : CLIENTS'[d] = CLIENTS[d]
    BY <2>1, WithoutFacts
  <2> QED
    BY <1>1, <2>2
<1>4. CASE device_instance[c] \notin DOMAIN CLIENTS
  BY <1>1, <1>4 DEF Unregister
<1> QED
  BY <1>3, <1>4

\* A login puts the connection under the udid it names, and no entry of another
\* udid changes; the watch the connection served before is one it has left.
Registers(c, u) ==
    /\ u \in Devices /\ Live(c)
    /\ DOMAIN CLIENTS' = DOMAIN CLIENTS \cup {u}
    /\ CLIENTS'[u] = c
    /\ \A d \in DOMAIN CLIENTS : d # u => CLIENTS'[d] = CLIENTS[d]
    /\ device_instance'[c] = u
    /\ given'[c][u] = Head(done).token
    /\ \A d \in Devices : d # u => given'[c][d] = given[c][d]
    /\ \A d \in Devices : /\ d # u
                          /\ d = device_instance[c] \/ d \in left[c]
                          => d \in left'[c]
    /\ \A e \in Conns : e # c => /\ device_instance'[e] = device_instance[e]
                                 /\ given'[e] = given[e]
                                 /\ left'[e] = left[e]

\* What the registry and the connections look like after a login is registered.
LEMMA LoginEffect ==
    ASSUME IInv, NEW c \in Conns, ResumeLogin(c)
    PROVE  Registers(c, Head(done).call.udid)
<1> DEFINE u == Head(done).call.udid
<1>1. u \in Devices /\ Live(c)
  BY LoginNamesWatch, ResumedIsLive DEF ResumeLogin
<1>2. /\ CLIENTS' = With(CLIENTS, u, c)
      /\ device_instance' = [device_instance EXCEPT ![c] = u]
      /\ given' = [given EXCEPT ![c] = [given[c] EXCEPT ![u] = Head(done).token]]
      /\ left' = [left EXCEPT ![c] = (left[c] \cup {device_instance[c]}) \ {None, u}]
  BY DEF ResumeLogin, IInv, TypeOK
<1> HIDE DEF u
<1>3. /\ DOMAIN CLIENTS' = DOMAIN CLIENTS \cup {u}
      /\ CLIENTS'[u] = c
      /\ \A d \in DOMAIN CLIENTS : d # u => CLIENTS'[d] = CLIENTS[d]
  BY <1>2 DEF With
<1>4. /\ device_instance'[c] = u
      /\ given'[c] = [given[c] EXCEPT ![u] = Head(done).token]
      /\ left'[c] = (left[c] \cup {device_instance[c]}) \ {None, u}
      /\ \A e \in Conns : e # c => /\ device_instance'[e] = device_instance[e]
                                   /\ given'[e] = given[e]
                                   /\ left'[e] = left[e]
  BY <1>2 DEF IInv, TypeOK
<1>5. given[c] \in [Devices -> Nat]
  BY DEF IInv, TypeOK
<1>6. /\ given'[c][u] = Head(done).token
      /\ \A d \in Devices : d # u => given'[c][d] = given[c][d]
  BY <1>1, <1>4, <1>5
<1>7. \A d \in Devices : d # u /\ (d = device_instance[c] \/ d \in left[c]) => d \in left'[c]
  BY <1>4, SessionsAssumption
<1> QED
  BY <1>1, <1>3, <1>4, <1>6, <1>7 DEF Registers, u

\* The network's steps change the state of one connection, which stays in use.
LinkMoves(c) ==
    /\ link[c] \in {"new", "up", "stalled"}
    /\ \E x \in {"up", "stalled", "lost"} : link' = [link EXCEPT ![c] = x]
    /\ UNCHANGED <<CLIENTS, device_instance, given, left, overlapped>>

\* What a step does to the sessions and the registry: a login is registered, a
\* coroutine ends, the server restarts, the network acts on a connection, or none
\* of them is touched.
LEMMA RegistrySteps ==
    ASSUME IInv, [Next]_vars
    PROVE  \/ \E c \in Conns : ResumeLogin(c)
           \/ \E c \in Conns :
                /\ Ended(c) /\ Live(c)
                /\ UNCHANGED <<device_instance, given, left, overlapped>>
           \/ Restart
           \/ \E c \in Conns : LinkMoves(c)
           \/ UNCHANGED <<link, CLIENTS, device_instance, given, left, overlapped>>
<1> USE DEF network, coroutines, registry, database, listener, bounds
<1>1. ASSUME NEW c \in Conns, ReadBroken(c) \/ Disconnected(c) \/ ResumeRaise(c)
      PROVE  /\ Ended(c) /\ Live(c)
             /\ UNCHANGED <<device_instance, given, left, overlapped>>
  BY <1>1, ResumedIsLive DEF ReadBroken, Disconnected, ResumeRaise, Live
<1>2. ASSUME NEW c \in Conns,
             ReadDirect(c) \/ ReadPacket(c) \/ ResumeReport(c) \/ Drained(c)
      PROVE  UNCHANGED <<link, CLIENTS, device_instance, given, left, overlapped>>
  BY <1>2 DEF ReadDirect, ReadPacket, ResumeReport, Drained
<1>3. CASE \/ RunJob \/ TakeRegistered \/ TakeUnregistered \/ Subscribe
           \/ ResumeLookup \/ ResumeBuild \/ ResumeNothing \/ ListenerDrained
  BY <1>3 DEF RunJob, TakeRegistered, TakeUnregistered, Subscribe, ResumeLookup,
              ResumeBuild, ResumeNothing, ListenerDrained
<1>4. ASSUME NEW c \in Conns, NEW k \in Packets, Send(c, k)
      PROVE  UNCHANGED <<link, CLIENTS, device_instance, given, left, overlapped>>
  BY <1>4 DEF Send
<1>5. ASSUME NEW d \in Devices, Publish(d)
      PROVE  UNCHANGED <<link, CLIENTS, device_instance, given, left, overlapped>>
  BY <1>5 DEF Publish
<1>6. CASE UNCHANGED vars
  BY <1>6 DEF vars
<1>7. CASE Server
  BY <1>1, <1>2, <1>3, <1>7 DEF Server
<1>8. ASSUME NEW c \in Conns, NetworkStep(c) PROVE LinkMoves(c)
  BY <1>8 DEF NetworkStep, Connect, Stall, Recover, Lose, LinkMoves
<1>9. CASE Environment
  BY <1>1, <1>4, <1>5, <1>8, <1>9 DEF Environment, NetworkStep
<1> QED
  BY <1>6, <1>7, <1>9 DEF Next

\* No step leaves a registered writer that neither serves the watch nor has left it.
LEMMA RegistrationStep == IInv /\ [Next]_vars => RegistrationSound'
<1> SUFFICES ASSUME IInv, [Next]_vars,
                    NEW d \in DOMAIN CLIENTS'
             PROVE  \/ Live(CLIENTS[d])' /\ device_instance'[CLIENTS'[d]] = d
                    \/ d \in left'[CLIENTS'[d]]
  BY DEF RegistrationSound, InSession
<1> DEFINE Goal == \/ Live(CLIENTS[d])' /\ device_instance'[CLIENTS'[d]] = d
                   \/ d \in left'[CLIENTS'[d]]
<1>t. TypeOK
  BY DEF IInv
<1>i. \A x \in DOMAIN CLIENTS : /\ x \in Devices /\ CLIENTS[x] \in Conns
                               /\ \/ Live(CLIENTS[x]) /\ device_instance[CLIENTS[x]] = x
                                  \/ x \in left[CLIENTS[x]]
  BY DEF IInv, RegistrationSound, InSession, TypeOK
<1>1. ASSUME NEW c \in Conns, ResumeLogin(c) PROVE Goal
  <2> DEFINE u == Head(done).call.udid
  <2>0. Registers(c, u)
    BY <1>1, LoginEffect
  <2>1. link' = link
    BY <1>1 DEF ResumeLogin, network
  <2> HIDE DEF u
  <2>2. CASE d = u
    BY <2>0, <2>1, <2>2 DEF Registers, Live
  <2>3. CASE d # u
    <3>1. d \in DOMAIN CLIENTS /\ CLIENTS'[d] = CLIENTS[d]
      BY <2>0, <2>3 DEF Registers
    <3>2. CASE CLIENTS[d] = c
      <4>1. d \in Devices /\ (device_instance[c] = d \/ d \in left[c])
        BY <1>i, <3>1, <3>2
      <4>2. d \in left'[c]
        BY <2>0, <2>3, <4>1 DEF Registers
      <4> QED
        BY <3>1, <3>2, <4>2
    <3>3. CASE CLIENTS[d] # c
      <4>1. CLIENTS[d] \in Conns
        BY <1>i, <3>1
      <4>2. /\ device_instance'[CLIENTS[d]] = device_instance[CLIENTS[d]]
            /\ left'[CLIENTS[d]] = left[CLIENTS[d]]
        BY <2>0, <3>3, <4>1 DEF Registers
      <4> QED
        BY <1>i, <2>1, <3>1, <4>2 DEF Live
    <3> QED
      BY <3>2, <3>3
  <2> QED
    BY <2>2, <2>3
<1>2. ASSUME NEW c \in Conns, Ended(c), UNCHANGED <<device_instance, left>> PROVE Goal
  <2>1. /\ d \in DOMAIN CLIENTS /\ CLIENTS'[d] = CLIENTS[d]
        /\ CLIENTS[d] = c => d \in left[c]
    BY <1>2, UnregisterEffect DEF Ended
  <2>2. CASE CLIENTS[d] = c
    BY <1>2, <2>1, <2>2
  <2>3. CASE CLIENTS[d] # c
    <3>1. link'[CLIENTS[d]] = link[CLIENTS[d]]
      BY <1>t, <1>i, <1>2, <2>1, <2>3 DEF Ended, TypeOK
    <3> QED
      BY <1>i, <1>2, <2>1, <3>1 DEF Live
  <2> QED
    BY <2>2, <2>3
<1>3. CASE Restart
  BY <1>3 DEF Restart
<1>4. ASSUME NEW c \in Conns, LinkMoves(c) PROVE Goal
  <2>1. Live(CLIENTS[d]) => Live(CLIENTS[d])'
    BY <1>t, <1>i, <1>4 DEF LinkMoves, Live, TypeOK
  <2> QED
    BY <1>i, <1>4, <2>1 DEF LinkMoves
<1>6. CASE UNCHANGED <<link, CLIENTS, device_instance, left>>
  BY <1>i, <1>6 DEF Live
<1> QED
  BY <1>1, <1>2, <1>3, <1>4, <1>6, RegistrySteps

\* No step takes a lone session of a watch out of the registry.
LEMMA OverlapStep == IInv /\ [Next]_vars => RegisteredUnlessOverlapped'
<1> SUFFICES ASSUME IInv, [Next]_vars,
                    NEW e \in Conns, NEW d \in Devices \ overlapped',
                    Live(e)', device_instance'[e] = d
             PROVE  d \in DOMAIN CLIENTS' /\ CLIENTS'[d] = e
  BY DEF RegisteredUnlessOverlapped, InSession
<1> DEFINE Goal == d \in DOMAIN CLIENTS' /\ CLIENTS'[d] = e
<1>t. TypeOK
  BY DEF IInv
<1>i. \A x \in Conns : Live(x) /\ device_instance[x] = d /\ d \notin overlapped
                      => d \in DOMAIN CLIENTS /\ CLIENTS[d] = x
  BY DEF IInv, RegisteredUnlessOverlapped, InSession
<1>1. ASSUME NEW c \in Conns, ResumeLogin(c) PROVE Goal
  <2> DEFINE u == Head(done).call.udid
  <2>0. Registers(c, u)
    BY <1>1, LoginEffect
  <2>1. link' = link
    BY <1>1 DEF ResumeLogin, network
  <2>2. overlapped' = IF \E x \in Conns \ {c} : InSession(x, u)
                      THEN overlapped \cup {u} ELSE overlapped
    BY <1>1 DEF ResumeLogin
  <2> HIDE DEF u
  <2>3. CASE e = c
    <3>1. d = u
      BY <2>0, <2>3 DEF Registers
    <3> QED
      BY <2>0, <2>3, <3>1 DEF Registers
  <2>4. CASE e # c
    <3>1. InSession(e, d)
      BY <2>0, <2>1, <2>4 DEF Registers, InSession, Live
    <3>2. d # u /\ d \notin overlapped
      BY <2>2, <2>4, <3>1
    <3>3. d \in DOMAIN CLIENTS /\ CLIENTS[d] = e
      BY <1>i, <3>1, <3>2 DEF InSession
    <3> QED
      BY <2>0, <3>2, <3>3 DEF Registers
  <2> QED
    BY <2>3, <2>4
<1>2. ASSUME NEW c \in Conns, Ended(c), Live(c),
             UNCHANGED <<device_instance, overlapped>>
      PROVE  Goal
  <2>1. Live(e) /\ e # c
    BY <1>t, <1>2 DEF Ended, Live, TypeOK
  <2>2. d \in DOMAIN CLIENTS /\ CLIENTS[d] = e
    BY <1>i, <1>2, <2>1
  <2>3. d \in DOMAIN CLIENTS'
    <3>1. CASE device_instance[c] # d
      BY <1>2, <2>2, <3>1, UnregisterEffect DEF Ended
    <3>2. CASE device_instance[c] = d
      \* c is in session for d as well, so it would be the registered one
      BY <1>i, <1>2, <2>1, <2>2, <3>2
    <3> QED
      BY <3>1, <3>2
  <2> QED
    BY <1>2, <2>2, <2>3, UnregisterEffect DEF Ended
<1>3. CASE Restart
  BY <1>3, SessionsAssumption DEF Restart
<1>4. ASSUME NEW c \in Conns, LinkMoves(c) PROVE Goal
  <2>1. device_instance[e] = d /\ d \notin overlapped
    BY <1>4 DEF LinkMoves
  <2>2. link[e] # "new"
    BY <2>1, SessionsAssumption DEF IInv, WaitsAlive
  <2>3. Live(e)
    BY <1>t, <1>4, <2>2 DEF LinkMoves, Live, TypeOK
  <2> QED
    BY <1>i, <1>4, <2>1, <2>3 DEF LinkMoves
<1>6. CASE UNCHANGED <<link, CLIENTS, device_instance, overlapped>>
  BY <1>i, <1>6 DEF Live
<1> QED
  BY <1>1, <1>2, <1>3, <1>4, <1>6, RegistrySteps

-----------------------------------------------------------------------------
(* The tokens.                                                             *)

\* The finished logins, and the watches they belong to.
Logins == {i \in DOMAIN done : done[i].call.kind = "login"}
LoginPending(d) == \E i \in Logins : done[i].call.udid = d

\* What a step does to the results: none is touched, the oldest is taken, the
\* database thread adds one, or the server restarts.
LEMMA QueueSteps ==
    ASSUME [Next]_vars
    PROVE  \/ UNCHANGED <<done, http_token>>
           \/ /\ done # <<>> /\ done' = Tail(done) /\ http_token' = http_token
              /\ Head(done).call.kind # "login" \/ Head(done).call.by = Listener
           \/ \E c \in Conns : ResumeLogin(c)
           \/ RunJob
           \/ Restart
<1> USE DEF network, coroutines, registry, database, listener, bounds
<1>1. ASSUME NEW c \in Conns, ResumeReport(c) \/ ResumeRaise(c)
      PROVE  /\ done # <<>> /\ done' = Tail(done) /\ http_token' = http_token
             /\ Head(done).call.kind # "login"
  BY <1>1 DEF ResumeReport, ResumeRaise, Resumed
<1>2. ASSUME NEW c \in Conns, \/ ReadDirect(c) \/ ReadPacket(c) \/ ReadBroken(c)
                              \/ Disconnected(c) \/ Drained(c)
      PROVE  UNCHANGED <<done, http_token>>
  BY <1>2 DEF ReadDirect, ReadPacket, ReadBroken, Disconnected, Drained
<1>3. CASE ResumeLookup \/ ResumeBuild \/ ResumeNothing
  BY <1>3 DEF ResumeLookup, ResumeBuild, ResumeNothing, Resumed
<1>4. CASE TakeRegistered \/ TakeUnregistered \/ Subscribe \/ ListenerDrained
  BY <1>4 DEF TakeRegistered, TakeUnregistered, Subscribe, ListenerDrained
<1>5. ASSUME NEW c \in Conns, NEW k \in Packets, Send(c, k)
      PROVE  UNCHANGED <<done, http_token>>
  BY <1>5 DEF Send
<1>6. ASSUME NEW d \in Devices, Publish(d) PROVE UNCHANGED <<done, http_token>>
  BY <1>6 DEF Publish
<1>7. ASSUME NEW c \in Conns, NetworkStep(c) PROVE UNCHANGED <<done, http_token>>
  BY <1>7 DEF NetworkStep, Connect, Stall, Recover, Lose
<1>9. CASE UNCHANGED vars
  BY <1>9 DEF vars
<1>10. CASE Server
  BY <1>1, <1>2, <1>3, <1>4, <1>10 DEF Server
<1>11. CASE Environment
  BY <1>2, <1>5, <1>6, <1>7, <1>11 DEF Environment, NetworkStep
<1> QED
  BY <1>9, <1>10, <1>11 DEF Next

\* A result of the listener, or of another handler than the login's, is no login.
LEMMA HeadIsNoLogin ==
    ASSUME IInv, done # <<>>,
           Head(done).call.kind # "login" \/ Head(done).call.by = Listener
    PROVE  Head(done).call.kind # "login"
<1>1. Head(done) \in Result
  BY TailFacts DEF IInv, TypeOK
<1> QED
  BY <1>1, SessionsAssumption DEF Result, Job, ListenerKinds

\* The database thread's step: a new token is stored and becomes the last result.
LEMMA RunJobEffect ==
    ASSUME IInv, RunJob
    PROVE  \E r \in Result :
              /\ done' = Append(done, r)
              /\ \/ r.call.kind # "login" /\ http_token' = http_token
                 \/ /\ r.call.kind = "login" /\ r.token # 0
                    /\ http_token' = [http_token EXCEPT ![r.call.udid] = r.token]
<1> DEFINE j == Head(jobs)
           R(t) == [call |-> j, token |-> t]
<1>1. TypeOK /\ minted + 1 \in Nat /\ minted + 1 # 0
  BY DEF IInv, TypeOK
<1>2. j \in Job
  BY <1>1, TailFacts DEF RunJob, TypeOK
<1>3. \A t \in Nat : R(t) \in Result /\ R(t).call = j /\ R(t).token = t
  BY <1>2 DEF Result
<1>4. CASE RunLogin(j)
  <2>1. done' = Append(done, R(minted + 1))
    BY <1>4 DEF RunLogin, Finish
  <2>2. j.kind = "login" /\ http_token' = [http_token EXCEPT ![j.udid] = minted + 1]
    BY <1>4 DEF RunLogin
  <2> HIDE DEF R, j
  <2> QED
    BY <1>1, <1>3, <2>1, <2>2
<1>5. CASE RunOther(j)
  <2>1. done' = Append(done, R(0))
    BY <1>5 DEF RunOther, Finish
  <2>2. j.kind # "login" /\ http_token' = http_token
    BY <1>5 DEF RunOther, database
  <2> HIDE DEF R, j
  <2> QED
    BY <1>3, <2>1, <2>2
<1> QED
  BY <1>4, <1>5 DEF RunJob

\* An element was added to the results: the earlier ones keep their places.
LEMMA ResultAdded ==
    ASSUME IInv, NEW r \in Result, done' = Append(done, r)
    PROVE  /\ \A i \in DOMAIN done : /\ i \in DOMAIN done' /\ done'[i] = done[i]
                                     /\ i \in Nat /\ i < Len(done) + 1
           /\ \A i \in DOMAIN done' : \/ i \in DOMAIN done /\ done'[i] = done[i]
                                      \/ i = Len(done) + 1 /\ done'[i] = r
           /\ Len(done) + 1 \in DOMAIN done'
           /\ done'[Len(done) + 1] = r
<1>1. done \in Seq(Result)
  BY DEF IInv, TypeOK
<1>2. \A i \in DOMAIN done : /\ i \in DOMAIN done' /\ done'[i] = done[i]
                             /\ i \in Nat /\ i < Len(done) + 1
  BY <1>1, AppendFacts
<1>3. \A i \in DOMAIN done' : \/ i \in DOMAIN done /\ done'[i] = done[i]
                              \/ i = Len(done) + 1 /\ done'[i] = r
  BY <1>1, AppendFacts
<1>4. Len(done) + 1 \in DOMAIN done' /\ done'[Len(done) + 1] = r
  BY <1>1, AppendFacts
<1> QED
  BY <1>2, <1>3, <1>4

\* The oldest result was taken: the others move up by one place.
LEMMA ResultRemoved ==
    ASSUME IInv, done # <<>>, done' = Tail(done)
    PROVE  /\ 1 \in DOMAIN done /\ Head(done) = done[1]
           /\ \A i \in DOMAIN done' : /\ i \in Nat /\ i + 1 \in DOMAIN done
                                     /\ done'[i] = done[i + 1]
           /\ \A i \in DOMAIN done : i # 1 => /\ i \in Nat /\ i - 1 \in DOMAIN done'
                                              /\ done'[i - 1] = done[i]
<1>1. done \in Seq(Result)
  BY DEF IInv, TypeOK
<1> QED
  BY <1>1, TailFacts

\* A login puts the connection under one udid; what the others have is not touched.
LEMMA OtherEntries ==
    ASSUME IInv, NEW c \in Conns, NEW u, Registers(c, u),
           NEW d \in DOMAIN CLIENTS', d # u
    PROVE  /\ d \in DOMAIN CLIENTS
           /\ CLIENTS'[d] = CLIENTS[d]
           /\ given'[CLIENTS'[d]][d] = given[CLIENTS[d]][d]
<1>1. d \in DOMAIN CLIENTS /\ CLIENTS'[d] = CLIENTS[d]
  BY DEF Registers
<1>2. d \in Devices /\ CLIENTS[d] \in Conns
  BY <1>1 DEF IInv, TypeOK
<1>3. CASE CLIENTS[d] = c
  BY <1>1, <1>2, <1>3 DEF Registers
<1>4. CASE CLIENTS[d] # c
  BY <1>1, <1>2, <1>4 DEF Registers
<1> QED
  BY <1>1, <1>3, <1>4

\* No step registers a connection that was given no token.
LEMMA GivenStep == IInv /\ [Next]_vars => RegisteredWasGiven'
<1> SUFFICES ASSUME IInv, [Next]_vars PROVE RegisteredWasGiven'
  OBVIOUS
<1>i. /\ \A d \in DOMAIN CLIENTS : CLIENTS[d] \in Conns /\ given[CLIENTS[d]][d] # 0
      /\ \A i \in DOMAIN done : done[i].call.kind = "login" => done[i].token # 0
  BY DEF IInv, RegisteredWasGiven, TypeOK
<1>1. ASSUME NEW d \in DOMAIN CLIENTS' PROVE given'[CLIENTS'[d]][d] # 0
  <2>1. ASSUME NEW c \in Conns, ResumeLogin(c) PROVE given'[CLIENTS'[d]][d] # 0
    <3>1. Registers(c, Head(done).call.udid)
      BY <2>1, LoginEffect
    <3>2. Head(done).token # 0
      <4>1. done # <<>> /\ done' = Tail(done) /\ Head(done).call.kind = "login"
        BY <2>1 DEF ResumeLogin, Resumed
      <4>2. 1 \in DOMAIN done /\ Head(done) = done[1]
        BY <4>1, ResultRemoved
      <4> QED
        BY <1>i, <4>1, <4>2
    <3>3. CASE d = Head(done).call.udid
      BY <3>1, <3>2, <3>3 DEF Registers
    <3>4. CASE d # Head(done).call.udid
      BY <1>i, <3>1, <3>4, OtherEntries
    <3> QED
      BY <3>3, <3>4
  <2>2. ASSUME NEW c \in Conns, Ended(c), given' = given
        PROVE  given'[CLIENTS'[d]][d] # 0
    BY <1>i, <2>2, UnregisterEffect DEF Ended
  <2>3. CASE Restart
    BY <2>3 DEF Restart
  <2>4. CASE UNCHANGED <<CLIENTS, given>>
    BY <1>i, <2>4
  <2> QED
    BY <2>1, <2>2, <2>3, <2>4, RegistrySteps DEF LinkMoves
<1>2. ASSUME NEW i \in DOMAIN done', done'[i].call.kind = "login"
      PROVE  done'[i].token # 0
  <2>1. CASE UNCHANGED done
    BY <1>i, <1>2, <2>1
  <2>2. CASE done # <<>> /\ done' = Tail(done)
    BY <1>i, <1>2, <2>2, ResultRemoved
  <2>3. CASE RunJob
    <3>1. PICK r \in Result : /\ done' = Append(done, r)
                              /\ r.call.kind = "login" => r.token # 0
      BY <2>3, RunJobEffect
    <3>2. \A k \in DOMAIN done' : \/ k \in DOMAIN done /\ done'[k] = done[k]
                                  \/ k = Len(done) + 1 /\ done'[k] = r
      BY <3>1, ResultAdded
    <3> QED
      BY <1>i, <1>2, <3>1, <3>2
  <2>4. CASE Restart
    BY <2>4 DEF Restart
  <2> QED
    BY <2>1, <2>2, <2>3, <2>4, QueueSteps DEF ResumeLogin, Resumed
<1> QED
  BY <1>1, <1>2 DEF RegisteredWasGiven

\* The newest finished login of a watch always carries the token in the database.
LEMMA LastLoginStep == IInv /\ [Next]_vars => LastLoginIsValid'
<1> SUFFICES ASSUME IInv, [Next]_vars,
                    NEW i \in DOMAIN done', done'[i].call.kind = "login"
             PROVE  \/ done'[i].token = http_token'[done'[i].call.udid]
                    \/ \E j \in DOMAIN done' :
                         /\ j > i
                         /\ done'[j].call.kind = "login"
                         /\ done'[j].call.udid = done'[i].call.udid
  BY DEF LastLoginIsValid
<1> DEFINE Goal == \/ done'[i].token = http_token'[done'[i].call.udid]
                   \/ \E j \in DOMAIN done' :
                        /\ j > i
                        /\ done'[j].call.kind = "login"
                        /\ done'[j].call.udid = done'[i].call.udid
           V(k) == done[k].token = http_token[done[k].call.udid]
           N(k) == \E j \in DOMAIN done : /\ j > k
                                          /\ done[j].call.kind = "login"
                                          /\ done[j].call.udid = done[k].call.udid
<1>i. \A k \in DOMAIN done : done[k].call.kind = "login" => V(k) \/ N(k)
  BY DEF IInv, LastLoginIsValid
<1>1. CASE UNCHANGED <<done, http_token>>
  BY <1>i, <1>1
<1>2. ASSUME done # <<>>, done' = Tail(done), http_token' = http_token PROVE Goal
  <2>1. /\ i \in Nat /\ i + 1 \in DOMAIN done /\ done'[i] = done[i + 1]
        /\ \A k \in DOMAIN done : k # 1 => /\ k \in Nat /\ k - 1 \in DOMAIN done'
                                           /\ done'[k - 1] = done[k]
    BY <1>2, ResultRemoved
  <2>2. CASE V(i + 1)
    BY <1>2, <2>1, <2>2
  <2>3. CASE N(i + 1)
    <3>1. PICK j \in DOMAIN done : /\ j > i + 1
                                   /\ done[j].call.kind = "login"
                                   /\ done[j].call.udid = done[i + 1].call.udid
      BY <2>3
    <3>2. j - 1 \in DOMAIN done' /\ j - 1 > i /\ done'[j - 1] = done[j]
      BY <2>1, <3>1
    <3> QED
      BY <2>1, <3>1, <3>2
  <2> QED
    BY <1>i, <2>1, <2>2, <2>3
<1>3. CASE RunJob
  <2>1. PICK r \in Result :
           /\ done' = Append(done, r)
           /\ \/ r.call.kind # "login" /\ http_token' = http_token
              \/ /\ r.call.kind = "login"
                 /\ http_token' = [http_token EXCEPT ![r.call.udid] = r.token]
    BY <1>3, RunJobEffect
  <2> DEFINE n == Len(done) + 1
  <2>2. /\ \A k \in DOMAIN done : /\ k \in DOMAIN done' /\ done'[k] = done[k]
                                  /\ k \in Nat /\ k < n
        /\ \A k \in DOMAIN done' : \/ k \in DOMAIN done /\ done'[k] = done[k]
                                   \/ k = n /\ done'[k] = r
        /\ n \in DOMAIN done' /\ done'[n] = r
    BY <2>1, ResultAdded
  <2> HIDE DEF n
  <2>3. http_token \in [Devices -> Nat]
    BY DEF IInv, TypeOK
  <2>4. r.call.kind = "login" => r.call.udid \in Devices
    BY DEF Result, Job, ListenerKinds
  <2>5. CASE i \in DOMAIN done /\ done'[i] = done[i]
    <3>0. done[i].call.udid \in Devices
      <4>1. done[i] \in Result /\ done[i].call.kind = "login"
        BY <2>5 DEF IInv, TypeOK
      <4> QED
        BY <4>1 DEF Result, Job, ListenerKinds
    <3>1. CASE N(i)
      BY <2>2, <2>5, <3>1
    <3>2. CASE V(i) /\ r.call.kind = "login" /\ r.call.udid = done[i].call.udid
      BY <2>2, <2>5, <3>2
    <3>3. CASE V(i) /\ ~(r.call.kind = "login" /\ r.call.udid = done[i].call.udid)
      BY <2>1, <2>3, <2>5, <3>0, <3>3
    <3> QED
      BY <1>i, <2>5, <3>1, <3>2, <3>3
  <2>6. CASE i = n /\ done'[i] = r
    BY <2>1, <2>3, <2>4, <2>6
  <2> QED
    BY <2>2, <2>5, <2>6
<1>4. CASE Restart
  BY <1>4 DEF Restart
<1>5. ASSUME NEW c \in Conns, ResumeLogin(c) PROVE Goal
  BY <1>2, <1>5 DEF ResumeLogin, Resumed, database
<1> QED
  BY <1>1, <1>2, <1>3, <1>4, <1>5, QueueSteps

\* A token that is valid, or is about to be replaced by a login of its watch,
\* stays so until that login is registered.
LEMMA ValidOrPending ==
    ASSUME IInv, [Next]_vars, ~Restart, \A c \in Conns : ~ResumeLogin(c),
           NEW d \in Devices, NEW t \in Nat,
           t = http_token[d] \/ LoginPending(d)
    PROVE  (t = http_token[d] \/ LoginPending(d))'
<1> DEFINE Goal == (t = http_token[d] \/ LoginPending(d))'
<1>1. CASE UNCHANGED <<done, http_token>>
  BY <1>1 DEF LoginPending, Logins
<1>2. CASE /\ done # <<>> /\ done' = Tail(done) /\ http_token' = http_token
           /\ Head(done).call.kind # "login" \/ Head(done).call.by = Listener
  <2>0. Head(done).call.kind # "login"
    BY <1>2, HeadIsNoLogin
  <2>1. /\ 1 \in DOMAIN done /\ Head(done) = done[1]
        /\ \A k \in DOMAIN done : k # 1 => /\ k \in Nat /\ k - 1 \in DOMAIN done'
                                           /\ done'[k - 1] = done[k]
    BY <1>2, ResultRemoved
  <2>2. CASE LoginPending(d)
    <3>1. PICK k \in Logins : done[k].call.udid = d
      BY <2>2 DEF LoginPending
    <3>2. k # 1
      BY <2>0, <2>1 DEF Logins
    <3>3. k - 1 \in DOMAIN done' /\ done'[k - 1] = done[k]
      BY <2>1, <3>2 DEF Logins
    <3> QED
      BY <3>1, <3>3 DEF LoginPending, Logins
  <2> QED
    BY <1>2, <2>2
<1>3. CASE RunJob
  <2>1. PICK r \in Result :
           /\ done' = Append(done, r)
           /\ \/ r.call.kind # "login" /\ http_token' = http_token
              \/ /\ r.call.kind = "login"
                 /\ http_token' = [http_token EXCEPT ![r.call.udid] = r.token]
    BY <1>3, RunJobEffect
  <2>2. /\ \A k \in DOMAIN done : k \in DOMAIN done' /\ done'[k] = done[k]
        /\ Len(done) + 1 \in DOMAIN done' /\ done'[Len(done) + 1] = r
    BY <2>1, ResultAdded
  <2>3. http_token \in [Devices -> Nat]
    BY DEF IInv, TypeOK
  <2>4. CASE LoginPending(d)
    BY <2>2, <2>4 DEF LoginPending, Logins
  <2>5. CASE r.call.kind = "login" /\ r.call.udid = d
    BY <2>2, <2>5 DEF LoginPending, Logins
  <2>6. CASE t = http_token[d] /\ ~(r.call.kind = "login" /\ r.call.udid = d)
    BY <2>1, <2>3, <2>6
  <2> QED
    BY <2>4, <2>5, <2>6
<1> QED
  BY <1>1, <1>2, <1>3, QueueSteps

\* No step leaves a registered connection with an outdated token and no login to come.
LEMMA TokenStep == IInv /\ [Next]_vars => RegisteredHoldsValidToken'
<1> SUFFICES ASSUME IInv, [Next]_vars, NEW d \in DOMAIN CLIENTS'
             PROVE  given'[CLIENTS'[d]][d] = http_token'[d] \/ LoginPending(d)'
  BY DEF RegisteredHoldsValidToken, LoginPending, Logins
<1> DEFINE Goal == given'[CLIENTS'[d]][d] = http_token'[d] \/ LoginPending(d)'
<1>i. \A x \in DOMAIN CLIENTS : /\ x \in Devices
                                /\ CLIENTS[x] \in Conns
                                /\ given[CLIENTS[x]][x] \in Nat
                                /\ \/ given[CLIENTS[x]][x] = http_token[x]
                                   \/ LoginPending(x)
  BY DEF IInv, TypeOK, RegisteredHoldsValidToken, LoginPending, Logins
<1>1. ASSUME NEW c \in Conns, ResumeLogin(c) PROVE Goal
  <2> DEFINE u == Head(done).call.udid
  <2>1. Registers(c, u)
    BY <1>1, LoginEffect
  <2>2. /\ done # <<>> /\ done' = Tail(done)
        /\ Head(done).call.kind = "login"
        /\ http_token' = http_token
    BY <1>1 DEF ResumeLogin, Resumed, database
  <2>3. /\ 1 \in DOMAIN done /\ Head(done) = done[1]
        /\ \A k \in DOMAIN done : k # 1 => /\ k \in Nat /\ k - 1 \in DOMAIN done'
                                           /\ done'[k - 1] = done[k]
    BY <2>2, ResultRemoved
  <2>u. u = done[1].call.udid
    BY <2>3
  <2> HIDE DEF u
  <2>4. CASE d = u
    <3>1. given'[CLIENTS'[d]][d] = done[1].token
      BY <2>1, <2>3, <2>4 DEF Registers
    <3>2. \/ done[1].token = http_token[d]
          \/ \E j \in DOMAIN done : /\ j > 1
                                    /\ done[j].call.kind = "login"
                                    /\ done[j].call.udid = d
      BY <2>2, <2>3, <2>4, <2>u DEF IInv, LastLoginIsValid
    <3>3. ASSUME NEW j \in DOMAIN done, j > 1, done[j].call.kind = "login",
                 done[j].call.udid = d
          PROVE  LoginPending(d)'
      <4>1. j - 1 \in DOMAIN done' /\ done'[j - 1] = done[j]
        BY <2>3, <3>3
      <4> QED
        BY <2>2, <3>3, <4>1 DEF LoginPending, Logins
    <3> QED
      BY <2>2, <3>1, <3>2, <3>3
  <2>5. CASE d # u
    <3>1. d \in DOMAIN CLIENTS /\ given'[CLIENTS'[d]][d] = given[CLIENTS[d]][d]
      BY <2>1, <2>5, OtherEntries
    <3>3. CASE LoginPending(d)
      <4>1. PICK k \in Logins : done[k].call.udid = d
        BY <3>3 DEF LoginPending
      <4>2. k # 1
        BY <2>5, <2>u, <4>1
      <4>3. k - 1 \in DOMAIN done' /\ done'[k - 1] = done[k]
        BY <2>3, <4>2 DEF Logins
      <4> QED
        BY <4>1, <4>3 DEF LoginPending, Logins
    <3> QED
      BY <1>i, <2>2, <3>1, <3>3
  <2> QED
    BY <2>4, <2>5
<1>2. CASE Restart
  BY <1>2 DEF Restart
<1>3. CASE ~Restart /\ \A c \in Conns : ~ResumeLogin(c)
  <2>1. d \in DOMAIN CLIENTS /\ CLIENTS'[d] = CLIENTS[d] /\ given' = given
    <3>1. ASSUME NEW c \in Conns, Ended(c), given' = given
          PROVE  d \in DOMAIN CLIENTS /\ CLIENTS'[d] = CLIENTS[d]
      BY <3>1, UnregisterEffect DEF Ended
    <3> QED
      BY <1>3, <3>1, RegistrySteps DEF LinkMoves
  <2> QED
    BY <1>i, <1>3, <2>1, ValidOrPending
<1> QED
  BY <1>1, <1>2, <1>3

-----------------------------------------------------------------------------
(* The listener.                                                           *)

\* A token that was given is never taken back, whatever the step.
LEMMA GivenStays ==
    ASSUME IInv, [Next]_vars, NEW c \in Conns, NEW d \in Devices, given[c][d] # 0
    PROVE  given'[c][d] # 0
<1>1. ASSUME NEW e \in Conns, ResumeLogin(e) PROVE given'[c][d] # 0
  <2>1. Registers(e, Head(done).call.udid)
    BY <1>1, LoginEffect
  <2>2. done # <<>> /\ done' = Tail(done) /\ Head(done).call.kind = "login"
    BY <1>1 DEF ResumeLogin, Resumed
  <2>3. 1 \in DOMAIN done /\ Head(done) = done[1]
    BY <2>2, ResultRemoved
  <2>4. Head(done).token # 0
    BY <2>2, <2>3 DEF IInv, RegisteredWasGiven
  <2>5. CASE c = e
    BY <2>1, <2>4, <2>5 DEF Registers
  <2>6. CASE c # e
    BY <2>1, <2>6 DEF Registers
  <2> QED
    BY <2>5, <2>6
<1>2. CASE Restart
  BY <1>2 DEF Restart
<1> QED
  BY <1>1, <1>2, RegistrySteps DEF LinkMoves

\* What a step does to the listener and to the pushes.
LEMMA ListenerSteps ==
    ASSUME [Next]_vars
    PROVE  \/ UNCHANGED <<lphase, ldev, lwriter, pushed>>
           \/ TakeRegistered \/ ResumeBuild
           \/ ResumeLookup
           \/ ~AtWork' /\ pushed' = pushed
<1> USE DEF network, coroutines, registry, database, listener, bounds
<1>1. ASSUME NEW c \in Conns,
             \/ ReadDirect(c) \/ ReadBroken(c) \/ ReadPacket(c) \/ Disconnected(c)
             \/ ResumeLogin(c) \/ ResumeReport(c) \/ ResumeRaise(c) \/ Drained(c)
      PROVE  UNCHANGED <<lphase, ldev, lwriter, pushed>>
  BY <1>1 DEF ReadDirect, ReadBroken, ReadPacket, Disconnected, ResumeLogin,
              ResumeReport, ResumeRaise, Drained
<1>2. CASE RunJob \/ TakeUnregistered
  BY <1>2 DEF RunJob, TakeUnregistered
<1>3. CASE ResumeNothing \/ Restart \/ Subscribe \/ ListenerDrained
  BY <1>3 DEF ResumeNothing, Restart, Subscribe, ListenerDrained, AtWork
<1>4. ASSUME NEW c \in Conns, NetworkStep(c)
      PROVE  UNCHANGED <<lphase, ldev, lwriter, pushed>>
  BY <1>4 DEF NetworkStep, Connect, Stall, Recover, Lose
<1>5. ASSUME NEW c \in Conns, NEW k \in Packets, Send(c, k)
      PROVE  UNCHANGED <<lphase, ldev, lwriter, pushed>>
  BY <1>5 DEF Send
<1>7. ASSUME NEW d \in Devices, Publish(d)
      PROVE  UNCHANGED <<lphase, ldev, lwriter, pushed>>
  BY <1>7 DEF Publish
<1>8. CASE UNCHANGED vars
  BY <1>8 DEF vars
<1>9. CASE Server
  BY <1>1, <1>2, <1>3, <1>9 DEF Server
<1>10. CASE Environment
  BY <1>1, <1>3, <1>4, <1>5, <1>7, <1>10 DEF Environment, NetworkStep
<1> QED
  BY <1>8, <1>9, <1>10 DEF Next

\* The writer redis_listener keeps stays one that was told a token of the watch.
LEMMA ListenerStep == IInv /\ [Next]_vars => ListenerHoldsWriter'
<1> SUFFICES ASSUME IInv, [Next]_vars, AtWork'
             PROVE  /\ ldev' \in Devices /\ lwriter' \in Conns
                    /\ given'[lwriter'][ldev'] # 0
  BY DEF ListenerHoldsWriter
<1>1. CASE UNCHANGED <<lphase, ldev, lwriter>>
  <2>1. AtWork
    BY <1>1 DEF AtWork
  <2>2. ldev \in Devices /\ lwriter \in Conns /\ given[lwriter][ldev] # 0
    BY <2>1 DEF IInv, ListenerHoldsWriter
  <2> QED
    BY <1>1, <2>2, GivenStays
<1>2. CASE TakeRegistered
  <2> DEFINE d == Head(channel)
  <2>1. /\ d \in DOMAIN CLIENTS /\ ldev' = d /\ lwriter' = CLIENTS[d]
    BY <1>2 DEF TakeRegistered
  <2>2. d \in Devices /\ CLIENTS[d] \in Conns /\ given[CLIENTS[d]][d] # 0
    BY <2>1 DEF IInv, TypeOK, RegisteredWasGiven
  <2> HIDE DEF d
  <2> QED
    BY <2>1, <2>2, GivenStays
<1>3. CASE ResumeLookup \/ (ResumeBuild /\ UNCHANGED <<ldev, lwriter>>)
  <2>1. Resumed(Listener) /\ UNCHANGED <<ldev, lwriter>>
    BY <1>3 DEF ResumeLookup, ResumeBuild
  <2>2. ldev \in Devices /\ lwriter \in Conns /\ given[lwriter][ldev] # 0
    BY <2>1, ListenerAtWork
  <2> QED
    BY <2>1, <2>2, GivenStays
<1>4. CASE ResumeBuild /\ ~UNCHANGED <<ldev, lwriter>>
  BY <1>4 DEF ResumeBuild, AtWork
<1> QED
  BY <1>1, <1>2, <1>3, <1>4, ListenerSteps

\* No step pushes to a connection that was not told a token of the watch.
LEMMA PushStep == IInv /\ [Next]_vars => PushAfterLoginReply'
<1> SUFFICES ASSUME IInv, [Next]_vars, NEW p \in pushed'
             PROVE  given'[p.conn][p.dev] # 0
  BY DEF PushAfterLoginReply
<1>1. CASE p \in pushed
  <2>1. p.conn \in Conns /\ p.dev \in Devices /\ given[p.conn][p.dev] # 0
    BY <1>1 DEF IInv, TypeOK, PushAfterLoginReply
  <2> QED
    BY <2>1, GivenStays
<1>2. CASE p \notin pushed
  <2>1. ResumeBuild
    BY <1>2, ListenerSteps DEF TakeRegistered, ResumeLookup
  <2>2. p = [dev |-> ldev, conn |-> lwriter]
    BY <1>2, <2>1 DEF ResumeBuild
  <2>3. ldev \in Devices /\ lwriter \in Conns /\ given[lwriter][ldev] # 0
    BY <2>1, ListenerAtWork DEF ResumeBuild
  <2> QED
    BY <2>2, <2>3, GivenStays
<1> QED
  BY <1>1, <1>2

-----------------------------------------------------------------------------
(* The theorems.                                                           *)

\* The server starts in states of the inductive invariant.
LEMMA InitInv == Init => IInv
<1> SUFFICES ASSUME Init PROVE IInv
  OBVIOUS
<1>1. TypeOK
  BY InitType
<1>2. /\ jobs = <<>> /\ done = <<>> /\ pushed = {} /\ lphase = "start"
      /\ DOMAIN CLIENTS = {}
      /\ \A c \in Conns : /\ link[c] = "new" /\ phase[c] = "reading"
                          /\ device_instance[c] = None
  BY DEF Init
<1>3. OneCallEach /\ LastLoginIsValid
  BY <1>2 DEF OneCallEach, LastLoginIsValid
<1>4. WaitsAlive
  BY <1>2 DEF WaitsAlive
<1>5. ListenerHoldsWriter /\ PushAfterLoginReply
  BY <1>2 DEF ListenerHoldsWriter, AtWork, PushAfterLoginReply
<1>6. RegisteredWasGiven /\ RegistrationSound /\ RegisteredHoldsValidToken
  BY <1>2 DEF RegisteredWasGiven, RegistrationSound, RegisteredHoldsValidToken
<1>7. RegisteredUnlessOverlapped
  BY <1>2 DEF RegisteredUnlessOverlapped, InSession, Live
<1> QED
  BY <1>1, <1>3, <1>4, <1>5, <1>6, <1>7 DEF IInv

\* The inductive invariant holds in every reachable state.
THEOREM Inductive == Spec => []IInv
<1>1. Init => IInv
  BY InitInv
<1>2. IInv /\ [Next]_vars => IInv'
  BY TypeStep, CallsStep, WaitsStep, GivenStep, ListenerStep, LastLoginStep,
     RegistrationStep, PushStep, TokenStep, OverlapStep DEF IInv
<1> QED
  BY <1>1, <1>2, PTL DEF Spec

\* Every variable of the TCP server keeps its type.
THEOREM TypeCorrect == Spec => []TypeOK
<1>1. IInv => TypeOK
  BY DEF IInv
<1> QED
  BY <1>1, Inductive, PTL

\* Whatever udids the logins name, a registered writer belongs to a handle_client
\* that has not ended and that serves this very watch, or to one that has left the
\* watch by logging in as another.
THEOREM Registered == Spec => []RegistrationSound
<1>1. IInv => RegistrationSound
  BY DEF IInv
<1> QED
  BY <1>1, Inductive, PTL

\* The registered connection of a watch was handed the token the HTTP API accepts,
\* unless a newer login of the watch is about to be registered.
THEOREM TokenOfRegistered == Spec => []RegisteredHoldsValidToken
<1>1. IInv => RegisteredHoldsValidToken
  BY DEF IInv
<1> QED
  BY <1>1, Inductive, PTL

\* A watch as which no connection logs in beside an unfinished session of it is
\* always registered while it is in session.
THEOREM RegisteredAlone == Spec => []RegisteredUnlessOverlapped
<1>1. IInv => RegisteredUnlessOverlapped
  BY DEF IInv
<1> QED
  BY <1>1, Inductive, PTL

\* A push reaches only connections that have logged in as the watch it is meant
\* for, and never before the reply to that login.
THEOREM PushedAfterLogin == Spec => []PushAfterLoginReply
<1>1. IInv => PushAfterLoginReply
  BY DEF IInv
<1> QED
  BY <1>1, Inductive, PTL

-----------------------------------------------------------------------------
(* Nobody waits for a call that is gone.                                   *)

Called(x) == Calls(x) # {} \/ Results(x) # {}

\* Each coroutine that waits has a call; OneCallEach says that it has no other.
WaitersCall == \A x \in Waiters : Called(x)

\* A call that is added is its coroutine's, and takes none from the others.
LEMMA AddedCalls ==
    ASSUME TypeOK, NEW j \in Job, jobs' = Append(jobs, j)
    PROVE  /\ \E i \in DOMAIN jobs' : jobs'[i].by = j.by
           /\ \A x : Calls(x) # {} => \E i \in DOMAIN jobs' : jobs'[i].by = x
<1>1. jobs \in Seq(Job)
  BY DEF TypeOK
<1>2. /\ Len(jobs) + 1 \in DOMAIN jobs' /\ jobs'[Len(jobs) + 1] = j
      /\ \A i \in DOMAIN jobs : i \in DOMAIN jobs' /\ jobs'[i] = jobs[i]
  BY <1>1, AppendFacts
<1> QED
  BY <1>2 DEF Calls

\* The result at the head is that of its coroutine alone.
LEMMA TakenResult ==
    ASSUME TypeOK, done # <<>>, done' = Tail(done)
    PROVE  \A x : x # Head(done).call.by /\ Results(x) # {} =>
                      \E i \in DOMAIN done' : done'[i].call.by = x
<1>1. done \in Seq(Result)
  BY DEF TypeOK
<1>2. /\ Head(done) = done[1]
      /\ \A i \in DOMAIN done \ {1} : i - 1 \in DOMAIN done' /\ done'[i - 1] = done[i]
  BY <1>1, TailFacts
<1> SUFFICES ASSUME NEW x, x # Head(done).call.by, NEW i \in DOMAIN done, done[i].call.by = x
             PROVE  \E k \in DOMAIN done' : done'[k].call.by = x
  BY DEF Results
<1>3. i \in DOMAIN done \ {1}
  BY <1>2
<1> QED
  BY <1>2, <1>3

\* A call that was run is a result of the same coroutine.
LEMMA RunCalls ==
    ASSUME TypeOK, jobs # <<>>, NEW r \in Result, r.call.by = Head(jobs).by,
           jobs' = Tail(jobs), done' = Append(done, r)
    PROVE  \A x : Called(x) => \/ \E i \in DOMAIN jobs' : jobs'[i].by = x
                              \/ \E i \in DOMAIN done' : done'[i].call.by = x
<1>1. jobs \in Seq(Job) /\ done \in Seq(Result)
  BY DEF TypeOK
<1>2. /\ Head(jobs) = jobs[1]
      /\ \A i \in DOMAIN jobs \ {1} : i - 1 \in DOMAIN jobs' /\ jobs'[i - 1] = jobs[i]
  BY <1>1, TailFacts
<1>3. /\ Len(done) + 1 \in DOMAIN done' /\ done'[Len(done) + 1] = r
      /\ \A i \in DOMAIN done : i \in DOMAIN done' /\ done'[i] = done[i]
  BY <1>1, AppendFacts
<1>4. ASSUME NEW x, NEW i \in DOMAIN jobs, jobs[i].by = x
      PROVE  \/ \E k \in DOMAIN jobs' : jobs'[k].by = x
             \/ \E k \in DOMAIN done' : done'[k].call.by = x
  <2>1. CASE i = 1
    BY <1>2, <1>3, <1>4, <2>1
  <2>2. CASE i # 1
    BY <1>2, <1>4, <2>2
  <2> QED
    BY <2>1, <2>2
<1>5. ASSUME NEW x, NEW i \in DOMAIN done, done[i].call.by = x
      PROVE  \E k \in DOMAIN done' : done'[k].call.by = x
  BY <1>3, <1>5
<1> QED
  BY <1>4, <1>5 DEF Called, Calls, Results

\* No step takes the call of a coroutine that goes on waiting.
LEMMA WaitersStep == IInv /\ WaitersCall /\ [Next]_vars => WaitersCall'
<1> SUFFICES ASSUME IInv, WaitersCall, [Next]_vars PROVE WaitersCall'
  OBVIOUS
<1> USE DEF network, coroutines, registry, database, listener, bounds
<1>t. TypeOK
  BY DEF IInv
<1>q. jobs' = jobs /\ done' = done /\ Waiters' = Waiters => WaitersCall'
  BY DEF WaitersCall, Called, Calls, Results
<1>c. ASSUME NEW c \in Conns,
             \/ ReadDirect(c) \/ ReadBroken(c) \/ ReadPacket(c) \/ Disconnected(c)
             \/ ResumeLogin(c) \/ ResumeReport(c) \/ ResumeRaise(c) \/ Drained(c)
      PROVE  WaitersCall'
  <2>1. CASE ReadPacket(c)
    <3> DEFINE j == Call(c, inbox[c].kind, inbox[c].udid)
    <3>1. j \in Job /\ j.by = c
      BY <2>1 DEF ReadPacket, Call, Job, Awaited, LoginPackets, OtherPackets
    <3>2. jobs' = Append(jobs, j) /\ done' = done
      BY <2>1 DEF ReadPacket
    <3>3. Waiters' = Waiters \cup {c}
      BY <1>t, <2>1 DEF ReadPacket, Waiters, TypeOK
    <3> HIDE DEF j
    <3>4. /\ \E i \in DOMAIN jobs' : jobs'[i].by = j.by
          /\ \A x : Calls(x) # {} => \E i \in DOMAIN jobs' : jobs'[i].by = x
      BY <1>t, <3>1, <3>2, AddedCalls
    <3> QED
      BY <3>1, <3>2, <3>3, <3>4 DEF WaitersCall, Called, Calls, Results
  <2>2. CASE ReadDirect(c) \/ ReadBroken(c) \/ Disconnected(c) \/ Drained(c)
    <3>1. Waiters' = Waiters
      <4>1. phase[c] # "waiting" /\ phase'[c] # "waiting"
        BY <1>t, <2>2 DEF ReadDirect, ReadBroken, Disconnected, Drained, Ended,
                          AfterWrite, TypeOK
      <4>2. lphase' = lphase /\ \A e \in Conns : e # c => phase'[e] = phase[e]
        BY <1>t, <2>2 DEF ReadDirect, ReadBroken, Disconnected, Drained, Ended, TypeOK
      <4> QED
        BY <4>1, <4>2 DEF Waiters
    <3> QED
      BY <1>q, <2>2, <3>1 DEF ReadDirect, ReadBroken, Disconnected, Drained
  <2>3. CASE ResumeLogin(c) \/ ResumeReport(c) \/ ResumeRaise(c)
    <3>1. Resumed(c) /\ jobs' = jobs /\ lphase' = lphase
      BY <2>3 DEF ResumeLogin, ResumeReport, ResumeRaise
    <3>2. Waiters' = Waiters \ {c}
      <4>1. phase'[c] # "waiting" /\ \A e \in Conns : e # c => phase'[e] = phase[e]
        BY <1>t, <2>3 DEF ResumeLogin, ResumeReport, ResumeRaise, Ended, AfterWrite, TypeOK
      <4> QED
        BY <3>1, <4>1, SessionsAssumption DEF Waiters
    <3>3. \A x : x # c /\ Results(x) # {} => \E i \in DOMAIN done' : done'[i].call.by = x
      BY <1>t, <3>1, TakenResult DEF Resumed
    <3> QED
      BY <3>1, <3>2, <3>3 DEF WaitersCall, Called, Calls, Results
  <2> QED
    BY <1>c, <2>1, <2>2, <2>3
<1>d. CASE RunJob
  <2>1. jobs # <<>> /\ jobs' = Tail(jobs) /\ Waiters' = Waiters
    BY <1>d DEF RunJob, Waiters
  <2>2. Head(jobs) \in Job
    BY <1>t, <2>1, TailFacts DEF TypeOK
  <2>3. PICK t \in Nat : Finish(Head(jobs), t)
    <3>1. minted + 1 \in Nat
      BY <1>t DEF TypeOK
    <3>2. Finish(Head(jobs), minted + 1) \/ Finish(Head(jobs), 0)
      BY <1>d DEF RunJob, RunLogin, RunOther
    <3> QED
      BY <3>1, <3>2
  <2> DEFINE r == [call |-> Head(jobs), token |-> t]
  <2>4. r \in Result /\ r.call.by = Head(jobs).by
    BY <2>2 DEF Result
  <2>5. done' = Append(done, r)
    BY <2>3 DEF Finish
  <2> HIDE DEF r
  <2>6. \A x : Called(x) => \/ \E i \in DOMAIN jobs' : jobs'[i].by = x
                           \/ \E i \in DOMAIN done' : done'[i].call.by = x
    BY <1>t, <2>1, <2>4, <2>5, RunCalls
  <2> QED
    BY <2>1, <2>6 DEF WaitersCall, Called, Calls, Results
<1>l. ASSUME \/ TakeRegistered \/ TakeUnregistered \/ Subscribe
             \/ ResumeLookup \/ ResumeBuild \/ ResumeNothing \/ ListenerDrained
      PROVE  WaitersCall'
  <2>1. CASE TakeRegistered \/ ResumeLookup
    <3>1. PICK j \in Job : j.by = Listener /\ jobs' = Append(jobs, j)
      <4>1. \A k \in ListenerKinds : Call(Listener, k, None) \in Job
        BY DEF Call, Job
      <4> QED
        BY <2>1, <4>1 DEF TakeRegistered, ResumeLookup, Call, ListenerKinds
    <3>3. Waiters' = Waiters \cup {Listener}
      BY <2>1 DEF TakeRegistered, ResumeLookup, Waiters, ListenerKinds
    <3>4. \/ done' = done
          \/ done # <<>> /\ Head(done).call.by = Listener /\ done' = Tail(done)
      BY <2>1 DEF TakeRegistered, ResumeLookup, Resumed
    <3>5. \A x : x # Listener /\ Results(x) # {} => \E i \in DOMAIN done' : done'[i].call.by = x
      BY <1>t, <3>4, TakenResult DEF Results
    <3>6. /\ \E i \in DOMAIN jobs' : jobs'[i].by = j.by
          /\ \A x : Calls(x) # {} => \E i \in DOMAIN jobs' : jobs'[i].by = x
      BY <1>t, <3>1, AddedCalls
    <3> QED
      BY <3>1, <3>3, <3>5, <3>6 DEF WaitersCall, Called, Calls, Results
  <2>2. CASE TakeUnregistered
    BY <1>q, <2>2 DEF TakeUnregistered, Waiters
  <2>4. CASE ResumeBuild \/ ResumeNothing
    <3>1. /\ done # <<>> /\ Head(done).call.by = Listener /\ done' = Tail(done)
          /\ jobs' = jobs /\ phase' = phase /\ lphase' \notin ListenerKinds
      BY <2>4 DEF ResumeBuild, ResumeNothing, Resumed, ListenerKinds
    <3>2. Waiters' = Waiters \ {Listener}
      BY <3>1, SessionsAssumption DEF Waiters
    <3>3. \A x : x # Listener /\ Results(x) # {} => \E i \in DOMAIN done' : done'[i].call.by = x
      BY <1>t, <3>1, TakenResult
    <3> QED
      BY <3>1, <3>2, <3>3 DEF WaitersCall, Called, Calls, Results
  <2>5. CASE Subscribe \/ ListenerDrained
    BY <1>q, <2>5 DEF Subscribe, ListenerDrained, Waiters, ListenerKinds
  <2> QED
    BY <1>l, <2>1, <2>2, <2>4, <2>5
<1>e. CASE Environment
  <2>1. ASSUME NEW c \in Conns, NetworkStep(c) PROVE WaitersCall'
    BY <1>q, <2>1 DEF NetworkStep, Connect, Stall, Recover, Lose, Waiters
  <2>2. ASSUME NEW c \in Conns, NEW k \in Packets, Send(c, k) PROVE WaitersCall'
    BY <1>q, <2>2 DEF Send, Waiters
  <2>4. ASSUME NEW d \in Devices, Publish(d) PROVE WaitersCall'
    BY <1>q, <2>4 DEF Publish, Waiters
  <2>5. CASE Restart
    <3>1. Waiters' = {}
      BY <2>5 DEF Restart, Waiters, ListenerKinds
    <3> QED
      BY <3>1 DEF WaitersCall
  <2> QED
    BY <1>c, <1>e, <2>1, <2>2, <2>4, <2>5 DEF Environment, NetworkStep
<1>u. CASE UNCHANGED vars
  BY <1>q, <1>u DEF vars, Waiters
<1> QED
  BY <1>c, <1>d, <1>l, <1>e, <1>u DEF Next, Server

\* One call under way for each that waits, none for the others, as numbers.
LEMMA CountedCalls == IInv /\ WaitersCall => AwaitsOneCall
<1> SUFFICES ASSUME IInv, WaitersCall, NEW x \in Conns \cup {Listener}
             PROVE  Cardinality(Calls(x)) + Cardinality(Results(x))
                      = IF x \in Waiters THEN 1 ELSE 0
  BY DEF AwaitsOneCall
<1>1. Cardinality({}) = 0 /\ \A i : Cardinality({i}) = 1
  BY FS_EmptySet, FS_Singleton
<1>2. \A i, k \in Calls(x) : i = k
  BY DEF IInv, OneCallEach, Calls
<1>3. \A i, k \in Results(x) : i = k
  BY DEF IInv, OneCallEach, Results
<1>4. Calls(x) = {} \/ Results(x) = {}
  BY DEF IInv, OneCallEach, Calls, Results
<1>5. x \notin Waiters => Calls(x) = {} /\ Results(x) = {}
  BY DEF IInv, OneCallEach, Calls, Results
<1>6. x \in Waiters => Calls(x) # {} \/ Results(x) # {}
  BY DEF WaitersCall, Called
<1>7. Calls(x) # {} => Cardinality(Calls(x)) = 1
  <2> SUFFICES ASSUME NEW i \in Calls(x) PROVE Cardinality(Calls(x)) = 1
    OBVIOUS
  <2>1. Calls(x) = {i}
    BY <1>2
  <2> QED
    BY <1>1, <2>1
<1>8. Results(x) # {} => Cardinality(Results(x)) = 1
  <2> SUFFICES ASSUME NEW i \in Results(x) PROVE Cardinality(Results(x)) = 1
    OBVIOUS
  <2>1. Results(x) = {i}
    BY <1>3
  <2> QED
    BY <1>1, <2>1
<1> QED
  BY <1>1, <1>4, <1>5, <1>6, <1>7, <1>8

\* A coroutine that waits has exactly one call queued or finished, one that does not
\* has none: no result is lost, and none comes back to one that has moved on.
THEOREM OneCallAwaited == Spec => []AwaitsOneCall
<1>1. Init => WaitersCall
  BY DEF Init, WaitersCall, Waiters, ListenerKinds
<1>2. Spec => []WaitersCall
  BY <1>1, WaitersStep, Inductive, PTL DEF Spec
<1> QED
  BY <1>2, CountedCalls, Inductive, PTL
=============================================================================
