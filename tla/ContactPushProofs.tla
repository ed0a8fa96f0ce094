------------------------- MODULE ContactPushProofs -------------------------
(***************************************************************************)
(* Proofs about ContactPush, for every set of watches and all bounds.  The *)
(* argument for NothingForgotten is order: a list that lacks a contact was *)
(* read before the contact was inserted, so the push of that contact is    *)
(* behind the list wherever both are: among the results, and on the wire.  *)
(***************************************************************************)
EXTENDS ContactPush, SequenceTheorems, TLAPS

Job == [kind: {"lookup", "build", "sync"}, watch: Watches, person: SUBSET Contacts, conn: Nat,
        raised: BOOLEAN]
Packet == [type: {"add", "all"}, person: SUBSET Contacts]
Listener == [at: {"start", "get", "lookup", "build", "drain", "sleep", "dead"},
             note: Note \cup {None}, conn: Nat]

Calling == listener.at \in {"lookup", "build"}

Announced == unannounced \cup ToSet(channel)
Held == {listener.note} \ {None}
InHand == {n \in Held : Calling}

\* Contacts whose push is still to be queued, or will not be, ...
Coming == ContactsOf(Announced) \cup missed
\* ... and those whose push is not written yet.
Due == Coming \cup ContactsOf(InHand)

-----------------------------------------------------------------------------
(* The inductive invariant.                                                *)

Typed ==
    /\ book \in [Contacts -> Watches \cup {None}] /\ deleted \in [Contacts -> Watches \cup {None}]
    /\ unannounced \subseteq Note /\ used \in 0 .. MaxContacts
    /\ redis \in BOOLEAN /\ subscribed \in BOOLEAN /\ blind \in BOOLEAN
    /\ channel \in Seq(Note)
    /\ listener \in Listener
    /\ peer \in [Watches -> {"none", "reading", "stalled", "gone"}]
    /\ conn \in [Watches -> Nat]
    /\ wire \in [Watches -> Seq(Packet)]
    /\ known \in [Watches -> SUBSET Contacts]
    /\ jobs \in Seq(Job) /\ done \in Seq(Job)
    /\ missed \subseteq 1 .. used

OneCall ==
    /\ listener.note = None <=> listener.at \in {"start", "get", "sleep", "dead"}
    /\ IF Calling
       THEN (Awaits(jobs) /\ Idle(done)) \/ (Idle(jobs) /\ Awaits(done))
       ELSE Idle(jobs) /\ Idle(done)

\* A list that was read, of the contacts of a watch.
Listed(r) == r.kind = "sync" /\ ~r.raised

\* A build that has found its contact gone.
Vain(r) == r.kind = "build" /\ ~r.raised /\ r.person = {}

\* A call of the listener is about the notification in its hand.
CallOf(j) == j.kind # "sync" => j.kind = listener.at /\ j.watch = listener.note.watch

Calls ==
    /\ \A i \in DOMAIN jobs : CallOf(jobs[i])
    /\ \A i \in DOMAIN done : CallOf(done[i])
    /\ \A i \in DOMAIN jobs :
          jobs[i].kind = "build" => jobs[i].person = {listener.note.contact}
    /\ \A i \in DOMAIN done :
          Vain(done[i]) =>
              book[listener.note.contact] # listener.note.watch \/ listener.note.contact \in Coming

\* What is announced was inserted for that watch, and may be deleted since.
Noted ==
    /\ \A n \in Announced \cup Held :
          n.contact <= used /\ book[n.contact] \in {n.watch, None} /\ deleted[n.contact] \in {n.watch, None}
    /\ \A k \in Contacts : book[k] # None \/ deleted[k] # None => k <= used

\* A list among the results lacks only contacts whose push comes after it.
Ordered ==
    \A i \in DOMAIN done, k \in Contacts :
        Listed(done[i]) /\ book[k] = done[i].watch /\ k \notin done[i].person =>
            \/ k \in Coming
            \/ k \in Due /\ \A j \in 1 .. i - 1 : done[j].kind # "build"

\* So does a list on the wire.
Behind(s, i, k) == \E j \in i + 1 .. Len(s) : s[j].type = "add" /\ k \in s[j].person

InLine ==
    \A w \in Watches : \A i \in DOMAIN wire[w], k \in Contacts :
        wire[w][i].type = "all" /\ book[k] = w /\ k \notin wire[w][i].person =>
            k \in Due \/ Behind(wire[w], i, k)

\* Only inserted contacts are pushed.
Added == \A w \in Watches : AddsIn(wire[w]) \subseteq 1 .. used

Kept == \A k \in Contacts : book[k] # None => k \in known[book[k]] \cup AddsIn(wire[book[k]]) \cup Due

Contents == Noted /\ Ordered /\ InLine /\ Added /\ Kept

IInv == Typed /\ OneCall /\ Calls /\ Contents

-----------------------------------------------------------------------------
(* Sequences.                                                              *)

LEMMA Appended ==
    ASSUME NEW S, NEW s \in Seq(S), NEW x \in S
    PROVE  /\ Append(s, x) \in Seq(S) /\ Len(Append(s, x)) = Len(s) + 1
           /\ DOMAIN Append(s, x) = 1 .. Len(s) + 1 /\ DOMAIN s = 1 .. Len(s) /\ Len(s) \in Nat
           /\ \A i \in 1 .. Len(s) : Append(s, x)[i] = s[i]
           /\ Append(s, x)[Len(s) + 1] = x
  BY AppendProperties

LEMMA Cut ==
    ASSUME NEW S, NEW s \in Seq(S), s # <<>>
    PROVE  /\ Tail(s) \in Seq(S) /\ Len(s) \in Nat /\ Len(s) >= 1 /\ Len(Tail(s)) = Len(s) - 1
           /\ DOMAIN Tail(s) = 1 .. Len(s) - 1 /\ DOMAIN s = 1 .. Len(s)
           /\ \A i \in 1 .. Len(s) - 1 : Tail(s)[i] = s[i + 1]
           /\ Head(s) = s[1] /\ Head(s) \in S
  OBVIOUS

\* A call that is queued, and one that leaves the front of its queue.
LEMMA Queue ==
    ASSUME NEW s \in Seq(Job), NEW j \in Job
    PROVE  /\ j.kind = "sync" => /\ Idle(s) => Idle(Append(s, j))
                                 /\ Awaits(s) => Awaits(Append(s, j))
           /\ j.kind # "sync" /\ Idle(s) => Awaits(Append(s, j))
  <1> DEFINE t == Append(s, j)
  <1>1. /\ DOMAIN t = 1 .. Len(s) + 1 /\ DOMAIN s = 1 .. Len(s) /\ Len(s) \in Nat
        /\ \A i \in 1 .. Len(s) : t[i] = s[i]
        /\ t[Len(s) + 1] = j
    BY Appended
  <1> HIDE DEF t
  <1>2. j.kind = "sync" => OfListener(t) = OfListener(s)
    BY <1>1 DEF OfListener
  <1>3. j.kind # "sync" /\ OfListener(s) = {} => OfListener(t) = {Len(s) + 1}
    BY <1>1 DEF OfListener
  <1>4. \A i \in DOMAIN s : i \in DOMAIN t
    BY <1>1
  <1>5. Len(s) + 1 \in DOMAIN t
    BY <1>1
  <1>6. j.kind = "sync" => (Idle(s) => Idle(t)) /\ (Awaits(s) => Awaits(t))
    BY <1>2, <1>4 DEF Idle, Awaits
  <1>7. j.kind # "sync" /\ Idle(s) => Awaits(t)
    BY <1>3, <1>5 DEF Idle, Awaits
  <1> QED BY <1>6, <1>7 DEF t

LEMMA Dequeue ==
    ASSUME NEW s \in Seq(Job), s # <<>>
    PROVE  /\ Head(s).kind = "sync" => /\ Idle(s) => Idle(Tail(s))
                                       /\ Awaits(s) => Awaits(Tail(s))
           /\ Head(s).kind # "sync" => ~Idle(s) /\ (Awaits(s) => Idle(Tail(s)))
  <1> DEFINE t == Tail(s)
  <1>1. /\ DOMAIN t = 1 .. Len(s) - 1 /\ DOMAIN s = 1 .. Len(s) /\ Len(s) \in Nat /\ Len(s) >= 1
        /\ \A i \in 1 .. Len(s) - 1 : t[i] = s[i + 1]
        /\ Head(s) = s[1]
    BY Cut
  <1> HIDE DEF t
  <1>2. \A i : i \in OfListener(t) <=> i \in 1 .. Len(s) - 1 /\ i + 1 \in OfListener(s)
    BY <1>1 DEF OfListener
  <1>3. 1 \in OfListener(s) <=> Head(s).kind # "sync"
    BY <1>1 DEF OfListener
  <1>4. Idle(s) => Idle(t)
    BY <1>2 DEF Idle
  <1>5. ASSUME Head(s).kind = "sync", Awaits(s) PROVE Awaits(t)
    <2>1. PICK i \in DOMAIN s : OfListener(s) = {i}
      BY <1>5 DEF Awaits
    <2>2. i # 1
      BY <2>1, <1>3, <1>5
    <2>3. i - 1 \in DOMAIN t
      BY <2>2, <1>1
    <2>4. OfListener(t) = {i - 1}
      BY <2>1, <2>2, <2>3, <1>1, <1>2
    <2> QED BY <2>3, <2>4 DEF Awaits
  <1>6. ASSUME Head(s).kind # "sync" PROVE ~Idle(s) /\ (Awaits(s) => Idle(t))
    <2>1. ~Idle(s)
      BY <1>3, <1>6 DEF Idle
    <2>2. ASSUME Awaits(s) PROVE Idle(t)
      <3>1. PICK i \in DOMAIN s : OfListener(s) = {i}
        BY <2>2 DEF Awaits
      <3>2. OfListener(s) = {1}
        BY <3>1, <1>3, <1>6
      <3>3. OfListener(t) \subseteq {}
        BY <3>2, <1>1, <1>2
      <3> QED BY <3>3 DEF Idle
    <2> QED BY <2>1, <2>2
  <1> QED BY <1>4, <1>5, <1>6 DEF t

\* What a packet adds to a connection and what reading one takes away.
LEMMA Written ==
    ASSUME NEW s \in Seq(Packet), NEW p \in Packet
    PROVE  AddsIn(Append(s, p)) = AddsIn(s) \cup (IF p.type = "add" THEN p.person ELSE {})
  <1> DEFINE t == Append(s, p)
  <1>1. /\ DOMAIN t = 1 .. Len(s) + 1 /\ DOMAIN s = 1 .. Len(s) /\ Len(s) \in Nat
        /\ \A i \in 1 .. Len(s) : t[i] = s[i]
        /\ t[Len(s) + 1] = p
    BY Appended
  <1> HIDE DEF t
  <1>2. \A k : k \in AddsIn(t) <=> \E i \in 1 .. Len(s) + 1 : t[i].type = "add" /\ k \in t[i].person
    BY <1>1 DEF AddsIn
  <1>3. \A k : k \in AddsIn(s) <=> \E i \in 1 .. Len(s) : s[i].type = "add" /\ k \in s[i].person
    BY <1>1 DEF AddsIn
  <1>4. \A k : k \in AddsIn(t) <=> k \in AddsIn(s) \/ (p.type = "add" /\ k \in p.person)
    BY <1>1, <1>2, <1>3
  <1>5. AddsIn(t) = AddsIn(s) \cup (IF p.type = "add" THEN p.person ELSE {})
    BY <1>4
  <1> QED BY <1>5 DEF t

LEMMA ReadOff ==
    ASSUME NEW s \in Seq(Packet), s # <<>>
    PROVE  /\ AddsIn(s) = AddsIn(Tail(s)) \cup (IF Head(s).type = "add" THEN Head(s).person ELSE {})
           /\ \A k : Behind(s, 1, k) => k \in AddsIn(Tail(s))
  <1> DEFINE t == Tail(s)
  <1>1. /\ DOMAIN t = 1 .. Len(s) - 1 /\ DOMAIN s = 1 .. Len(s) /\ Len(s) \in Nat /\ Len(s) >= 1
        /\ \A i \in 1 .. Len(s) - 1 : t[i] = s[i + 1]
        /\ Head(s) = s[1]
    BY Cut
  <1> HIDE DEF t
  <1>2. \A k : k \in AddsIn(s) <=> \E i \in 1 .. Len(s) : s[i].type = "add" /\ k \in s[i].person
    BY <1>1 DEF AddsIn
  <1>3. \A k : k \in AddsIn(t) <=> \E i \in 1 .. Len(s) - 1 : t[i].type = "add" /\ k \in t[i].person
    BY <1>1 DEF AddsIn
  <1>4. \A i \in 2 .. Len(s) : i - 1 \in 1 .. Len(s) - 1 /\ t[i - 1] = s[i]
    BY <1>1
  <1>5. \A k : Behind(s, 1, k) => k \in AddsIn(t)
    BY <1>1, <1>3, <1>4 DEF Behind
  <1>6. \A k : k \in AddsIn(t) => k \in AddsIn(s)
    BY <1>1, <1>2, <1>3
  <1>7. \A k : k \in AddsIn(s) <=> k \in AddsIn(t) \/ (Head(s).type = "add" /\ k \in Head(s).person)
    <2> TAKE k
    <2>1. ASSUME k \in AddsIn(s) PROVE k \in AddsIn(t) \/ (Head(s).type = "add" /\ k \in Head(s).person)
      <3>1. PICK i \in 1 .. Len(s) : s[i].type = "add" /\ k \in s[i].person
        BY <2>1, <1>2
      <3>2. CASE i = 1
        BY <3>1, <3>2, <1>1
      <3>3. CASE i # 1
        BY <3>1, <3>3, <1>1, <1>3, <1>4
      <3> QED BY <3>2, <3>3
    <2>2. Head(s).type = "add" /\ k \in Head(s).person => k \in AddsIn(s)
      BY <1>1, <1>2
    <2> QED BY <2>1, <2>2, <1>6
  <1>8. AddsIn(s) = AddsIn(t) \cup (IF Head(s).type = "add" THEN Head(s).person ELSE {})
    BY <1>7
  <1> QED BY <1>5, <1>8 DEF t

LEMMA Channelled ==
    ASSUME NEW s \in Seq(Note)
    PROVE  /\ \A n \in Note : ToSet(Append(s, n)) = ToSet(s) \cup {n}
           /\ s # <<>> => ToSet(s) = ToSet(Tail(s)) \cup {Head(s)}
           /\ ToSet(s) \subseteq Note
  <1>1. ASSUME NEW n \in Note PROVE ToSet(Append(s, n)) = ToSet(s) \cup {n}
    BY Appended DEF ToSet
  <1>2. ASSUME s # <<>> PROVE ToSet(s) = ToSet(Tail(s)) \cup {Head(s)}
    <2> DEFINE t == Tail(s)
    <2>1. /\ DOMAIN t = 1 .. Len(s) - 1 /\ DOMAIN s = 1 .. Len(s) /\ Len(s) \in Nat /\ Len(s) >= 1
          /\ \A i \in 1 .. Len(s) - 1 : t[i] = s[i + 1]
          /\ Head(s) = s[1]
      BY <1>2, Cut
    <2> HIDE DEF t
    <2>2. \A i \in 2 .. Len(s) : i - 1 \in 1 .. Len(s) - 1 /\ t[i - 1] = s[i]
      BY <2>1
    <2>3. \A x : x \in ToSet(s) => x \in ToSet(t) \cup {Head(s)}
      BY <2>1, <2>2 DEF ToSet
    <2>4. \A x : x \in ToSet(t) \cup {Head(s)} => x \in ToSet(s)
      <3>1. \A i \in 1 .. Len(s) - 1 : i + 1 \in 1 .. Len(s) /\ 1 \in 1 .. Len(s)
        BY <2>1
      <3>2. \A x : x \in ToSet(t) => x \in ToSet(s)
        BY <2>1, <3>1 DEF ToSet
      <3>3. Head(s) \in ToSet(s)
        BY <2>1 DEF ToSet
      <3> QED BY <3>2, <3>3
    <2>5. ToSet(s) = ToSet(t) \cup {Head(s)}
      BY <2>3, <2>4
    <2> QED BY <2>5 DEF t
  <1>3. ToSet(s) \subseteq Note
    BY DEF ToSet
  <1> QED BY <1>1, <1>2, <1>3

-----------------------------------------------------------------------------
(* A step that keeps the results, the wires and what the watches know, and *)
(* leaves every contact that is coming on its way or missed.               *)

LEMMA Frame ==
    ASSUME IInv,
           UNCHANGED <<used, done, wire, known>>,
           \/ UNCHANGED <<book, deleted>>
           \/ \A k \in Contacts : /\ \/ book'[k] \in {book[k], None}
                                     \/ book'[k] = deleted[k] /\ k \in missed'
                                  /\ deleted'[k] \in {deleted[k], book[k]},
           Announced' \cup Held' \subseteq Announced \cup Held,
           Coming \subseteq Coming', InHand' = InHand
    PROVE  Contents'
  <1>1. Due \subseteq Due'
    BY DEF Due
  <1>2. Typed /\ Noted /\ Ordered /\ InLine /\ Added /\ Kept
    BY DEF IInv, Contents
  <1>3. \A k \in Contacts, w \in Watches : book'[k] = w => book[k] = w \/ k \in Coming'
    BY PushAssumption DEF Coming
  <1>4. \A i \in DOMAIN done : done[i].watch \in Watches
    <2>1. done \in Seq(Job)
      BY <1>2 DEF Typed
    <2>2. \A i \in DOMAIN done : done[i] \in Job
      BY <2>1
    <2> QED BY <2>2 DEF Job
  <1>5. \A n \in Announced \cup Held : n \in Note
    BY <1>2, Channelled DEF Announced, Held, Typed, Listener
  <1>6. Noted'
    BY <1>2, <1>5 DEF Noted, Note
  <1>7. Ordered'
    BY <1>1, <1>2, <1>3, <1>4 DEF Ordered
  <1>8. InLine'
    <2> SUFFICES ASSUME NEW w \in Watches, NEW i \in DOMAIN wire[w], NEW k \in Contacts,
                        wire[w][i].type = "all", book'[k] = w, k \notin wire[w][i].person,
                        k \notin Due'
                 PROVE  Behind(wire[w], i, k)
      BY DEF InLine
    <2>1. book[k] = w /\ k \notin Due
      BY <1>1, <1>3 DEF Due
    <2> QED BY <1>2, <2>1 DEF InLine
  <1>9. Added'
    BY <1>2 DEF Added
  <1>10. Kept'
    <2>1. \A k \in Contacts : book'[k] # None => book'[k] = book[k] \/ k \in Due'
      BY DEF Due, Coming
    <2> QED BY <1>1, <1>2, <2>1 DEF Kept
  <1> QED BY <1>6, <1>7, <1>8, <1>9, <1>10 DEF Contents

\* Everything announced or held is a notification, and was inserted.
LEMMA Notes ==
    ASSUME IInv
    PROVE  /\ Announced \cup Held \subseteq Note
           /\ \A n \in Announced \cup Held : n.contact \in 1 .. used
           /\ listener.note \in Note <=> listener.at \in {"lookup", "build", "drain"}
  <1>1. Announced \cup Held \subseteq Note
    BY Channelled DEF IInv, Announced, Held, Typed, Listener
  <1>2. \A n \in Announced \cup Held : n.contact \in 1 .. used
    BY <1>1 DEF IInv, Contents, Noted, Note, Contacts, Typed
  <1>3. listener.note \in Note <=> listener.at \in {"lookup", "build", "drain"}
    BY PushAssumption DEF IInv, Typed, Listener, OneCall
  <1> QED BY <1>1, <1>2, <1>3

-----------------------------------------------------------------------------
(* The HTTP workers.                                                       *)

LEMMA PublishKeeps ==
    ASSUME IInv, NEW n \in unannounced, Publish(n)
    PROVE  IInv'
  <1>1. n \in Note /\ n.contact \in 1 .. used /\ channel \in Seq(Note)
    BY Notes DEF IInv, Typed, Announced
  <1>2. Typed'
    <2>1. channel' \in Seq(Note) /\ unannounced' \subseteq Note /\ missed' \subseteq 1 .. used
      <3>1. Append(channel, n) \in Seq(Note)
        BY <1>1, Appended
      <3> QED BY <1>1, <3>1 DEF Publish, Feed!Settle, IInv, Typed
    <2>2. UNCHANGED <<book, deleted, used, redis, subscribed, blind, listener, peer, conn, wire, known, jobs, done>>
      BY DEF Publish, Feed!Settle, watches, thread
    <2> QED BY <2>1, <2>2 DEF IInv, Typed
  <1>3. \/ channel' = channel /\ missed' = missed \cup {n.contact}
        \/ ToSet(channel') = ToSet(channel) \cup {n} /\ missed' = missed
    BY <1>1, Channelled DEF Publish, Feed!Settle
  <1>4. Announced' \subseteq Announced
    BY <1>3 DEF Publish, Feed!Settle, Announced
  <1>5. Coming \subseteq Coming'
    BY <1>3 DEF Publish, Feed!Settle, Announced, Coming, ContactsOf
  <1>6. UNCHANGED <<book, deleted, used, listener, blind, jobs, done, wire, known>>
    BY DEF Publish, Feed!Settle, thread, watches
  <1>7. Held' = Held /\ InHand' = InHand
    BY <1>6 DEF Held, InHand, Calling
  <1>8. Contents'
    BY <1>4, <1>5, <1>6, <1>7, Frame
  <1>9. OneCall' /\ Calls'
    BY <1>5, <1>6 DEF IInv, OneCall, Calling, Calls, CallOf
  <1> QED BY <1>2, <1>8, <1>9 DEF IInv

LEMMA WorkerDiesKeeps ==
    ASSUME IInv, NEW n \in unannounced, WorkerDies(n)
    PROVE  IInv'
  <1>1. n \in Note /\ n.contact \in 1 .. used
    BY Notes DEF IInv, Typed, Announced
  <1>2. Typed'
    BY <1>1 DEF WorkerDies, Feed!Settle, IInv, Typed, broker, watches, thread
  <1>3. UNCHANGED <<book, deleted, used, listener, blind, jobs, done, wire, known, channel>>
    BY DEF WorkerDies, Feed!Settle, broker, thread, watches
  <1>4. Announced' \subseteq Announced /\ Coming \subseteq Coming'
    BY <1>3 DEF WorkerDies, Feed!Settle, Announced, Coming, ContactsOf
  <1>5. Held' = Held /\ InHand' = InHand
    BY <1>3 DEF Held, InHand, Calling
  <1>6. Contents'
    BY <1>3, <1>4, <1>5, Frame
  <1>7. OneCall' /\ Calls'
    BY <1>3, <1>4 DEF IInv, OneCall, Calling, Calls, CallOf
  <1> QED BY <1>2, <1>6, <1>7 DEF IInv

LEMMA DeleteKeeps ==
    ASSUME IInv, NEW k \in Contacts, Delete(k)
    PROVE  IInv'
  <1>1. UNCHANGED <<unannounced, used, channel, listener, blind, jobs, done, wire, known, missed>>
    BY DEF Delete, Feed!Delete, broker, thread, watches
  <1>2. book' = [book EXCEPT ![k] = None] /\ book \in [Contacts -> Watches \cup {None}]
    BY DEF Delete, Feed!Delete, IInv, Typed
  <1>3. \A c \in Contacts : /\ \/ book'[c] \in {book[c], None}
                               \/ book'[c] = deleted[c] /\ c \in missed'
                            /\ deleted'[c] \in {deleted[c], book[c]}
    BY <1>2 DEF Delete, Feed!Delete, IInv, Typed
  <1>4. Typed'
    BY <1>2 DEF Delete, Feed!Delete, IInv, Typed, broker, watches, thread
  <1>5. Announced' = Announced /\ Held' = Held /\ InHand' = InHand /\ Coming' = Coming
    BY <1>1 DEF Announced, Held, InHand, Calling, Coming
  <1>6. Contents'
    <2>1. UNCHANGED <<used, done, wire, known>> /\ Announced' \cup Held' \subseteq Announced \cup Held
      BY <1>1, <1>5
    <2>2. Coming \subseteq Coming' /\ InHand' = InHand
      BY <1>5
    <2> QED BY <1>3, <2>1, <2>2, Frame
  <1>7. OneCall'
    BY <1>1 DEF IInv, OneCall, Calling
  <1>8. \A i \in DOMAIN done : done[i].kind = "build" => listener.note \in Note
    BY Notes DEF IInv, Calls, CallOf
  <1>9. Calls'
    <2>1. \A i \in DOMAIN done :
            Vain(done[i]) =>
              book'[listener.note.contact] # listener.note.watch \/ listener.note.contact \in Coming'
      <3>1. \A c \in Contacts : book'[c] \in {book[c], None}
        BY <1>2
      <3> QED BY <1>5, <1>8, <3>1, PushAssumption DEF IInv, Calls, Note, Vain
    <2> QED BY <1>1, <2>1 DEF IInv, Calls, CallOf
  <1> QED BY <1>4, <1>6, <1>7, <1>9 DEF IInv

\* The new contact is announced, and no list is older than one that lacks it.
LEMMA InsertKeeps ==
    ASSUME IInv, NEW w \in Watches, Insert(w)
    PROVE  IInv'
  <1> DEFINE u == used + 1
             n == [watch |-> w, contact |-> u]
  <1>1. UNCHANGED <<channel, listener, blind, jobs, done, wire, known, missed>>
    BY DEF Insert, Feed!Insert, broker, thread, watches
  <1>2. /\ used' = u /\ used \in Nat /\ u \in Contacts
        /\ book' = [book EXCEPT ![u] = w] /\ book \in [Contacts -> Watches \cup {None}]
        /\ unannounced' = unannounced \cup {n}
    BY PushAssumption DEF Insert, Feed!Insert, IInv, Typed, Contacts
  <1>3. n \in Note
    BY <1>2 DEF Note
  <1>4. Typed'
    <2>1. used' \in 0 .. MaxContacts /\ missed' \subseteq 1 .. used'
      BY <1>1, <1>2 DEF IInv, Typed, Contacts
    <2>2. book' \in [Contacts -> Watches \cup {None}] /\ unannounced' \subseteq Note
      BY <1>2, <1>3 DEF IInv, Typed
    <2> QED BY <2>1, <2>2 DEF Insert, Feed!Insert, IInv, Typed, broker, watches, thread
  <1>5. /\ Announced' = Announced \cup {n} /\ Held' = Held /\ InHand' = InHand
        /\ Coming' = Coming \cup {u}
    <2>1. Announced' = Announced \cup {n}
      BY <1>1, <1>2 DEF Announced
    <2>2. n.contact = u
      OBVIOUS
    <2> HIDE DEF n, u
    <2>3. Coming' = Coming \cup {u}
      BY <1>1, <2>1, <2>2 DEF Coming, ContactsOf
    <2>4. Held' = Held /\ InHand' = InHand
      BY <1>1 DEF Held, InHand, Calling
    <2> QED BY <2>1, <2>3, <2>4
  <1>6. Due' = Due \cup {u}
    BY <1>5 DEF Due
  <1>7. \A k \in Contacts : k # u => book'[k] = book[k]
    BY <1>2
  <1>8. \A m \in Announced \cup Held : m.contact # u /\ m.contact \in Contacts
    BY <1>2, Notes DEF Note
  <1>9. Noted'
    <2>1. deleted' = deleted /\ deleted[u] = None /\ n.watch = w /\ n.contact = u
      BY <1>2 DEF Insert, Feed!Insert, IInv, Contents, Noted
    <2>2. ASSUME NEW m \in Announced' \cup Held'
          PROVE  /\ m.contact <= u /\ book'[m.contact] \in {m.watch, None}
                 /\ deleted'[m.contact] \in {m.watch, None}
      <3>1. CASE m = n
        BY <2>1, <3>1, <1>2
      <3>2. CASE m # n
        BY <2>1, <3>2, <1>2, <1>5, <1>7, <1>8, Notes DEF IInv, Contents, Noted
      <3> QED BY <3>1, <3>2
    <2>3. \A k \in Contacts : book'[k] # None \/ deleted'[k] # None => k <= u
      BY <2>1, <1>2, <1>7 DEF IInv, Contents, Noted, Contacts
    <2> HIDE DEF u, n
    <2> QED BY <1>2, <2>2, <2>3 DEF Noted
  <1>10. Ordered'
    BY <1>1, <1>5, <1>6, <1>7 DEF IInv, Contents, Ordered
  <1>11. InLine'
    BY <1>1, <1>6, <1>7 DEF IInv, Contents, InLine
  <1>12. Added'
    <2> SUFFICES ASSUME NEW v \in Watches PROVE AddsIn(wire[v]) \subseteq 1 .. u
      BY <1>1, <1>2 DEF Added
    <2> QED BY <1>2 DEF IInv, Contents, Added
  <1>13. Kept'
    BY <1>1, <1>6, <1>7 DEF IInv, Contents, Kept
  <1>14. OneCall'
    BY <1>1 DEF IInv, OneCall, Calling
  <1>15. \A i \in DOMAIN done : done[i].kind = "build" => listener.note \in Held
    BY Notes, PushAssumption DEF IInv, Calls, CallOf, Held
  <1>16. Calls'
    <2>1. \A i \in DOMAIN done :
            Vain(done[i]) =>
              book'[listener.note.contact] # listener.note.watch \/ listener.note.contact \in Coming'
      BY <1>5, <1>7, <1>8, <1>15 DEF IInv, Calls, Vain
    <2> QED BY <1>1, <2>1 DEF IInv, Calls, CallOf
  <1> QED BY <1>4, <1>9, <1>10, <1>11, <1>12, <1>13, <1>14, <1>16 DEF IInv, Contents

\* The contact that comes back belongs to the watch it was deleted from, and counts as missed.
LEMMA SaveAgainKeeps ==
    ASSUME IInv, NEW k \in Contacts, SaveAgain(k)
    PROVE  IInv'
  <1>1. UNCHANGED <<deleted, unannounced, used, channel, listener, blind, jobs, done, wire, known>>
    BY DEF SaveAgain, Feed!SaveAgain, broker, thread, watches
  <1>2. /\ book' = [book EXCEPT ![k] = deleted[k]] /\ book \in [Contacts -> Watches \cup {None}]
        /\ missed' = missed \cup {k} /\ deleted[k] \in Watches /\ k \in 1 .. used
    <2>1. book' = [book EXCEPT ![k] = deleted[k]] /\ missed' = missed \cup {k} /\ deleted[k] # None
      BY DEF SaveAgain, Feed!SaveAgain
    <2>2. /\ book \in [Contacts -> Watches \cup {None}] /\ deleted \in [Contacts -> Watches \cup {None}]
          /\ used \in 0 .. MaxContacts
      BY DEF IInv, Typed
    <2>3. k <= used
      BY <2>1 DEF IInv, Contents, Noted
    <2>4. k \in 1 .. used
      BY <2>2, <2>3, PushAssumption DEF Contacts
    <2> QED BY <2>1, <2>2, <2>4
  <1>3. \A c \in Contacts : /\ \/ book'[c] \in {book[c], None}
                               \/ book'[c] = deleted[c] /\ c \in missed'
                            /\ deleted'[c] \in {deleted[c], book[c]}
    BY <1>1, <1>2
  <1>4. Typed'
    BY <1>2 DEF SaveAgain, Feed!SaveAgain, IInv, Typed, broker, watches, thread
  <1>5. Announced' = Announced /\ Held' = Held /\ InHand' = InHand /\ Coming' = Coming \cup {k}
    BY <1>1, <1>2 DEF Announced, Held, InHand, Calling, Coming
  <1>6. Contents'
    <2>1. UNCHANGED <<used, done, wire, known>> /\ Announced' \cup Held' \subseteq Announced \cup Held
      BY <1>1, <1>5
    <2>2. Coming \subseteq Coming' /\ InHand' = InHand
      BY <1>5
    <2> QED BY <1>3, <2>1, <2>2, Frame
  <1>7. OneCall'
    BY <1>1 DEF IInv, OneCall, Calling
  <1>8. \A i \in DOMAIN done : done[i].kind = "build" => listener.note.contact \in Contacts
    BY Notes DEF IInv, Calls, CallOf, Note
  <1>9. Calls'
    <2>1. \A i \in DOMAIN done :
            Vain(done[i]) =>
              book'[listener.note.contact] # listener.note.watch \/ listener.note.contact \in Coming'
      BY <1>2, <1>5, <1>8 DEF IInv, Calls
    <2> QED BY <1>1, <2>1 DEF IInv, Calls, CallOf
  <1> QED BY <1>4, <1>6, <1>7, <1>9 DEF IInv

-----------------------------------------------------------------------------
(* Redis, the connections, and a listener that has no call to wait for.    *)

\* While the listener waits for no call, none is under way.
LEMMA NoCall ==
    ASSUME IInv, ~Calling
    PROVE  /\ Idle(jobs) /\ Idle(done) /\ InHand = {}
           /\ \A i \in DOMAIN jobs : jobs[i].kind = "sync"
           /\ \A i \in DOMAIN done : done[i].kind = "sync"
  BY DEF IInv, OneCall, Idle, OfListener, InHand

LEMMA Still ==
    ASSUME IInv, Typed',
           UNCHANGED <<book, deleted, used, jobs, done, wire, known>>,
           Announced' \subseteq Announced, Coming \subseteq Coming',
           \/ UNCHANGED <<listener, blind>>
           \/ /\ ~Calling /\ listener'.note = None
              /\ \/ listener'.at \in {"start", "get", "sleep"}
                 \/ listener'.at = "dead" /\ blind'
    PROVE  IInv'
  <1>1. CASE UNCHANGED <<listener, blind>>
    <2>1. Held' = Held /\ InHand' = InHand
      BY <1>1 DEF Held, InHand, Calling
    <2>2. Contents'
      BY <2>1, Frame
    <2>3. OneCall' /\ Calls'
      BY <1>1 DEF IInv, OneCall, Calling, Calls, CallOf
    <2> QED BY <2>2, <2>3 DEF IInv
  <1>2. CASE /\ ~Calling /\ listener'.note = None
             /\ \/ listener'.at \in {"start", "get", "sleep"}
                \/ listener'.at = "dead" /\ blind'
    <2>1. ~Calling' /\ Held' = {} /\ InHand' = {} /\ InHand = {}
      BY <1>2, NoCall DEF Held, InHand, Calling
    <2>2. Contents'
      BY <2>1, Frame
    <2>3. OneCall'
      BY <1>2, <2>1, NoCall DEF OneCall
    <2>4. Calls'
      BY <1>2, NoCall DEF Calls, CallOf, Vain
    <2> QED BY <2>2, <2>3, <2>4 DEF IInv
  <1> QED BY <1>1, <1>2

LEMMA QuietKeeps ==
    ASSUME IInv,
           \/ Subscribe \/ GetRaises \/ Wake \/ Resubscribe \/ Drained \/ RedisUp
           \/ \E w \in Watches : Login(w) \/ Stall(w) \/ Recover(w) \/ Notice(w)
    PROVE  IInv'
  <1>1. UNCHANGED <<book, deleted, unannounced, used, jobs, done, wire, known, missed, channel>>
    BY DEF Subscribe, GetRaises, Wake, Resubscribe, Drained, RedisUp, Login, Stall, Recover,
           Notice, http, broker, watches, thread
  <1>2. Announced' = Announced /\ Coming' = Coming
    BY <1>1 DEF Announced, Coming
  <1>3. \/ UNCHANGED <<listener, blind>>
        \/ /\ ~Calling /\ listener'.note = None /\ listener' \in Listener /\ blind' \in BOOLEAN
           /\ \/ listener'.at \in {"start", "get", "sleep"}
              \/ listener'.at = "dead" /\ blind'
    <2>1. Resting = [at |-> "get", note |-> None, conn |-> 0] /\ Resting \in Listener
      BY DEF Resting, Listener
    <2>2. Dead = [at |-> "dead", note |-> None, conn |-> 0] /\ Dead \in Listener
      BY <2>1 DEF Dead, Resting, Listener
    <2>3. [Resting EXCEPT !.at = "sleep"] = [at |-> "sleep", note |-> None, conn |-> 0]
          /\ [Resting EXCEPT !.at = "sleep"] \in Listener
      BY <2>1 DEF Resting, Listener
    <2>0. blind \in BOOLEAN
      BY DEF IInv, Typed
    <2>4. CASE Subscribe
      <3>1. ~Calling
        BY <2>4 DEF Subscribe, Calling
      <3>2. CASE redis
        <4>1. listener' = Resting /\ blind' = blind
          BY <2>4, <3>2 DEF Subscribe
        <4> QED BY <2>0, <2>1, <3>1, <4>1
      <3>3. CASE ~redis
        <4>1. listener' = Dead /\ blind' = TRUE
          BY <2>4, <3>3 DEF Subscribe
        <4> QED BY <2>2, <3>1, <4>1
      <3> QED BY <3>2, <3>3
    <2>5. CASE GetRaises \/ Wake \/ Drained
      <3>1. ~Calling
        BY <2>5 DEF GetRaises, Wake, Drained, Calling
      <3>2. listener' \in {Resting, [Resting EXCEPT !.at = "sleep"]} /\ blind' = blind
        BY <2>5 DEF GetRaises, Wake, Drained
      <3> QED BY <2>0, <2>1, <2>3, <3>1, <3>2
    <2>6. CASE Resubscribe \/ RedisUp
      BY <2>6 DEF Resubscribe, RedisUp
    <2>7. CASE \E w \in Watches : Login(w) \/ Stall(w) \/ Recover(w) \/ Notice(w)
      BY <2>7 DEF Login, Stall, Recover, Notice
    <2> QED BY <2>4, <2>5, <2>6, <2>7
  <1>4. redis' \in BOOLEAN /\ subscribed' \in BOOLEAN
    BY DEF Subscribe, GetRaises, Wake, Resubscribe, Drained, RedisUp, Login, Stall, Recover,
           Notice, broker, IInv, Typed
  <1>5. peer' \in [Watches -> {"none", "reading", "stalled", "gone"}] /\ conn' \in [Watches -> Nat]
    <2>1. CASE UNCHANGED watches
      BY <2>1 DEF watches, IInv, Typed
    <2>2. ASSUME NEW w \in Watches, Login(w) \/ Stall(w) \/ Recover(w) \/ Notice(w)
          PROVE  /\ peer' \in [Watches -> {"none", "reading", "stalled", "gone"}]
                 /\ conn' \in [Watches -> Nat]
      <3>1. /\ peer \in [Watches -> {"none", "reading", "stalled", "gone"}]
            /\ conn \in [Watches -> Nat]
        BY DEF IInv, Typed
      <3>2. \E p \in {"none", "reading", "stalled", "gone"} : peer' = [peer EXCEPT ![w] = p]
        BY <2>2 DEF Login, Stall, Recover, Notice
      <3>3. conn' = conn \/ conn' = [conn EXCEPT ![w] = @ + 1]
        BY <2>2 DEF Login, Stall, Recover, Notice
      <3>4. peer' \in [Watches -> {"none", "reading", "stalled", "gone"}]
        BY <3>1, <3>2
      <3>5. conn' \in [Watches -> Nat]
        BY <3>1, <3>3
      <3> QED BY <3>4, <3>5
    <2> QED BY <2>1, <2>2 DEF Subscribe, GetRaises, Wake, Resubscribe, Drained, RedisUp
  <1>6. Typed'
    BY <1>1, <1>3, <1>4, <1>5 DEF IInv, Typed
  <1> QED BY <1>1, <1>2, <1>3, <1>6, Still

LEMMA RedisDownKeeps ==
    ASSUME IInv, RedisDown
    PROVE  IInv'
  <1>1. UNCHANGED <<book, deleted, unannounced, used, jobs, done, wire, known, listener, blind, peer, conn>>
    BY DEF RedisDown, http, watches, thread
  <1>2. /\ channel' = <<>> /\ redis' = FALSE /\ subscribed' = FALSE
        /\ missed' = missed \cup ContactsOf(ToSet(channel))
    BY DEF RedisDown
  <1>3. ToSet(channel') = {}
    BY <1>2 DEF ToSet
  <1>4. Typed'
    <2>1. channel' \in Seq(Note)
      BY <1>2
    <2>2. missed' \subseteq 1 .. used
      BY <1>2, Notes DEF Announced, ContactsOf, IInv, Typed
    <2> QED BY <1>1, <1>2, <2>1, <2>2 DEF IInv, Typed
  <1>5. Announced' \subseteq Announced
    BY <1>1, <1>3 DEF Announced
  <1>6. Coming \subseteq Coming'
    BY <1>1, <1>2, <1>3 DEF Announced, Coming, ContactsOf
  <1>7. Held' = Held /\ InHand' = InHand
    BY <1>1 DEF Held, InHand, Calling
  <1>8. Contents'
    BY <1>1, <1>5, <1>6, <1>7, Frame
  <1>9. OneCall' /\ Calls'
    BY <1>1, <1>6 DEF IInv, OneCall, Calling, Calls, CallOf
  <1> QED BY <1>4, <1>8, <1>9 DEF IInv

\* What was on the wire is missed now.
LEMMA LoseKeeps ==
    ASSUME IInv, NEW w \in Watches, Lose(w)
    PROVE  IInv'
  <1>1. UNCHANGED <<book, deleted, unannounced, used, jobs, done, known, listener, blind, channel, redis,
                    subscribed, conn>>
    BY DEF Lose, http, broker, thread
  <1>2. /\ wire \in [Watches -> Seq(Packet)] /\ wire' = [wire EXCEPT ![w] = <<>>]
        /\ missed' = missed \cup AddsIn(wire[w])
    BY DEF Lose, IInv, Typed
  <1>3. missed' \subseteq 1 .. used
    BY <1>2 DEF IInv, Typed, Contents, Added
  <1>4. wire' \in [Watches -> Seq(Packet)]
    <2>1. <<>> \in Seq(Packet)
      OBVIOUS
    <2> QED BY <1>2, <2>1
  <1>5. peer' \in [Watches -> {"none", "reading", "stalled", "gone"}]
    BY DEF Lose, IInv, Typed
  <1>6. Typed'
    BY <1>1, <1>3, <1>4, <1>5 DEF IInv, Typed
  <1>7. /\ Announced' = Announced /\ Held' = Held /\ InHand' = InHand
        /\ Coming' = Coming \cup AddsIn(wire[w]) /\ Due' = Due \cup AddsIn(wire[w])
    BY <1>1, <1>2 DEF Announced, Held, InHand, Calling, Coming, Due
  <1>8. Noted'
    BY <1>1, <1>7 DEF IInv, Contents, Noted
  <1>9. Ordered'
    BY <1>1, <1>7 DEF IInv, Contents, Ordered
  <1>10. wire'[w] = <<>> /\ \A v \in Watches : v # w => wire'[v] = wire[v]
    BY <1>2
  <1>11. InLine'
    <2> SUFFICES ASSUME NEW v \in Watches, NEW i \in DOMAIN wire'[v], NEW k \in Contacts,
                        wire'[v][i].type = "all", book[k] = v, k \notin wire'[v][i].person
                 PROVE  k \in Due' \/ Behind(wire'[v], i, k)
      BY <1>1 DEF InLine
    <2>1. v # w
      BY <1>10
    <2> QED BY <1>7, <1>10, <2>1 DEF IInv, Contents, InLine
  <1>12. AddsIn(<<>>) = {}
    BY DEF AddsIn
  <1>13. Added'
    <2> SUFFICES ASSUME NEW v \in Watches PROVE AddsIn(wire'[v]) \subseteq 1 .. used
      BY <1>1 DEF Added
    <2> QED BY <1>10, <1>12 DEF IInv, Contents, Added
  <1>14. Kept'
    <2> SUFFICES ASSUME NEW k \in Contacts, book[k] # None
                 PROVE  k \in known[book[k]] \cup AddsIn(wire'[book[k]]) \cup Due'
      BY <1>1 DEF Kept
    <2>1. k \in known[book[k]] \cup AddsIn(wire[book[k]]) \cup Due /\ book[k] \in Watches
      BY DEF IInv, Contents, Kept, Typed
    <2>2. CASE book[k] = w
      BY <1>7, <2>1, <2>2
    <2>3. CASE book[k] # w
      <3>1. wire'[book[k]] = wire[book[k]]
        BY <1>10, <2>1, <2>3
      <3> QED BY <1>7, <2>1, <3>1
    <2> QED BY <2>2, <2>3
  <1>15. OneCall' /\ Calls'
    BY <1>1, <1>7 DEF IInv, OneCall, Calling, Calls, CallOf
  <1> QED BY <1>6, <1>8, <1>9, <1>11, <1>13, <1>14, <1>15 DEF IInv, Contents

-----------------------------------------------------------------------------
(* The database thread, and the steps that take a notification on.         *)

LEMMA AskAllKeeps ==
    ASSUME IInv, NEW w \in Watches, AskAll(w)
    PROVE  IInv'
  <1> DEFINE j == [kind |-> "sync", watch |-> w, person |-> {}, conn |-> conn[w], raised |-> FALSE]
  <1>1. UNCHANGED <<book, deleted, unannounced, used, channel, redis, subscribed, listener, blind, peer, conn,
                    wire, known, done, missed>>
    BY DEF AskAll, http, broker, watches
  <1>2. j \in Job /\ j.kind = "sync" /\ jobs \in Seq(Job) /\ jobs' = Append(jobs, j)
    BY DEF AskAll, NewJob, IInv, Typed, Job
  <1> HIDE DEF j
  <1>3. /\ jobs' \in Seq(Job)
        /\ DOMAIN jobs' = 1 .. Len(jobs) + 1 /\ DOMAIN jobs = 1 .. Len(jobs) /\ Len(jobs) \in Nat
        /\ \A i \in 1 .. Len(jobs) : jobs'[i] = jobs[i]
        /\ jobs'[Len(jobs) + 1] = j
    BY <1>2, Appended
  <1>4. Typed'
    BY <1>1, <1>3 DEF IInv, Typed
  <1>5. /\ Announced' = Announced /\ Held' = Held /\ InHand' = InHand /\ Coming' = Coming
        /\ Calling' = Calling
    BY <1>1 DEF Announced, Held, InHand, Calling, Coming
  <1>6. Contents'
    BY <1>1, <1>5, Frame
  <1>7. OneCall'
    <2>1. (Idle(jobs) => Idle(jobs')) /\ (Awaits(jobs) => Awaits(jobs'))
      BY <1>2, Queue
    <2> QED BY <1>1, <1>5, <2>1 DEF IInv, OneCall
  <1>8. Calls'
    <2>1. \A i \in DOMAIN jobs' : i \in DOMAIN jobs \/ jobs'[i].kind = "sync"
      BY <1>2, <1>3
    <2>2. \A i \in DOMAIN jobs : jobs'[i] = jobs[i]
      BY <1>3
    <2> QED BY <1>1, <1>5, <2>1, <2>2 DEF IInv, Calls, CallOf
  <1> QED BY <1>4, <1>6, <1>7, <1>8 DEF IInv

LEMMA GetMessageKeeps ==
    ASSUME IInv, GetMessage
    PROVE  IInv'
  <1> DEFINE n == Head(channel)
             j == [kind |-> "lookup", watch |-> n.watch, person |-> {}, conn |-> conn[n.watch],
                   raised |-> FALSE]
  <1>1. UNCHANGED <<book, deleted, unannounced, used, redis, subscribed, blind, peer, conn, wire, known, done>>
    BY DEF GetMessage, http, watches
  <1>2. /\ channel \in Seq(Note) /\ channel # <<>> /\ channel' = Tail(channel)
        /\ listener.at = "get" /\ ~Calling
    BY DEF GetMessage, IInv, Typed, Calling
  <1>3. n \in Note /\ channel' \in Seq(Note) /\ ToSet(channel) = ToSet(channel') \cup {n}
    BY <1>2, Cut, Channelled
  <1>4. n \in Announced /\ n.contact \in 1 .. used
    BY <1>3, Notes DEF Announced
  <1>5. n.watch \in Watches /\ n.contact \in Contacts /\ n # None
    BY <1>3, PushAssumption DEF Note
  <1>6. Announced = Announced' \cup {n}
    BY <1>1, <1>3, <1>4 DEF Announced
  <1>7. CASE ~Registered(n.watch)
    <2>1. missed' = missed \cup {n.contact} /\ UNCHANGED <<listener, jobs>>
      BY <1>7 DEF GetMessage
    <2>2. Typed'
      BY <1>1, <1>3, <1>4, <2>1 DEF IInv, Typed
    <2>3. Coming \subseteq Coming'
      BY <1>6, <2>1 DEF Coming, ContactsOf
    <2> QED BY <1>1, <1>6, <2>1, <2>2, <2>3, Still
  <1>8. CASE Registered(n.watch)
    <2>1. /\ listener' = [at |-> "lookup", note |-> n, conn |-> conn[n.watch]]
          /\ jobs' = Append(jobs, j) /\ missed' = missed
      BY <1>8 DEF GetMessage, NewJob
    <2>2. conn[n.watch] \in Nat
      BY <1>5 DEF IInv, Typed
    <2>3. j \in Job /\ j.kind = "lookup" /\ j.watch = n.watch
      BY <1>5, <2>2 DEF Job
    <2>4. listener'.at = "lookup" /\ listener'.note = n /\ listener' \in Listener
      BY <1>3, <2>1, <2>2 DEF Listener
    <2>5. jobs \in Seq(Job)
      BY DEF IInv, Typed
    <2> HIDE DEF j, n
    <2>6. /\ jobs' \in Seq(Job)
          /\ DOMAIN jobs' = 1 .. Len(jobs) + 1 /\ DOMAIN jobs = 1 .. Len(jobs) /\ Len(jobs) \in Nat
          /\ \A i \in 1 .. Len(jobs) : jobs'[i] = jobs[i]
          /\ jobs'[Len(jobs) + 1] = j
      BY <2>1, <2>3, <2>5, Appended
    <2>7. Typed'
      BY <1>1, <1>3, <2>1, <2>4, <2>6 DEF IInv, Typed
    <2>8. Calling' /\ Held' = {n} /\ InHand' = {n} /\ InHand = {}
      BY <1>2, <1>5, <2>4, NoCall DEF Calling, Held, InHand
    <2>9. Coming \subseteq Coming' \cup {n.contact}
      BY <1>6, <2>1 DEF Coming, ContactsOf
    <2>10. Due' = Coming' \cup {n.contact} /\ Due = Coming
      BY <2>8 DEF Due, ContactsOf
    <2>11. Noted'
      BY <1>1, <1>4, <1>6, <2>8 DEF IInv, Contents, Noted
    <2>12. Ordered'
      <3>1. \A i \in DOMAIN done : done[i].kind # "build"
        BY <1>2, NoCall
      <3>2. \A i \in DOMAIN done, k \in Contacts :
              Listed(done[i]) /\ book[k] = done[i].watch /\ k \notin done[i].person
                => k \in Due'
        BY <2>9, <2>10 DEF IInv, Contents, Ordered
      <3>3. \A i \in DOMAIN done : \A m \in 1 .. i - 1 : m \in DOMAIN done
        BY DEF IInv, Typed
      <3> QED BY <1>1, <3>1, <3>2, <3>3 DEF Ordered
    <2>13. InLine' /\ Added' /\ Kept'
      BY <1>1, <2>9, <2>10 DEF IInv, Contents, InLine, Added, Kept
    <2>14. OneCall'
      <3>1. Idle(jobs) /\ Idle(done)
        BY <1>2, NoCall
      <3>2. Awaits(jobs')
        BY <2>1, <2>3, <2>5, <3>1, Queue
      <3> QED BY <1>1, <1>5, <2>4, <2>8, <3>1, <3>2 DEF OneCall
    <2>15. Calls'
      <3>1. \A i \in DOMAIN jobs' : jobs'[i].kind = "sync" \/ jobs'[i] = j
        BY <1>2, <2>6, NoCall
      <3>2. \A i \in DOMAIN done : done[i].kind = "sync"
        BY <1>2, NoCall
      <3> QED BY <1>1, <2>3, <2>4, <3>1, <3>2 DEF Calls, CallOf, Vain
    <2> QED BY <2>7, <2>11, <2>12, <2>13, <2>14, <2>15 DEF IInv, Contents
  <1> QED BY <1>7, <1>8

\* A result that is not of a build leaves: the lists behind it keep their place.
LEMMA Forward ==
    ASSUME IInv, done # <<>>, done' = Tail(done), Head(done).kind # "build",
           book' = book, Coming \subseteq Coming', Due \subseteq Due'
    PROVE  Ordered'
  <1>1. done \in Seq(Job)
    BY DEF IInv, Typed
  <1>2. /\ DOMAIN done' = 1 .. Len(done) - 1 /\ DOMAIN done = 1 .. Len(done)
        /\ Len(done) \in Nat /\ Len(done) >= 1
        /\ \A i \in 1 .. Len(done) - 1 : done'[i] = done[i + 1]
    BY <1>1, Cut
  <1>3. SUFFICES ASSUME NEW i \in DOMAIN done', NEW k \in Contacts,
                        Listed(done'[i]), book[k] = done'[i].watch, k \notin done'[i].person
                 PROVE  \/ k \in Coming'
                        \/ k \in Due' /\ \A m \in 1 .. i - 1 : done'[m].kind # "build"
    BY DEF Ordered
  <1>4. i + 1 \in DOMAIN done /\ done'[i] = done[i + 1]
    BY <1>2
  <1>5. \/ k \in Coming
        \/ k \in Due /\ \A m \in 1 .. i : done[m].kind # "build"
    <2>1. (i + 1) - 1 = i
      BY <1>2
    <2> QED BY <1>3, <1>4, <2>1 DEF IInv, Contents, Ordered
  <1>6. \A m \in 1 .. i - 1 : m + 1 \in 1 .. i /\ done'[m] = done[m + 1]
    BY <1>2
  <1> QED BY <1>5, <1>6

\* A result of a build leaves: what the lists behind it lack is coming.
LEMMA BuildLeaves ==
    ASSUME IInv, done # <<>>, done' = Tail(done), Head(done).kind = "build",
           book' = book, Coming \subseteq Coming'
    PROVE  Ordered'
  <1>1. done \in Seq(Job)
    BY DEF IInv, Typed
  <1>2. /\ DOMAIN done' = 1 .. Len(done) - 1 /\ DOMAIN done = 1 .. Len(done)
        /\ Len(done) \in Nat /\ Len(done) >= 1 /\ Head(done) = done[1]
        /\ \A i \in 1 .. Len(done) - 1 : done'[i] = done[i + 1]
    BY <1>1, Cut
  <1>3. SUFFICES ASSUME NEW i \in DOMAIN done', NEW k \in Contacts,
                        Listed(done'[i]), book[k] = done'[i].watch, k \notin done'[i].person
                 PROVE  k \in Coming'
    BY DEF Ordered
  <1>4. i + 1 \in DOMAIN done /\ done'[i] = done[i + 1] /\ 1 \in 1 .. (i + 1) - 1
    BY <1>2
  <1> QED BY <1>2, <1>3, <1>4 DEF IInv, Contents, Ordered

LEMMA ResumeLookupKeeps ==
    ASSUME IInv, ResumeLookup
    PROVE  IInv'
  <1> DEFINE h == Head(done)
             j == [h EXCEPT !.kind = "build", !.person = {listener.note.contact}]
  <1>1. UNCHANGED <<book, deleted, unannounced, used, channel, redis, subscribed, blind, peer, conn, wire,
                    known, missed>>
    BY DEF ResumeLookup, http, broker, watches
  <1>2. /\ done # <<>> /\ done' = Tail(done) /\ h.kind = "lookup"
        /\ listener' = [listener EXCEPT !.at = "build"] /\ jobs' = Append(jobs, j)
        /\ done \in Seq(Job) /\ jobs \in Seq(Job) /\ listener \in Listener
    BY DEF ResumeLookup, IInv, Typed
  <1>3. /\ DOMAIN done' = 1 .. Len(done) - 1 /\ DOMAIN done = 1 .. Len(done)
        /\ Len(done) \in Nat /\ Len(done) >= 1 /\ h = done[1] /\ h \in Job
        /\ \A i \in 1 .. Len(done) - 1 : done'[i] = done[i + 1]
        /\ done' \in Seq(Job)
    BY <1>2, Cut
  <1>4. listener.at = "lookup" /\ h.watch = listener.note.watch
    <2>1. 1 \in DOMAIN done
      BY <1>3
    <2> QED BY <1>2, <1>3, <2>1 DEF IInv, Calls, CallOf
  <1>5. listener.note \in Note /\ listener.note.contact \in Contacts
    BY <1>4, Notes DEF Note
  <1>6. /\ j \in Job /\ j.kind = "build" /\ j.watch = listener.note.watch
        /\ j.person = {listener.note.contact}
    BY <1>3, <1>4, <1>5 DEF Job
  <1>7. listener' \in Listener /\ listener'.at = "build" /\ listener'.note = listener.note
    BY <1>2 DEF Listener
  <1> HIDE DEF j, h
  <1>8. /\ jobs' \in Seq(Job)
        /\ DOMAIN jobs' = 1 .. Len(jobs) + 1 /\ DOMAIN jobs = 1 .. Len(jobs) /\ Len(jobs) \in Nat
        /\ \A i \in 1 .. Len(jobs) : jobs'[i] = jobs[i]
        /\ jobs'[Len(jobs) + 1] = j
    BY <1>2, <1>6, Appended
  <1>9. Typed'
    BY <1>1, <1>3, <1>7, <1>8 DEF IInv, Typed
  <1>10. /\ Calling /\ Calling' /\ Announced' = Announced /\ Held' = Held /\ InHand' = InHand
         /\ Coming' = Coming
    BY <1>1, <1>4, <1>7 DEF Calling, Announced, Held, InHand, Coming
  <1>11. Due' = Due
    BY <1>10 DEF Due
  <1>12. Ordered'
    BY <1>1, <1>2, <1>10, <1>11, Forward DEF h
  <1>13. Noted' /\ InLine' /\ Added' /\ Kept'
    BY <1>1, <1>10, <1>11 DEF IInv, Contents, Noted, InLine, Added, Kept
  <1>14. Awaits(done) /\ Idle(jobs)
    <2>1. ~Idle(done)
      BY <1>2, Dequeue DEF h
    <2> QED BY <1>10, <2>1 DEF IInv, OneCall
  <1>15. Idle(done') /\ Awaits(jobs')
    <2>1. Idle(done')
      BY <1>2, <1>14, Dequeue DEF h
    <2>2. Awaits(jobs')
      BY <1>2, <1>6, <1>14, Queue
    <2> QED BY <2>1, <2>2
  <1>16. OneCall'
    BY <1>4, <1>7, <1>10, <1>15 DEF IInv, OneCall
  <1>17. Calls'
    <2>1. \A i \in DOMAIN done' : done'[i].kind = "sync"
      BY <1>15 DEF Idle, OfListener
    <2>2. \A i \in DOMAIN jobs : jobs[i].kind = "sync"
      BY <1>14 DEF Idle, OfListener
    <2>3. \A i \in DOMAIN jobs' : jobs'[i].kind = "sync" \/ jobs'[i] = j
      BY <1>8, <2>2
    <2> QED BY <1>6, <1>7, <2>1, <2>3 DEF Calls, CallOf, Vain
  <1> QED BY <1>9, <1>12, <1>13, <1>16, <1>17 DEF IInv, Contents

\* The result of a call, or what it raised.
Result(j, r) ==
    \/ r = [j EXCEPT !.person = Selected(j)]
    \/ r = [j EXCEPT !.raised = TRUE, !.person = {}]

LEMMA RunJobKeeps ==
    ASSUME IInv, RunJob \/ JobRaises
    PROVE  IInv'
  <1> DEFINE j == Head(jobs)
  <1>r. PICK r : Result(j, r) /\ done' = Append(done, r)
    BY DEF RunJob, JobRaises, Finish, Result
  <1>1. UNCHANGED <<book, deleted, unannounced, used, channel, redis, subscribed, listener, blind, peer, conn,
                    wire, known, missed>>
    BY DEF RunJob, JobRaises, http, broker, watches
  <1>2. /\ jobs # <<>> /\ jobs' = Tail(jobs) /\ done' = Append(done, r)
        /\ done \in Seq(Job) /\ jobs \in Seq(Job)
    BY <1>r DEF RunJob, JobRaises, IInv, Typed
  <1>3. /\ DOMAIN jobs' = 1 .. Len(jobs) - 1 /\ DOMAIN jobs = 1 .. Len(jobs)
        /\ Len(jobs) \in Nat /\ Len(jobs) >= 1 /\ j = jobs[1] /\ j \in Job
        /\ \A i \in 1 .. Len(jobs) - 1 : jobs'[i] = jobs[i + 1]
        /\ jobs' \in Seq(Job)
    BY <1>2, Cut
  <1>4. Selected(j) \subseteq Contacts
    BY DEF Selected
  <1>5. /\ r \in Job /\ r.kind = j.kind /\ r.watch = j.watch
        /\ ~r.raised => r.person = Selected(j)
    BY <1>r, <1>3, <1>4 DEF Job, Result
  <1>6. Listed(r) => \A k \in Contacts : book[k] = r.watch => k \in r.person
    BY <1>5 DEF Selected, Listed
  <1>7. CallOf(j) /\ (j.kind = "build" => j.person = {listener.note.contact})
    <2>1. 1 \in DOMAIN jobs
      BY <1>3
    <2> QED BY <1>3, <2>1 DEF IInv, Calls
  <1>8. ASSUME Vain(r)
        PROVE  book[listener.note.contact] # listener.note.watch
    <2>1. listener.note \in Note
      BY <1>5, <1>7, <1>8, Notes DEF CallOf, Vain
    <2>2. listener.note.contact \in Contacts /\ listener.note.contact \in j.person
      BY <1>5, <1>7, <1>8, <2>1 DEF Note, Vain
    <2>3. j.watch = listener.note.watch
      BY <1>5, <1>7, <1>8 DEF CallOf, Vain
    <2> QED BY <1>5, <1>8, <2>2, <2>3 DEF Selected, Vain
  <1> HIDE DEF j
  <1>9. /\ done' \in Seq(Job)
        /\ DOMAIN done' = 1 .. Len(done) + 1 /\ DOMAIN done = 1 .. Len(done) /\ Len(done) \in Nat
        /\ \A i \in 1 .. Len(done) : done'[i] = done[i]
        /\ done'[Len(done) + 1] = r
    BY <1>2, <1>5, Appended
  <1>10. Typed'
    BY <1>1, <1>3, <1>9 DEF IInv, Typed
  <1>11. /\ Calling' = Calling /\ Announced' = Announced /\ Held' = Held /\ InHand' = InHand
         /\ Coming' = Coming
    BY <1>1 DEF Calling, Announced, Held, InHand, Coming
  <1>12. Due' = Due
    BY <1>11 DEF Due
  <1>13. Ordered'
    <2> SUFFICES ASSUME NEW i \in DOMAIN done', NEW k \in Contacts,
                        Listed(done'[i]), book[k] = done'[i].watch, k \notin done'[i].person
                 PROVE  \/ k \in Coming
                        \/ k \in Due /\ \A m \in 1 .. i - 1 : done'[m].kind # "build"
      BY <1>1, <1>11, <1>12 DEF Ordered
    <2>1. i # Len(done) + 1
      BY <1>6, <1>9
    <2>2. i \in DOMAIN done /\ done'[i] = done[i]
      BY <1>9, <2>1
    <2>3. \A m \in 1 .. i - 1 : done'[m] = done[m]
      BY <1>9, <2>2
    <2> QED BY <2>2, <2>3 DEF IInv, Contents, Ordered
  <1>14. Noted' /\ InLine' /\ Added' /\ Kept'
    BY <1>1, <1>11, <1>12 DEF IInv, Contents, Noted, InLine, Added, Kept
  <1>15. OneCall'
    <2>1. /\ r.kind = "sync" => (Idle(done) => Idle(done')) /\ (Awaits(done) => Awaits(done'))
          /\ r.kind # "sync" /\ Idle(done) => Awaits(done')
      BY <1>2, <1>5, Queue
    <2>2. /\ j.kind = "sync" => (Idle(jobs) => Idle(jobs')) /\ (Awaits(jobs) => Awaits(jobs'))
          /\ j.kind # "sync" => ~Idle(jobs) /\ (Awaits(jobs) => Idle(jobs'))
      BY <1>2, Dequeue DEF j
    <2>3. CASE Calling
      <3>1. CASE Awaits(jobs) /\ Idle(done)
        <4>1. (Awaits(jobs') /\ Idle(done')) \/ (Idle(jobs') /\ Awaits(done'))
          BY <1>5, <2>1, <2>2, <3>1
        <4> QED BY <1>1, <1>11, <2>3, <4>1 DEF IInv, OneCall
      <3>2. CASE Idle(jobs) /\ Awaits(done)
        <4>1. Idle(jobs') /\ Awaits(done')
          BY <1>5, <2>1, <2>2, <3>2
        <4> QED BY <1>1, <1>11, <2>3, <4>1 DEF IInv, OneCall
      <3> QED BY <2>3, <3>1, <3>2 DEF IInv, OneCall
    <2>4. CASE ~Calling
      <3>1. Idle(jobs') /\ Idle(done')
        BY <1>5, <2>1, <2>2, <2>4, NoCall
      <3> QED BY <1>1, <1>11, <2>4, <3>1 DEF IInv, OneCall
    <2> QED BY <2>3, <2>4
  <1>16. Calls'
    <2>1. \A i \in DOMAIN jobs' : i + 1 \in DOMAIN jobs /\ jobs'[i] = jobs[i + 1]
      BY <1>3
    <2>2. \A i \in DOMAIN done' : (i \in DOMAIN done /\ done'[i] = done[i]) \/ done'[i] = r
      BY <1>9
    <2>3. \A i \in DOMAIN jobs' :
            /\ CallOf(jobs'[i])
            /\ jobs'[i].kind = "build" => jobs'[i].person = {listener.note.contact}
      BY <2>1 DEF IInv, Calls
    <2>4. CallOf(r)
      BY <1>5, <1>7 DEF CallOf
    <2>5. \A i \in DOMAIN done' :
            /\ CallOf(done'[i])
            /\ Vain(done'[i]) =>
                  \/ book[listener.note.contact] # listener.note.watch
                  \/ listener.note.contact \in Coming
      BY <1>8, <2>2, <2>4 DEF IInv, Calls
    <2> QED BY <1>1, <1>11, <2>3, <2>5 DEF Calls, CallOf
  <1> QED BY <1>10, <1>13, <1>14, <1>15, <1>16 DEF IInv, Contents

-----------------------------------------------------------------------------
(* What is written to a connection is on its wire, or missed.              *)

LEMMA Alone ==
    ASSUME NEW p \in Packet
    PROVE  AddsIn(<<p>>) = IF p.type = "add" THEN p.person ELSE {}
  <1>1. /\ DOMAIN <<p>> = {1} /\ <<p>>[1] = p
    OBVIOUS
  <1>2. \A k : k \in AddsIn(<<p>>) <=> p.type = "add" /\ k \in p.person
    BY <1>1 DEF AddsIn
  <1> QED BY <1>2

LEMMA Writes ==
    ASSUME IInv, NEW w \in Watches, NEW n \in Nat, NEW p \in Packet, Write(w, n, p),
           p.type = "add" => p.person \subseteq 1 .. used
    PROVE  /\ wire' \in [Watches -> Seq(Packet)] /\ missed' \subseteq 1 .. used
           /\ missed \subseteq missed'
           /\ \A v \in Watches : v # w => wire'[v] = wire[v]
           /\ \/ wire'[w] = Append(wire[w], p)
              \/ wire'[w] = wire[w] /\ (p.type = "add" => p.person \subseteq missed')
           /\ AddsIn(wire'[w]) \subseteq 1 .. used /\ AddsIn(wire[w]) \subseteq AddsIn(wire'[w])
  <1>1. /\ wire \in [Watches -> Seq(Packet)] /\ missed \subseteq 1 .. used
        /\ AddsIn(wire[w]) \subseteq 1 .. used
    BY DEF IInv, Typed, Contents, Added
  <1>2. CASE conn[w] = n /\ peer[w] \in {"reading", "stalled"}
    <2>1. wire' = [wire EXCEPT ![w] = Append(wire[w], p)] /\ missed' = missed
      BY <1>2 DEF Write
    <2>2. Append(wire[w], p) \in Seq(Packet)
      BY <1>1, Appended
    <2>3. wire'[w] = Append(wire[w], p)
      BY <1>1, <2>1
    <2>4. AddsIn(wire'[w]) = AddsIn(wire[w]) \cup (IF p.type = "add" THEN p.person ELSE {})
      BY <1>1, <2>3, Written
    <2> QED BY <1>1, <2>1, <2>2, <2>3, <2>4
  <1>3. CASE ~(conn[w] = n /\ peer[w] \in {"reading", "stalled"})
    <2>1. wire' = wire /\ missed' = missed \cup AddsIn(<<p>>)
      BY <1>3 DEF Write
    <2>2. AddsIn(<<p>>) \subseteq 1 .. used /\ (p.type = "add" => p.person \subseteq missed')
      BY <2>1, Alone
    <2> QED BY <1>1, <2>1, <2>2
  <1> QED BY <1>2, <1>3

LEMMA BehindAppend ==
    ASSUME NEW s \in Seq(Packet), NEW p \in Packet, NEW i \in DOMAIN s, NEW k
    PROVE  /\ Behind(s, i, k) => Behind(Append(s, p), i, k)
           /\ p.type = "add" /\ k \in p.person => Behind(Append(s, p), i, k)
  <1> DEFINE t == Append(s, p)
  <1>1. /\ Len(t) = Len(s) + 1 /\ DOMAIN s = 1 .. Len(s) /\ Len(s) \in Nat
        /\ \A m \in 1 .. Len(s) : t[m] = s[m]
        /\ t[Len(s) + 1] = p
    BY Appended
  <1> HIDE DEF t
  <1>2. /\ \A m \in i + 1 .. Len(s) : m \in i + 1 .. Len(t) /\ t[m] = s[m]
        /\ Len(s) + 1 \in i + 1 .. Len(t)
    BY <1>1
  <1>3. /\ Behind(s, i, k) => Behind(t, i, k)
        /\ p.type = "add" /\ k \in p.person => Behind(t, i, k)
    BY <1>1, <1>2 DEF Behind
  <1> QED BY <1>3 DEF t

\* A packet is written: lists on the wire keep the pushes behind them.
LEMMA WriteInLine ==
    ASSUME IInv, NEW w \in Watches, NEW n \in Nat, NEW p \in Packet, Write(w, n, p),
           book' = book,
           p.type = "add" => p.person \subseteq 1 .. used,
           \A k \in Contacts : k \in Due /\ book[k] # None =>
               k \in Due' \/ (p.type = "add" /\ k \in p.person /\ book[k] = w),
           p.type = "add" => \A k \in p.person : k \in missed' => k \in Due',
           p.type = "all" => \A k \in Contacts : book[k] = w /\ k \notin p.person => k \in Due'
    PROVE  InLine'
  <1>1. /\ wire \in [Watches -> Seq(Packet)]
        /\ \A v \in Watches : v # w => wire'[v] = wire[v]
        /\ \/ wire'[w] = Append(wire[w], p)
           \/ wire'[w] = wire[w] /\ (p.type = "add" => p.person \subseteq missed')
    BY Writes DEF IInv, Typed
  <1>2. SUFFICES ASSUME NEW v \in Watches, NEW i \in DOMAIN wire'[v], NEW k \in Contacts,
                        wire'[v][i].type = "all", book[k] = v, k \notin wire'[v][i].person
                 PROVE  k \in Due' \/ Behind(wire'[v], i, k)
    BY DEF InLine
  <1>3. book[k] # None
    BY <1>2, PushAssumption
  <1>4. CASE v # w
    <2>1. k \in Due \/ Behind(wire[v], i, k)
      BY <1>1, <1>2, <1>4 DEF IInv, Contents, InLine
    <2> QED BY <1>1, <1>2, <1>3, <1>4, <2>1
  <1>5. CASE v = w /\ wire'[w] = Append(wire[w], p)
    <2>1. /\ DOMAIN wire'[w] = 1 .. Len(wire[w]) + 1 /\ DOMAIN wire[w] = 1 .. Len(wire[w])
          /\ Len(wire[w]) \in Nat
          /\ \A m \in 1 .. Len(wire[w]) : wire'[w][m] = wire[w][m]
          /\ wire'[w][Len(wire[w]) + 1] = p
      <3>1. wire[w] \in Seq(Packet)
        BY <1>1
      <3> QED BY <1>5, <3>1, Appended
    <2>2. CASE i = Len(wire[w]) + 1
      BY <1>2, <1>5, <2>1, <2>2
    <2>3. CASE i # Len(wire[w]) + 1
      <3>1. i \in DOMAIN wire[w] /\ wire'[w][i] = wire[w][i]
        BY <1>2, <1>5, <2>1, <2>3
      <3>2. k \in Due \/ Behind(wire[w], i, k)
        BY <1>2, <1>5, <3>1 DEF IInv, Contents, InLine
      <3>3. /\ Behind(wire[w], i, k) => Behind(wire'[w], i, k)
            /\ p.type = "add" /\ k \in p.person => Behind(wire'[w], i, k)
        BY <1>1, <1>5, <3>1, BehindAppend
      <3> QED BY <1>3, <1>5, <3>2, <3>3
    <2> QED BY <2>2, <2>3
  <1>6. CASE v = w /\ wire'[w] = wire[w] /\ (p.type = "add" => p.person \subseteq missed')
    <2>1. k \in Due \/ Behind(wire[w], i, k)
      BY <1>2, <1>6 DEF IInv, Contents, InLine
    <2> QED BY <1>2, <1>3, <1>6, <2>1
  <1> QED BY <1>1, <1>4, <1>5, <1>6

LEMMA ResumeSyncKeeps ==
    ASSUME IInv, ResumeSync
    PROVE  IInv'
  <1> DEFINE h == Head(done)
             p == All(h.person)
             w == h.watch
  <1>1. UNCHANGED <<book, deleted, unannounced, used, channel, redis, subscribed, listener, blind, peer, conn,
                    known, jobs>>
    BY DEF ResumeSync, http, broker
  <1>2. /\ done # <<>> /\ done' = Tail(done) /\ h.kind = "sync" /\ done \in Seq(Job)
        /\ IF h.raised THEN UNCHANGED <<wire, missed>> ELSE Write(w, h.conn, p)
    BY DEF ResumeSync, IInv, Typed
  <1>3. /\ DOMAIN done' = 1 .. Len(done) - 1 /\ DOMAIN done = 1 .. Len(done)
        /\ Len(done) \in Nat /\ Len(done) >= 1 /\ h = done[1] /\ h \in Job
        /\ \A i \in 1 .. Len(done) - 1 : done'[i] = done[i + 1]
        /\ done' \in Seq(Job)
    BY <1>2, Cut
  <1>4. w \in Watches /\ h.conn \in Nat /\ p \in Packet /\ p.type = "all" /\ p.person = h.person
    BY <1>3 DEF Job, All, Packet
  <1>5. ~h.raised => \A k \in Contacts : book[k] = w /\ k \notin p.person => k \in Due
    <2>1. 1 \in DOMAIN done
      BY <1>3
    <2> QED BY <1>2, <1>3, <1>4, <2>1 DEF IInv, Contents, Ordered, Due, Listed
  <1> HIDE DEF h, p, w
  <1>6. /\ wire' \in [Watches -> Seq(Packet)] /\ missed' \subseteq 1 .. used
        /\ missed \subseteq missed'
        /\ \A v \in Watches : v # w => wire'[v] = wire[v]
        /\ AddsIn(wire'[w]) \subseteq 1 .. used /\ AddsIn(wire[w]) \subseteq AddsIn(wire'[w])
    <2>1. CASE h.raised
      BY <1>2, <1>4, <2>1 DEF IInv, Typed, Contents, Added
    <2>2. CASE ~h.raised
      BY <1>2, <1>4, <2>2, Writes
    <2> QED BY <2>1, <2>2
  <1>7. Typed'
    BY <1>1, <1>3, <1>6 DEF IInv, Typed
  <1>8. /\ Calling' = Calling /\ Announced' = Announced /\ Held' = Held /\ InHand' = InHand
        /\ Coming \subseteq Coming'
    BY <1>1, <1>6 DEF Calling, Announced, Held, InHand, Coming
  <1>9. Due \subseteq Due'
    BY <1>8 DEF Due
  <1>10. Noted'
    BY <1>1, <1>8 DEF IInv, Contents, Noted
  <1>11. Ordered'
    BY <1>1, <1>2, <1>8, <1>9, Forward DEF h
  <1>12. InLine'
    <2>1. CASE h.raised
      BY <1>1, <1>2, <1>9, <2>1 DEF IInv, Contents, InLine
    <2>2. CASE ~h.raised
      BY <1>1, <1>2, <1>4, <1>5, <1>9, <2>2, WriteInLine
    <2> QED BY <2>1, <2>2
  <1>13. Added'
    <2> SUFFICES ASSUME NEW v \in Watches PROVE AddsIn(wire'[v]) \subseteq 1 .. used
      BY <1>1 DEF Added
    <2> QED BY <1>6 DEF IInv, Contents, Added
  <1>14. Kept'
    <2>1. \A v \in Watches : AddsIn(wire[v]) \subseteq AddsIn(wire'[v])
      BY <1>6
    <2>2. \A k \in Contacts : book[k] # None => book[k] \in Watches
      BY DEF IInv, Typed
    <2> QED BY <1>1, <1>9, <2>1, <2>2 DEF IInv, Contents, Kept
  <1>15. OneCall'
    <2>1. (Idle(done) => Idle(done')) /\ (Awaits(done) => Awaits(done'))
      BY <1>2, Dequeue DEF h
    <2> QED BY <1>1, <1>8, <2>1 DEF IInv, OneCall
  <1>16. Calls'
    <2>1. \A i \in DOMAIN done' : i + 1 \in DOMAIN done /\ done'[i] = done[i + 1]
      BY <1>3
    <2> QED BY <1>1, <1>8, <2>1 DEF IInv, Calls, CallOf
  <1> QED BY <1>7, <1>10, <1>11, <1>12, <1>13, <1>14, <1>15, <1>16 DEF IInv, Contents

LEMMA ResumeBuildKeeps ==
    ASSUME IInv, ResumeBuild
    PROVE  IInv'
  <1> DEFINE h == Head(done)
             c == listener.note.contact
             p == Add(c)
             w == h.watch
  <1>1. UNCHANGED <<book, deleted, unannounced, used, channel, redis, subscribed, blind, peer, conn, known, jobs>>
    BY DEF ResumeBuild, http, broker
  <1>2. /\ done # <<>> /\ done' = Tail(done) /\ h.kind = "build" /\ ~h.raised
        /\ done \in Seq(Job)
    BY DEF ResumeBuild, IInv, Typed
  <1>3. /\ DOMAIN done' = 1 .. Len(done) - 1 /\ DOMAIN done = 1 .. Len(done)
        /\ Len(done) \in Nat /\ Len(done) >= 1 /\ h = done[1] /\ h \in Job
        /\ \A i \in 1 .. Len(done) - 1 : done'[i] = done[i + 1]
        /\ done' \in Seq(Job)
    BY <1>2, Cut
  <1>4. /\ listener.at = "build" /\ w = listener.note.watch
        /\ h.person = {} => book[c] # listener.note.watch \/ c \in Coming
    <2>1. 1 \in DOMAIN done
      BY <1>3
    <2> QED BY <1>2, <1>3, <2>1 DEF IInv, Calls, CallOf, Vain
  <1>5. /\ listener \in Listener /\ listener.note \in Note /\ c \in 1 .. used /\ c \in Contacts
        /\ listener.note \in Held /\ book[c] \in {w, None}
    <2>1. listener.note \in Note /\ listener.note \in Held
      BY <1>4, Notes, PushAssumption DEF Held
    <2>2. c \in Contacts /\ c \in 1 .. used
      BY <2>1, Notes DEF Note
    <2> QED BY <1>4, <2>1, <2>2 DEF IInv, Contents, Noted, Typed
  <1>6. w \in Watches /\ h.conn \in Nat /\ p \in Packet /\ p.type = "add" /\ p.person = {c}
    BY <1>3, <1>5 DEF Job, Add, Packet
  <1>7. Calling /\ InHand = {listener.note} /\ Due = Coming \cup {c}
    BY <1>4, <1>5 DEF Calling, InHand, Held, Due, ContactsOf
  <1> HIDE DEF h, p, w, c
  <1>8. \/ /\ h.person = {} /\ listener' = Resting /\ UNCHANGED <<wire, missed>>
        \/ /\ h.person # {} /\ Write(w, h.conn, p) /\ listener' = [listener EXCEPT !.at = "drain"]
    BY DEF ResumeBuild, h, w, p, c
  <1>9. /\ listener' \in Listener /\ listener'.at \in {"get", "drain"}
        /\ listener'.note = None <=> listener'.at = "get"
        /\ listener'.note \in {listener.note, None}
    <2>1. Resting = [at |-> "get", note |-> None, conn |-> 0]
      BY DEF Resting
    <2>2. listener.note # None
      BY <1>5 DEF Held
    <2> QED BY <1>5, <1>8, <2>1, <2>2 DEF Listener
  <1>10. /\ ~Calling' /\ Announced' = Announced /\ Held' \subseteq Held /\ InHand' = {}
         /\ Due' = Coming'
    <2>1. ~Calling'
      BY <1>9 DEF Calling
    <2>2. InHand' = {}
      BY <2>1 DEF InHand
    <2>3. Held' \subseteq Held /\ Announced' = Announced
      BY <1>1, <1>9 DEF Held, Announced
    <2> QED BY <2>1, <2>2, <2>3 DEF Due, ContactsOf
  <1>11. /\ wire' \in [Watches -> Seq(Packet)] /\ missed' \subseteq 1 .. used
         /\ missed \subseteq missed'
         /\ \A v \in Watches : v # w => wire'[v] = wire[v]
         /\ AddsIn(wire'[w]) \subseteq 1 .. used /\ AddsIn(wire[w]) \subseteq AddsIn(wire'[w])
    <2>1. CASE h.person = {}
      BY <1>6, <1>8, <2>1 DEF IInv, Typed, Contents, Added
    <2>2. CASE h.person # {}
      BY <1>5, <1>6, <1>8, <2>2, Writes
    <2> QED BY <2>1, <2>2
  <1>12. Coming \subseteq Coming' /\ \A k \in missed' : k \in Due'
    BY <1>10, <1>11 DEF Coming
  <1>13. Typed'
    BY <1>1, <1>3, <1>9, <1>11 DEF IInv, Typed
  <1>14. Noted'
    BY <1>1, <1>10 DEF IInv, Contents, Noted
  <1>15. Ordered'
    BY <1>1, <1>2, <1>12, BuildLeaves DEF h
  <1>16. InLine'
    <2>1. CASE h.person = {}
      <3>1. book[c] = None \/ c \in Coming
        BY <1>4, <1>5, <2>1
      <3>2. \A k \in Contacts : k \in Due /\ book[k] # None => k \in Due'
        BY <1>7, <1>10, <1>12, <3>1
      <3>3. \A v \in Watches, k \in Contacts : book[k] = v => book[k] # None
        BY PushAssumption
      <3>4. wire' = wire
        BY <1>8, <2>1
      <3> QED BY <1>1, <3>2, <3>3, <3>4 DEF IInv, Contents, InLine
    <2>2. CASE h.person # {}
      <3>1. \A k \in Contacts : k \in Due /\ book[k] # None =>
              k \in Due' \/ (p.type = "add" /\ k \in p.person /\ book[k] = w)
        BY <1>5, <1>6, <1>7, <1>10, <1>12
      <3> QED BY <1>1, <1>5, <1>6, <1>8, <1>12, <2>2, <3>1, WriteInLine
    <2> QED BY <2>1, <2>2
  <1>17. Added'
    <2> SUFFICES ASSUME NEW v \in Watches PROVE AddsIn(wire'[v]) \subseteq 1 .. used
      BY <1>1 DEF Added
    <2> QED BY <1>11 DEF IInv, Contents, Added
  <1>18. Kept'
    <2>1. \A v \in Watches : AddsIn(wire[v]) \subseteq AddsIn(wire'[v])
      BY <1>11
    <2>2. \A k \in Contacts : book[k] # None => book[k] \in Watches
      BY DEF IInv, Typed
    <2>3. book[c] # None => c \in AddsIn(wire'[w]) \cup Due'
      <3>1. CASE h.person = {}
        BY <1>4, <1>5, <1>10, <1>12, <3>1
      <3>2. CASE h.person # {}
        <4>1. \/ wire'[w] = Append(wire[w], p)
              \/ p.person \subseteq missed'
          BY <1>5, <1>6, <1>8, <3>2, Writes
        <4>2. wire[w] \in Seq(Packet)
          BY <1>6 DEF IInv, Typed
        <4>3. wire'[w] = Append(wire[w], p) => c \in AddsIn(wire'[w])
          BY <1>6, <4>2, Written
        <4> QED BY <1>6, <1>12, <4>1, <4>3
      <3> QED BY <3>1, <3>2
    <2> SUFFICES ASSUME NEW k \in Contacts, book[k] # None
                 PROVE  k \in known[book[k]] \cup AddsIn(wire'[book[k]]) \cup Due'
      BY <1>1 DEF Kept
    <2>4. CASE k = c
      BY <1>5, <2>3, <2>4
    <2>5. CASE k # c
      <3>1. k \in known[book[k]] \cup AddsIn(wire[book[k]]) \cup Coming
        BY <1>7, <2>5 DEF IInv, Contents, Kept
      <3> QED BY <1>10, <1>12, <2>1, <2>2, <3>1
    <2> QED BY <2>4, <2>5
  <1>19. Idle(jobs') /\ Idle(done')
    <2>1. Awaits(done) /\ Idle(jobs)
      <3>1. ~Idle(done)
        BY <1>2, Dequeue DEF h
      <3> QED BY <1>7, <3>1 DEF IInv, OneCall
    <2> QED BY <1>1, <1>2, <2>1, Dequeue DEF h
  <1>20. OneCall'
    BY <1>9, <1>10, <1>19 DEF OneCall
  <1>21. Calls'
    BY <1>19 DEF Calls, CallOf, Idle, OfListener, Vain
  <1> QED BY <1>13, <1>14, <1>15, <1>16, <1>17, <1>18, <1>20, <1>21 DEF IInv, Contents

\* The call raised: its contact counts as missed, and the listener lets go of it.
LEMMA ResumeRaisedKeeps ==
    ASSUME IInv, ResumeRaised
    PROVE  IInv'
  <1> DEFINE h == Head(done)
             c == listener.note.contact
  <1>1. UNCHANGED <<book, deleted, unannounced, used, channel, redis, subscribed, blind, peer, conn, known,
                    wire, jobs>>
    BY DEF ResumeRaised, http, broker, watches
  <1>2. /\ done # <<>> /\ done' = Tail(done) /\ h.kind # "sync" /\ done \in Seq(Job)
        /\ listener' = [at |-> "get", note |-> None, conn |-> 0] /\ missed' = missed \cup {c}
    BY DEF ResumeRaised, Resting, IInv, Typed
  <1>3. 1 \in DOMAIN done /\ h = done[1] /\ h \in Job /\ done' \in Seq(Job)
    BY <1>2, Cut
  <1>4. listener.at = h.kind /\ h.kind \in {"lookup", "build"} /\ Calling
    BY <1>2, <1>3 DEF IInv, Calls, CallOf, Calling, Job
  <1>5. listener.note \in Note /\ listener.note \in Held /\ c \in 1 .. used
    <2>1. listener.note \in Note /\ listener.note \in Held
      BY <1>4, Notes, PushAssumption DEF Held
    <2> QED BY <2>1, Notes
  <1>6. InHand = {listener.note} /\ Due = Coming \cup {c}
    BY <1>4, <1>5 DEF InHand, Held, Due, ContactsOf
  <1>7. /\ listener' \in Listener /\ ~Calling' /\ Held' = {} /\ InHand' = {}
        /\ Announced' = Announced
    BY <1>1, <1>2 DEF Listener, Calling, Held, InHand, Announced
  <1>8. Coming' = Coming \cup {c} /\ Due' = Due
    BY <1>2, <1>6, <1>7 DEF Coming, Due, ContactsOf
  <1>9. Typed'
    BY <1>1, <1>2, <1>3, <1>5, <1>7 DEF IInv, Typed
  <1>10. Ordered'
    <2>1. CASE h.kind = "build"
      BY <1>1, <1>2, <1>8, <2>1, BuildLeaves
    <2>2. CASE h.kind # "build"
      BY <1>1, <1>2, <1>8, <2>2, Forward
    <2> QED BY <2>1, <2>2
  <1>11. Noted' /\ InLine' /\ Added' /\ Kept'
    BY <1>1, <1>7, <1>8 DEF IInv, Contents, Noted, InLine, Added, Kept
  <1>12. Idle(jobs') /\ Idle(done')
    <2>1. ~Idle(done)
      BY <1>2, Dequeue
    <2>2. Awaits(done) /\ Idle(jobs)
      BY <1>4, <2>1 DEF IInv, OneCall
    <2> QED BY <1>1, <1>2, <2>2, Dequeue
  <1>13. OneCall'
    BY <1>2, <1>7, <1>12 DEF OneCall
  <1>14. Calls'
    BY <1>12 DEF Calls, CallOf, Vain, Idle, OfListener
  <1> QED BY <1>9, <1>10, <1>11, <1>13, <1>14 DEF IInv, Contents

-----------------------------------------------------------------------------
(* The watch reads; the process starts again.                              *)

LEMMA WatchReadsKeeps ==
    ASSUME IInv, NEW w \in Watches, WatchReads(w)
    PROVE  IInv'
  <1> DEFINE s == wire[w]
             p == Head(s)
             ks == IF p.type = "add" THEN known[w] \cup p.person ELSE p.person
  <1>1. UNCHANGED <<book, deleted, unannounced, used, channel, redis, subscribed, listener, blind, peer, conn,
                    jobs, done, missed>>
    BY DEF WatchReads, http, broker, thread
  <1>2. /\ s # <<>> /\ s \in Seq(Packet) /\ AddsIn(s) \subseteq 1 .. used
        /\ wire \in [Watches -> Seq(Packet)] /\ known \in [Watches -> SUBSET Contacts]
        /\ wire' = [wire EXCEPT ![w] = Tail(s)]
    BY DEF WatchReads, IInv, Typed, Contents, Added
  <1>3. known' = [known EXCEPT ![w] = ks]
    BY DEF WatchReads
  <1>4. /\ Tail(s) \in Seq(Packet) /\ DOMAIN Tail(s) = 1 .. Len(s) - 1 /\ DOMAIN s = 1 .. Len(s)
        /\ Len(s) \in Nat /\ Len(s) >= 1 /\ p = s[1] /\ p \in Packet /\ Len(Tail(s)) = Len(s) - 1
        /\ \A i \in 1 .. Len(s) - 1 : Tail(s)[i] = s[i + 1]
    BY <1>2, Cut
  <1>5. /\ AddsIn(s) = AddsIn(Tail(s)) \cup (IF p.type = "add" THEN p.person ELSE {})
        /\ \A k : Behind(s, 1, k) => k \in AddsIn(Tail(s))
    BY <1>2, ReadOff
  <1>6. p.person \subseteq Contacts /\ p.type \in {"add", "all"} /\ ks \subseteq Contacts
    BY <1>2, <1>4 DEF Packet
  <1>7. /\ wire' \in [Watches -> Seq(Packet)] /\ known' \in [Watches -> SUBSET Contacts]
        /\ wire'[w] = Tail(s) /\ known'[w] = ks
        /\ \A v \in Watches : v # w => wire'[v] = wire[v] /\ known'[v] = known[v]
    BY <1>2, <1>3, <1>4, <1>6
  <1>8. Typed'
    BY <1>1, <1>7 DEF IInv, Typed
  <1>9. /\ Calling' = Calling /\ Announced' = Announced /\ Held' = Held /\ InHand' = InHand
        /\ Coming' = Coming
    BY <1>1 DEF Calling, Announced, Held, InHand, Coming
  <1>10. Due' = Due
    BY <1>9 DEF Due
  <1>11. Noted' /\ Ordered'
    BY <1>1, <1>9, <1>10 DEF IInv, Contents, Noted, Ordered
  <1>12. InLine'
    <2> SUFFICES ASSUME NEW v \in Watches, NEW i \in DOMAIN wire'[v], NEW k \in Contacts,
                        wire'[v][i].type = "all", book[k] = v, k \notin wire'[v][i].person
                 PROVE  k \in Due \/ Behind(wire'[v], i, k)
      BY <1>1, <1>10 DEF InLine
    <2>1. CASE v # w
      BY <1>7, <2>1 DEF IInv, Contents, InLine
    <2>2. CASE v = w
      <3>1. i + 1 \in DOMAIN s /\ Tail(s)[i] = s[i + 1] /\ i \in 1 .. Len(s) - 1
        BY <1>4, <1>7, <2>2
      <3>2. k \in Due \/ Behind(s, i + 1, k)
        BY <1>7, <2>2, <3>1 DEF IInv, Contents, InLine
      <3>3. \A m \in (i + 1) + 1 .. Len(s) :
              m - 1 \in i + 1 .. Len(Tail(s)) /\ Tail(s)[m - 1] = s[m]
        BY <1>4, <3>1
      <3>4. Behind(s, i + 1, k) => Behind(Tail(s), i, k)
        BY <3>3 DEF Behind
      <3> QED BY <1>7, <2>2, <3>2, <3>4
    <2> QED BY <2>1, <2>2
  <1>13. Added'
    <2> SUFFICES ASSUME NEW v \in Watches PROVE AddsIn(wire'[v]) \subseteq 1 .. used
      BY <1>1 DEF Added
    <2> QED BY <1>2, <1>5, <1>7 DEF IInv, Contents, Added
  <1>14. Kept'
    <2> SUFFICES ASSUME NEW k \in Contacts, book[k] # None
                 PROVE  k \in known'[book[k]] \cup AddsIn(wire'[book[k]]) \cup Due
      BY <1>1, <1>10 DEF Kept
    <2>1. k \in known[book[k]] \cup AddsIn(wire[book[k]]) \cup Due /\ book[k] \in Watches
      BY DEF IInv, Contents, Kept, Typed
    <2>2. CASE book[k] # w
      BY <1>7, <2>1, <2>2
    <2>3. CASE book[k] = w /\ p.type = "add"
      <3>1. ks = known[w] \cup p.person /\ AddsIn(s) = AddsIn(Tail(s)) \cup p.person
        BY <1>5, <2>3
      <3> QED BY <1>7, <2>1, <2>3, <3>1
    <2>4. CASE book[k] = w /\ p.type = "all"
      <3>1. ks = p.person
        BY <2>4
      <3>2. k \notin p.person => k \in Due \/ Behind(s, 1, k)
        <4>1. 1 \in DOMAIN s
          BY <1>4
        <4> QED BY <1>4, <2>4, <4>1 DEF IInv, Contents, InLine
      <3> QED BY <1>5, <1>7, <2>4, <3>1, <3>2
    <2> QED BY <1>6, <2>2, <2>3, <2>4
  <1>15. OneCall' /\ Calls'
    BY <1>1 DEF IInv, OneCall, Calling, Calls, CallOf, Coming, Announced
  <1> QED BY <1>8, <1>11, <1>12, <1>13, <1>14, <1>15 DEF IInv, Contents

\* All that the process held is missed.
LEMMA RestartKeeps ==
    ASSUME IInv, Restart
    PROVE  IInv'
  <1>1. UNCHANGED <<book, deleted, unannounced, used, redis, conn, known>>
    BY DEF Restart, http
  <1>2. /\ listener' = Starting /\ channel' = <<>> /\ subscribed' = FALSE
        /\ jobs' = <<>> /\ done' = <<>>
        /\ peer' = [w \in Watches |-> "none"] /\ wire' = [w \in Watches |-> <<>>]
        /\ missed' = missed \cup InMemory /\ blind' = FALSE
    BY DEF Restart
  <1>3. Starting = [at |-> "start", note |-> None, conn |-> 0]
    BY DEF Starting, Resting
  <1>4. /\ ToSet(channel') = {} /\ \A w \in Watches : AddsIn(wire'[w]) = {} /\ wire'[w] = <<>>
    BY <1>2 DEF ToSet, AddsIn
  <1>5. InMemory \subseteq 1 .. used
    <2>1. ContactsOf(ToSet(channel) \cup Held) \subseteq 1 .. used
      BY Notes DEF Announced, ContactsOf
    <2>2. \A w \in Watches : AddsIn(wire[w]) \subseteq 1 .. used
      BY DEF IInv, Contents, Added
    <2> QED BY <2>1, <2>2 DEF InMemory, Held
  <1>6. Typed'
    <2>1. listener' \in Listener
      BY <1>2, <1>3 DEF Listener
    <2>2. /\ channel' \in Seq(Note) /\ jobs' \in Seq(Job) /\ done' \in Seq(Job)
          /\ wire' \in [Watches -> Seq(Packet)]
      BY <1>2
    <2>3. peer' \in [Watches -> {"none", "reading", "stalled", "gone"}]
      BY <1>2
    <2>4. missed' \subseteq 1 .. used
      BY <1>2, <1>5 DEF IInv, Typed
    <2> QED BY <1>1, <1>2, <2>1, <2>2, <2>3, <2>4 DEF IInv, Typed
  <1>7. ~Calling' /\ Held' = {} /\ InHand' = {} /\ Announced' = unannounced
    BY <1>1, <1>2, <1>3, <1>4 DEF Calling, Held, InHand, Announced
  <1>8. Idle(jobs') /\ Idle(done')
    BY <1>2 DEF Idle, OfListener
  <1>9. OneCall' /\ Calls'
    BY <1>2, <1>3, <1>7, <1>8 DEF OneCall, Calls
  <1>10. Noted'
    BY <1>1, <1>7 DEF IInv, Contents, Noted, Announced
  <1>11. Ordered' /\ InLine' /\ Added'
    BY <1>2, <1>4 DEF Ordered, InLine, Added
  <1>12. Due' = ContactsOf(unannounced) \cup missed \cup InMemory
    BY <1>1, <1>2, <1>7 DEF Due, Coming, ContactsOf
  <1>13. Due \subseteq ContactsOf(unannounced) \cup missed \cup InMemory
    BY DEF Due, Coming, Announced, InHand, Held, ContactsOf, InMemory
  <1>14. \A w \in Watches : AddsIn(wire[w]) \subseteq InMemory
    BY DEF InMemory
  <1>15. Kept'
    <2> SUFFICES ASSUME NEW k \in Contacts, book[k] # None
                 PROVE  k \in known[book[k]] \cup Due'
      BY <1>1 DEF Kept
    <2>1. k \in known[book[k]] \cup AddsIn(wire[book[k]]) \cup Due /\ book[k] \in Watches
      BY DEF IInv, Contents, Kept, Typed
    <2> QED BY <1>12, <1>13, <1>14, <2>1
  <1> QED BY <1>6, <1>9, <1>10, <1>11, <1>15 DEF IInv, Contents

-----------------------------------------------------------------------------
(* The invariant.                                                          *)

LEMMA InitInv == Init => IInv
  <1> SUFFICES ASSUME Init PROVE IInv
    OBVIOUS
  <1>1. /\ book = [k \in Contacts |-> None] /\ unannounced = {} /\ used = 0 /\ channel = <<>>
        /\ jobs = <<>> /\ done = <<>> /\ wire = [w \in Watches |-> <<>>] /\ missed = {}
        /\ listener = [at |-> "start", note |-> None, conn |-> 0] /\ deleted = [k \in Contacts |-> None]
    <2>1. listener = [at |-> "start", note |-> None, conn |-> 0]
      BY DEF Init, Starting, Resting
    <2> QED BY <2>1 DEF Init, Feed!Init, Feed!Contacts, Contacts
  <1>2. Typed
    <2>1. listener \in Listener
      BY <1>1 DEF Listener
    <2>2. channel \in Seq(Note) /\ jobs \in Seq(Job) /\ done \in Seq(Job)
      BY <1>1
    <2>3. wire \in [Watches -> Seq(Packet)]
      BY <1>1
    <2>4. /\ book \in [Contacts -> Watches \cup {None}] /\ used \in 0 .. MaxContacts
          /\ deleted \in [Contacts -> Watches \cup {None}]
      BY <1>1, PushAssumption
    <2> QED BY <1>1, <2>1, <2>2, <2>3, <2>4 DEF Init, Typed
  <1>3. Idle(jobs) /\ Idle(done) /\ ~Calling
    BY <1>1 DEF Idle, OfListener, Calling
  <1>4. OneCall /\ Calls
    BY <1>1, <1>3 DEF OneCall, Calls
  <1>5. Announced = {} /\ Held = {}
    BY <1>1 DEF Announced, Held, ToSet
  <1>6. Noted /\ Ordered /\ InLine
    BY <1>1, <1>5 DEF Noted, Ordered, InLine
  <1>7. Added /\ Kept
    BY <1>1 DEF Added, Kept, AddsIn
  <1> QED BY <1>2, <1>4, <1>6, <1>7 DEF IInv, Contents

LEMMA NextInv == IInv /\ [Next]_vars => IInv'
  <1> SUFFICES ASSUME IInv, [Next]_vars PROVE IInv'
    OBVIOUS
  <1>1. CASE Loop
    BY <1>1, QuietKeeps, GetMessageKeeps, ResumeLookupKeeps, ResumeBuildKeeps, ResumeRaisedKeeps,
       ResumeSyncKeeps DEF Loop
  <1>2. CASE RunJob \/ JobRaises \/ Restart \/ RedisDown \/ RedisUp
    BY <1>2, RunJobKeeps, RestartKeeps, RedisDownKeeps, QuietKeeps
  <1>3. CASE \E n \in unannounced : Publish(n) \/ WorkerDies(n)
    BY <1>3, PublishKeeps, WorkerDiesKeeps
  <1>4. CASE \E k \in Contacts : Delete(k) \/ SaveAgain(k)
    BY <1>4, DeleteKeeps, SaveAgainKeeps
  <1>5. ASSUME NEW w \in Watches,
               \/ Login(w) \/ WatchReads(w) \/ Stall(w) \/ Recover(w)
               \/ Lose(w) \/ Notice(w) \/ AskAll(w) \/ Insert(w)
        PROVE  IInv'
    BY <1>5, QuietKeeps, WatchReadsKeeps, LoseKeeps, AskAllKeeps, InsertKeeps
  <1>6. CASE UNCHANGED vars
    <2>1. UNCHANGED <<book, deleted, unannounced, used, redis, channel, subscribed, listener, peer, conn, wire,
                      known, jobs, done, missed, blind>>
      BY <1>6 DEF vars, http, broker, watches, thread
    <2>2. Typed'
      BY <2>1 DEF IInv, Typed
    <2>3. Announced' = Announced /\ Coming' = Coming
      BY <2>1 DEF Announced, Coming
    <2> QED BY <2>1, <2>2, <2>3, Still
  <1> QED BY <1>1, <1>2, <1>3, <1>4, <1>5, <1>6 DEF Next

\* The order of lists and pushes, in the results and on the wires, is kept by every step
\* of the workers, Redis, the listener, the thread and the watches.
THEOREM Inductive == Spec => []IInv
  BY InitInv, NextInv, PTL DEF Spec

\* Every variable of the push keeps its type, and the listener waits for exactly one call.
THEOREM TypeCorrect == Spec => []TypeOK
  <1>1. IInv => TypeOK
    BY DEF IInv, Typed, OneCall, Calling, Listener, TypeOK
  <1> QED BY <1>1, Inductive, PTL

\* A contact in the book is known to its watch, on its way, or was lost where the code
\* loses it, or was deleted and put back by a save; no list that the watch asks for takes
\* back what a push has brought.
THEOREM NothingIsForgotten == Spec => []NothingForgotten
  <1>1. IInv => NothingForgotten
    <2> SUFFICES ASSUME IInv, NEW k \in Contacts, book[k] # None
                 PROVE  k \in known[book[k]] \cup Announcing \cup missed
      BY DEF NothingForgotten
    <2>1. k \in known[book[k]] \cup AddsIn(wire[book[k]]) \cup Due /\ book[k] \in Watches
      BY DEF IInv, Contents, Kept, Typed
    <2>2. \A w \in Watches : AddsIn(wire[w]) \subseteq InMemory
      BY DEF InMemory
    <2>3. Due \subseteq ContactsOf(unannounced) \cup missed \cup InMemory
      BY DEF Due, Coming, Announced, InHand, Held, ContactsOf, InMemory
    <2> QED BY <2>1, <2>2, <2>3 DEF Announcing
  <1> QED BY <1>1, Inductive, PTL

-----------------------------------------------------------------------------
(* What a watch holds is of its own book and is not taken back: a list     *)
(* lacks, of what is in the book, only contacts that are new to the watch  *)
(* when it comes to be read.                                               *)

Own(w, k) == k <= used /\ Lasting[k] \in {w, None}

OwnOnly ==
    /\ \A i \in DOMAIN done : \A k \in done[i].person : Own(done[i].watch, k)
    /\ \A w \in Watches : \A i \in DOMAIN wire[w] : \A k \in wire[w][i].person : Own(w, k)
    /\ \A w \in Watches : \A k \in known[w] : Own(w, k)

BuiltInHand ==
    \A i \in DOMAIN done : done[i].kind = "build" => done[i].person \subseteq {listener.note.contact}

\* A list among the results is read after what is on the wire and after earlier results, ...
NewToResults ==
    \A w \in Watches, k \in Contacts, j \in DOMAIN done :
        Lasting[k] = w /\ Listed(done[j]) /\ done[j].watch = w /\ k \notin done[j].person =>
            /\ k \notin known[w]
            /\ \A i \in DOMAIN wire[w] : k \notin wire[w][i].person
            /\ \A i \in 1 .. j - 1 : done[i].watch = w => k \notin done[i].person

\* ... and one on the wire after the packets before it.
NewToPackets ==
    \A w \in Watches, k \in Contacts : \A j \in DOMAIN wire[w] :
        Lasting[k] = w /\ wire[w][j].type = "all" /\ k \notin wire[w][j].person =>
            /\ k \notin known[w]
            /\ \A i \in 1 .. j - 1 : k \notin wire[w][i].person

NeverBack == OwnOnly /\ BuiltInHand /\ NewToResults /\ NewToPackets

LEMMA Elements ==
    ASSUME Typed
    PROVE  /\ \A i \in DOMAIN done : done[i].watch \in Watches /\ done[i].person \subseteq Contacts
           /\ \A w \in Watches : \A i \in DOMAIN wire[w] : wire[w][i].person \subseteq Contacts
  <1>1. \A i \in DOMAIN done : done[i] \in Job
    <2>1. done \in Seq(Job)
      BY DEF Typed
    <2> QED BY <2>1
  <1>2. ASSUME NEW w \in Watches PROVE \A i \in DOMAIN wire[w] : wire[w][i] \in Packet
    <2>1. wire[w] \in Seq(Packet)
      BY DEF Typed
    <2> QED BY <2>1
  <1> QED BY <1>1, <1>2 DEF Job, Packet

\* A contact that was once deleted does not count any more.
LEMMA LastingBook ==
    ASSUME Typed
    PROVE  /\ Lasting \in [Contacts -> Watches \cup {None}]
           /\ \A k \in Contacts : /\ Lasting[k] \in {book[k], None}
                                  /\ deleted[k] = None => Lasting[k] = book[k]
  BY DEF Typed, Lasting

\* A step that adds no contact, no result and no packet.
LEMMA NothingNew ==
    ASSUME NeverBack, UNCHANGED <<used, known>>,
           \A k \in Contacts : Lasting'[k] \in {Lasting[k], None},
           Typed,
           done' \in {done, <<>>}, \A w \in Watches : wire'[w] \in {wire[w], <<>>},
           listener'.note = listener.note \/ Idle(done')
    PROVE  NeverBack'
  <1>1. \A k \in Contacts, w \in Watches : Lasting'[k] = w => Lasting[k] = w
    BY PushAssumption
  <1>2. \A w \in Watches : known[w] \subseteq Contacts
    BY DEF Typed
  <1>3. \A w \in Watches, k \in Contacts : Own(w, k) => Own(w, k)'
    BY DEF Own
  <1>4. OwnOnly'
    BY <1>2, <1>3, Elements DEF NeverBack, OwnOnly
  <1>5. BuiltInHand'
    BY DEF NeverBack, BuiltInHand, Idle, OfListener
  <1>6. NewToResults'
    BY <1>1 DEF NeverBack, NewToResults
  <1>7. NewToPackets'
    BY <1>1 DEF NeverBack, NewToPackets
  <1> QED BY <1>4, <1>5, <1>6, <1>7 DEF NeverBack

LEMMA InsertNeverBack ==
    ASSUME IInv, NeverBack, NEW w \in Watches, Insert(w)
    PROVE  /\ NeverBack'
           /\ used' = used + 1 /\ used' \in Contacts /\ used \in Nat /\ known' = known
           /\ Lasting' = [Lasting EXCEPT ![used'] = w] /\ Lasting[used'] = None
           /\ \A v \in Watches : \A k \in known[v] : k \in Contacts /\ k # used'
  <1>0. Typed
    BY DEF IInv
  <1>1. /\ UNCHANGED <<done, wire, known, listener>>
        /\ used' = used + 1 /\ used' \in Contacts /\ used \in Nat
        /\ book' = [book EXCEPT ![used'] = w] /\ deleted' = deleted
    BY <1>0, PushAssumption DEF Insert, Feed!Insert, watches, thread, Typed, Contacts
  <1>14. book[used + 1] = None /\ deleted[used + 1] = None
    BY <1>1 DEF IInv, Contents, Noted
  <1>15. Lasting' = [Lasting EXCEPT ![used'] = w]
    BY <1>0, <1>1, <1>14 DEF Lasting, Typed
  <1>2. /\ Lasting' \in [Contacts -> Watches \cup {None}] /\ Lasting[used + 1] = None
        /\ Lasting'[used + 1] = w /\ \A k \in Contacts : k # used + 1 => Lasting'[k] = Lasting[k]
    <2>1. Lasting \in [Contacts -> Watches \cup {None}] /\ Lasting[used + 1] = None
      BY <1>0, <1>1, <1>14, LastingBook
    <2> QED BY <1>1, <1>15, <2>1
  <1>3. \A k \in Contacts : k <= used => k # used + 1
    BY <1>1 DEF Contacts
  <1>4. \A v \in Watches, k \in Contacts : Own(v, k) => Own(v, k)' /\ k # used + 1
    BY <1>1, <1>2, <1>3 DEF Own, Contacts
  <1>5. \A v \in Watches : known[v] \subseteq Contacts
    BY <1>0 DEF Typed
  <1>6. OwnOnly'
    BY <1>0, <1>1, <1>4, <1>5, Elements DEF NeverBack, OwnOnly
  <1>7. BuiltInHand'
    BY <1>1 DEF NeverBack, BuiltInHand
  <1>8. \A v \in Watches, k \in Contacts : Lasting'[k] = v /\ k # used + 1 => Lasting[k] = v
    BY <1>2
  <1>9. /\ \A i \in DOMAIN done : used + 1 \notin done[i].person
        /\ \A v \in Watches : \A i \in DOMAIN wire[v] : used + 1 \notin wire[v][i].person
        /\ \A v \in Watches : used + 1 \notin known[v]
    BY <1>0, <1>1, <1>4, <1>5, Elements DEF NeverBack, OwnOnly
  <1>10. \A j \in DOMAIN done : \A i \in 1 .. j - 1 : i \in DOMAIN done
    BY <1>0 DEF Typed
  <1>11. \A v \in Watches : \A j \in DOMAIN wire[v] : \A i \in 1 .. j - 1 : i \in DOMAIN wire[v]
    <2> TAKE v \in Watches
    <2>1. wire[v] \in Seq(Packet)
      BY <1>0 DEF Typed
    <2> QED BY <2>1
  <1>12. NewToResults'
    BY <1>1, <1>8, <1>9, <1>10 DEF NeverBack, NewToResults
  <1>13. NewToPackets'
    BY <1>1, <1>8, <1>9, <1>11 DEF NeverBack, NewToPackets
  <1> QED BY <1>1, <1>2, <1>5, <1>6, <1>7, <1>9, <1>12, <1>13, <1>15 DEF NeverBack

\* The thread finishes a job: what it finds is of the job's watch, and a list of all
\* lacks nothing of the book.
LEMMA RunJobNeverBack ==
    ASSUME IInv, NeverBack, RunJob \/ JobRaises
    PROVE  NeverBack'
  <1> DEFINE h == Head(jobs)
  <1>r. PICK r : Result(h, r) /\ done' = Append(done, r)
    BY DEF RunJob, JobRaises, Finish, Result
  <1>1. /\ UNCHANGED <<Lasting, used, listener, wire, known>> /\ jobs # <<>>
        /\ done' = Append(done, r) /\ jobs \in Seq(Job) /\ done \in Seq(Job)
    BY <1>r DEF RunJob, JobRaises, http, watches, IInv, Typed, Lasting
  <1>2. /\ h \in Job /\ h = jobs[1] /\ 1 \in DOMAIN jobs
        /\ h.kind = "build" => h.person = {listener.note.contact}
    BY <1>1, Cut DEF IInv, Calls
  <1>3. /\ r \in Job /\ r.kind = h.kind /\ r.watch = h.watch /\ r.watch \in Watches
        /\ r.person \subseteq Selected(h) /\ (Listed(r) => r.person = Selected(h))
    BY <1>r, <1>2 DEF Job, Selected, Result, Listed
  <1>4. \A k \in r.person : k \in Contacts /\ Own(r.watch, k)
    <2>1. \A k \in r.person : k \in Contacts /\ book[k] = r.watch
      BY <1>3 DEF Selected
    <2>2. r.watch # None
      BY <1>3, PushAssumption
    <2>3. \A k \in r.person : k <= used /\ Lasting[k] \in {book[k], None}
      BY <2>1, <2>2, LastingBook DEF IInv, Contents, Noted
    <2> QED BY <2>1, <2>3 DEF Own
  <1>5. r.kind = "build" => r.person \subseteq {listener.note.contact}
    BY <1>2, <1>3 DEF Selected
  <1>6. Listed(r) => \A k \in Contacts : Lasting[k] = r.watch => k \in r.person
    <2>1. r.watch # None
      BY <1>3, PushAssumption
    <2>2. \A k \in Contacts : Lasting[k] \in {book[k], None}
      BY LastingBook DEF IInv
    <2> QED BY <1>3, <2>1, <2>2 DEF Selected, Listed
  <1> HIDE DEF h
  <1>7. /\ DOMAIN done' = 1 .. Len(done) + 1 /\ DOMAIN done = 1 .. Len(done) /\ Len(done) \in Nat
        /\ \A i \in 1 .. Len(done) : done'[i] = done[i]
        /\ done'[Len(done) + 1] = r
    BY <1>1, <1>3, Appended
  <1>8. \A w \in Watches, k \in Contacts : Own(w, k)' <=> Own(w, k)
    BY <1>1 DEF Own
  <1>9. OwnOnly'
    <2>1. ASSUME NEW i \in DOMAIN done'
          PROVE  \A k \in done'[i].person : Own(done'[i].watch, k)
      <3>1. CASE i = Len(done) + 1
        BY <1>4, <1>7, <3>1
      <3>2. CASE i # Len(done) + 1
        <4>1. i \in DOMAIN done /\ done'[i] = done[i]
          BY <1>7, <3>2
        <4> QED BY <4>1 DEF NeverBack, OwnOnly
      <3> QED BY <3>1, <3>2
    <2>3. \A w \in Watches : \A i \in DOMAIN wire'[w] : \A k \in wire'[w][i].person : Own(w, k)'
      BY <1>1, <1>8, Elements DEF NeverBack, OwnOnly, IInv
    <2>4. \A w \in Watches : \A k \in known'[w] : Own(w, k)'
      BY <1>1, <1>8 DEF NeverBack, OwnOnly, IInv, Typed
    <2> QED BY <1>1, <2>1, <2>3, <2>4 DEF OwnOnly, Own
  <1>10. BuiltInHand'
    BY <1>1, <1>5, <1>7 DEF NeverBack, BuiltInHand
  <1>11. NewToResults'
    <2> SUFFICES ASSUME NEW w \in Watches, NEW k \in Contacts, NEW j \in DOMAIN done',
                        Lasting[k] = w, Listed(done'[j]), done'[j].watch = w,
                        k \notin done'[j].person
                 PROVE  /\ k \notin known[w]
                        /\ \A i \in DOMAIN wire[w] : k \notin wire[w][i].person
                        /\ \A i \in 1 .. j - 1 : done'[i].watch = w => k \notin done'[i].person
      BY <1>1 DEF NewToResults
    <2>1. j # Len(done) + 1
      BY <1>6, <1>7
    <2>2. j \in DOMAIN done /\ done'[j] = done[j] /\ \A i \in 1 .. j - 1 : done'[i] = done[i]
      BY <1>7, <2>1
    <2> QED BY <2>2 DEF NeverBack, NewToResults
  <1>12. NewToPackets'
    BY <1>1 DEF NeverBack, NewToPackets
  <1> QED BY <1>9, <1>10, <1>11, <1>12 DEF NeverBack

\* A result is taken, and p is what is written of it, to its watch or to nobody.
LEMMA ResumedNeverBack ==
    ASSUME Typed, NeverBack, UNCHANGED <<Lasting, used, known>>,
           done # <<>>, done' = Tail(done),
           NEW p \in Packet, p.person = Head(done).person,
           p.type = "all" => Listed(Head(done)),
           \A w \in Watches : \/ wire'[w] = wire[w]
                              \/ w = Head(done).watch /\ wire'[w] = Append(wire[w], p),
           listener'.note = listener.note \/ Idle(done')
    PROVE  NeverBack'
  <1> DEFINE h == Head(done)
  <1>1. /\ DOMAIN done' = 1 .. Len(done) - 1 /\ DOMAIN done = 1 .. Len(done)
        /\ Len(done) \in Nat /\ Len(done) >= 1
        /\ \A i \in 1 .. Len(done) - 1 : done'[i] = done[i + 1]
        /\ h = done[1] /\ 1 \in DOMAIN done
    BY Cut DEF Typed
  <1> HIDE DEF h
  <1>2. \A i \in DOMAIN done' : i + 1 \in DOMAIN done /\ done'[i] = done[i + 1]
    BY <1>1
  <1>3. ASSUME NEW w \in Watches
        PROVE  /\ DOMAIN wire[w] = 1 .. Len(wire[w]) /\ Len(wire[w]) \in Nat
               /\ \/ wire'[w] = wire[w]
                  \/ /\ w = h.watch
                     /\ DOMAIN wire'[w] = 1 .. Len(wire[w]) + 1
                     /\ \A i \in 1 .. Len(wire[w]) : wire'[w][i] = wire[w][i]
                     /\ wire'[w][Len(wire[w]) + 1] = p
    <2>1. wire[w] \in Seq(Packet)
      BY DEF Typed
    <2>2. /\ DOMAIN wire[w] = 1 .. Len(wire[w]) /\ Len(wire[w]) \in Nat
      BY <2>1
    <2>3. CASE wire'[w] = wire[w]
      BY <2>2, <2>3
    <2>4. CASE w = h.watch /\ wire'[w] = Append(wire[w], p)
      BY <2>1, <2>4, Appended
    <2> QED BY <2>3, <2>4 DEF h
  <1>4. ASSUME NEW w \in Watches, NEW i \in DOMAIN wire'[w]
        PROVE  \/ i \in DOMAIN wire[w] /\ wire'[w][i] = wire[w][i]
               \/ /\ w = h.watch /\ i = Len(wire[w]) + 1 /\ wire'[w][i] = p
                  /\ \A m \in 1 .. i - 1 : m \in DOMAIN wire[w] /\ wire'[w][m] = wire[w][m]
    <2>1. CASE wire'[w] = wire[w]
      BY <2>1
    <2>2. CASE wire'[w] # wire[w] /\ i = Len(wire[w]) + 1
      BY <1>3, <2>2
    <2>3. CASE wire'[w] # wire[w] /\ i # Len(wire[w]) + 1
      <3>1. i \in 1 .. Len(wire[w])
        BY <1>3, <2>3
      <3> QED BY <1>3, <2>3, <3>1
    <2> QED BY <2>1, <2>2, <2>3
  <1>5. ASSUME NEW w \in Watches, NEW i \in DOMAIN wire[w]
        PROVE  \A m \in 1 .. i - 1 : wire'[w][m] = wire[w][m]
    <2>1. \A m \in 1 .. i - 1 : m \in 1 .. Len(wire[w])
      BY <1>3
    <2> QED BY <1>3, <2>1
  <1>6. h.watch \in Watches /\ p.person = h.person /\ p.person \subseteq Contacts
        /\ \A k \in p.person : Own(h.watch, k)
    BY <1>1, Elements DEF h, NeverBack, OwnOnly
  <1>7. \A w \in Watches, k \in Contacts : Own(w, k)' <=> Own(w, k)
    BY DEF Own
  <1>8. OwnOnly'
    <2>2. \A i \in DOMAIN done' : \A k \in done'[i].person : Own(done'[i].watch, k)
      BY <1>2 DEF NeverBack, OwnOnly
    <2>3. ASSUME NEW w \in Watches, NEW i \in DOMAIN wire'[w]
          PROVE  \A k \in wire'[w][i].person : Own(w, k)'
      <3>1. CASE i \in DOMAIN wire[w] /\ wire'[w][i] = wire[w][i]
        BY <1>7, <3>1, Elements DEF NeverBack, OwnOnly
      <3>2. CASE w = h.watch /\ wire'[w][i] = p
        BY <1>6, <1>7, <3>2
      <3> QED BY <1>4, <3>1, <3>2
    <2>4. \A w \in Watches : \A k \in known'[w] : Own(w, k)'
      BY <1>7 DEF NeverBack, OwnOnly, Typed
    <2> QED BY <2>2, <2>3, <2>4 DEF OwnOnly, Own
  <1>9. BuiltInHand'
    BY <1>2 DEF NeverBack, BuiltInHand, Idle, OfListener
  <1>10. NewToResults'
    <2> SUFFICES ASSUME NEW w \in Watches, NEW k \in Contacts, NEW j \in DOMAIN done',
                        Lasting[k] = w, Listed(done'[j]), done'[j].watch = w,
                        k \notin done'[j].person
                 PROVE  /\ k \notin known[w]
                        /\ \A i \in DOMAIN wire'[w] : k \notin wire'[w][i].person
                        /\ \A i \in 1 .. j - 1 : done'[i].watch = w => k \notin done'[i].person
      BY DEF NewToResults
    <2>1. j + 1 \in DOMAIN done /\ done'[j] = done[j + 1]
      BY <1>2
    <2>2. /\ k \notin known[w]
          /\ \A i \in DOMAIN wire[w] : k \notin wire[w][i].person
          /\ \A i \in 1 .. (j + 1) - 1 : done[i].watch = w => k \notin done[i].person
      BY <2>1 DEF NeverBack, NewToResults
    <2>3. 1 \in 1 .. (j + 1) - 1 /\ \A i \in 1 .. j - 1 : i + 1 \in 1 .. (j + 1) - 1 /\ i \in DOMAIN done'
      BY <1>1
    <2>4. w = h.watch => k \notin p.person
      BY <1>1, <1>6, <2>2, <2>3
    <2>5. \A i \in DOMAIN wire'[w] : k \notin wire'[w][i].person
      BY <1>4, <2>2, <2>4
    <2>6. \A i \in 1 .. j - 1 : done'[i].watch = w => k \notin done'[i].person
      BY <1>2, <2>2, <2>3
    <2> QED BY <2>2, <2>5, <2>6
  <1>11. NewToPackets'
    <2> SUFFICES ASSUME NEW w \in Watches, NEW k \in Contacts, NEW j \in DOMAIN wire'[w],
                        Lasting[k] = w, wire'[w][j].type = "all", k \notin wire'[w][j].person
                 PROVE  /\ k \notin known[w]
                        /\ \A i \in 1 .. j - 1 : k \notin wire'[w][i].person
      BY DEF NewToPackets
    <2>1. CASE j \in DOMAIN wire[w] /\ wire'[w][j] = wire[w][j]
      <3>1. \A i \in 1 .. j - 1 : wire'[w][i] = wire[w][i]
        BY <1>5, <2>1
      <3> QED BY <2>1, <3>1 DEF NeverBack, NewToPackets
    <2>2. CASE /\ w = h.watch /\ wire'[w][j] = p
               /\ \A m \in 1 .. j - 1 : m \in DOMAIN wire[w] /\ wire'[w][m] = wire[w][m]
      <3>1. Listed(h) /\ k \notin h.person
        BY <1>6, <2>2 DEF h
      <3>2. k \notin known[w] /\ \A i \in DOMAIN wire[w] : k \notin wire[w][i].person
        BY <1>1, <2>2, <3>1 DEF NeverBack, NewToResults
      <3> QED BY <2>2, <3>2
    <2> QED BY <1>4, <2>1, <2>2
  <1> QED BY <1>8, <1>9, <1>10, <1>11 DEF NeverBack

LEMMA WatchReadsNeverBack ==
    ASSUME Typed, NeverBack, NEW w \in Watches, WatchReads(w)
    PROVE  /\ NeverBack'
           /\ \E ks \in SUBSET Contacts :
                 /\ ks \subseteq {k \in Contacts : Lasting[k] = w}
                 /\ {k \in known'[w] : Lasting[k] # None} = {k \in known[w] : Lasting[k] # None} \cup ks
                 /\ \A v \in Watches : v # w => known'[v] = known[v]
  <1> DEFINE s == wire[w]
             p == Head(s)
             ks == {k \in p.person : Lasting[k] # None}
  <1>1. UNCHANGED <<Lasting, used, done, listener>>
    BY DEF WatchReads, http, thread, Lasting
  <1>2. /\ DOMAIN Tail(s) = 1 .. Len(s) - 1 /\ DOMAIN s = 1 .. Len(s)
        /\ Len(s) \in Nat /\ Len(s) >= 1 /\ p = s[1] /\ 1 \in DOMAIN s
        /\ \A i \in 1 .. Len(s) - 1 : Tail(s)[i] = s[i + 1]
        /\ p.person \subseteq Contacts /\ p.type \in {"add", "all"}
    <2>1. s \in Seq(Packet) /\ s # <<>>
      BY DEF Typed, WatchReads
    <2>2. p \in Packet
      BY <2>1, Cut
    <2> QED BY <2>1, <2>2, Cut DEF Packet
  <1>3. /\ wire'[w] = Tail(s) /\ \A v \in Watches : v # w => wire'[v] = wire[v] /\ known'[v] = known[v]
        /\ known'[w] = IF p.type = "add" THEN known[w] \cup p.person ELSE p.person
    BY DEF WatchReads, Typed
  <1> HIDE DEF p, s
  <1>4. \A k \in p.person : Own(w, k)
    BY <1>2 DEF NeverBack, OwnOnly, s
  <1>5. \A k \in known[w] : k \in Contacts /\ Own(w, k)
    BY DEF NeverBack, OwnOnly, Typed
  <1>6. p.type = "all" => \A k \in Contacts : Lasting[k] = w /\ k \notin p.person => k \notin known[w]
    BY <1>2 DEF NeverBack, NewToPackets, s
  <1>7. \A i \in DOMAIN Tail(s) : i + 1 \in DOMAIN s /\ Tail(s)[i] = s[i + 1]
    BY <1>2
  <1>8. known'[w] \subseteq known[w] \cup p.person
    BY <1>3
  <1>9. \A v \in Watches, k \in Contacts : Own(v, k)' <=> Own(v, k)
    BY <1>1 DEF Own
  <1>10. OwnOnly'
    <2>2. \A i \in DOMAIN done' : \A k \in done'[i].person : Own(done'[i].watch, k)
      BY <1>1 DEF NeverBack, OwnOnly
    <2>3. ASSUME NEW v \in Watches, NEW i \in DOMAIN wire'[v]
          PROVE  \A k \in wire'[v][i].person : Own(v, k)'
      <3>1. \E m \in DOMAIN wire[v] : wire'[v][i] = wire[v][m]
        BY <1>3, <1>7 DEF s
      <3> QED BY <1>9, <3>1, Elements DEF NeverBack, OwnOnly
    <2>4. ASSUME NEW v \in Watches PROVE \A k \in known'[v] : Own(v, k)'
      <3>1. CASE v = w
        BY <1>2, <1>4, <1>5, <1>8, <1>9, <3>1
      <3>2. CASE v # w
        BY <1>3, <1>9, <3>2 DEF NeverBack, OwnOnly, Typed
      <3> QED BY <3>1, <3>2
    <2> QED BY <1>1, <2>2, <2>3, <2>4 DEF OwnOnly, Own
  <1>11. BuiltInHand'
    BY <1>1 DEF NeverBack, BuiltInHand
  <1>12. NewToResults'
    <2> SUFFICES ASSUME NEW v \in Watches, NEW k \in Contacts, NEW j \in DOMAIN done,
                        Lasting[k] = v, Listed(done[j]), done[j].watch = v,
                        k \notin done[j].person
                 PROVE  /\ k \notin known'[v]
                        /\ \A i \in DOMAIN wire'[v] : k \notin wire'[v][i].person
                        /\ \A i \in 1 .. j - 1 : done[i].watch = v => k \notin done[i].person
      BY <1>1 DEF NewToResults
    <2>1. /\ k \notin known[v]
          /\ \A i \in DOMAIN wire[v] : k \notin wire[v][i].person
          /\ \A i \in 1 .. j - 1 : done[i].watch = v => k \notin done[i].person
      BY DEF NeverBack, NewToResults
    <2>2. CASE v = w
      <3>1. k \notin p.person
        BY <1>2, <2>1, <2>2 DEF s
      <3>2. \A i \in DOMAIN wire'[w] : k \notin wire'[w][i].person
        BY <1>3, <1>7, <2>1, <2>2 DEF s
      <3> QED BY <1>8, <2>1, <2>2, <3>1, <3>2
    <2>3. CASE v # w
      BY <1>3, <2>1, <2>3
    <2> QED BY <2>2, <2>3
  <1>13. NewToPackets'
    <2> SUFFICES ASSUME NEW v \in Watches, NEW k \in Contacts, NEW j \in DOMAIN wire'[v],
                        Lasting[k] = v, wire'[v][j].type = "all", k \notin wire'[v][j].person
                 PROVE  /\ k \notin known'[v]
                        /\ \A i \in 1 .. j - 1 : k \notin wire'[v][i].person
      BY <1>1 DEF NewToPackets
    <2>1. CASE v = w
      <3>1. j + 1 \in DOMAIN s /\ wire'[w][j] = s[j + 1]
        BY <1>3, <1>7, <2>1
      <3>2. k \notin known[w] /\ \A i \in 1 .. (j + 1) - 1 : k \notin s[i].person
        BY <2>1, <3>1 DEF NeverBack, NewToPackets, s
      <3>3. 1 \in 1 .. (j + 1) - 1 /\ \A i \in 1 .. j - 1 : i + 1 \in 1 .. (j + 1) - 1 /\ i \in DOMAIN Tail(s)
        BY <1>2, <1>3, <2>1
      <3>4. k \notin p.person
        BY <1>2, <3>2, <3>3
      <3>5. \A i \in 1 .. j - 1 : k \notin wire'[w][i].person
        BY <1>3, <1>7, <3>2, <3>3
      <3> QED BY <1>8, <2>1, <3>2, <3>4, <3>5
    <2>2. CASE v # w
      BY <1>3, <2>2 DEF NeverBack, NewToPackets
    <2> QED BY <2>1, <2>2
  <1>14. ks \in SUBSET Contacts /\ ks \subseteq {k \in Contacts : Lasting[k] = w}
    BY <1>2, <1>4 DEF Own
  <1>15. {k \in known'[w] : Lasting[k] # None} = {k \in known[w] : Lasting[k] # None} \cup ks
    <2>1. CASE p.type = "add"
      BY <1>3, <2>1
    <2>2. CASE p.type = "all"
      <3>1. \A k \in known[w] : Lasting[k] # None => k \in p.person
        BY <1>5, <1>6, <2>2 DEF Own
      <3> QED BY <1>3, <2>2, <3>1
    <2> QED BY <1>2, <2>1, <2>2
  <1>16. NeverBack'
    BY <1>10, <1>11, <1>12, <1>13 DEF NeverBack
  <1> QED BY <1>3, <1>14, <1>15, <1>16

\* Nothing is read by a watch in any other step, and nothing is inserted.
LEMMA RestNeverBack ==
    ASSUME IInv, NeverBack,
           \/ Loop \/ RunJob \/ JobRaises \/ Restart \/ RedisDown \/ RedisUp
           \/ \E n \in unannounced : Publish(n) \/ WorkerDies(n)
           \/ \E w \in Watches : Login(w) \/ Stall(w) \/ Recover(w) \/ Lose(w) \/ Notice(w) \/ AskAll(w)
           \/ \E k \in Contacts : SaveAgain(k)
           \/ UNCHANGED vars
    PROVE  NeverBack' /\ UNCHANGED <<Lasting, known>>
  <1>1. Typed /\ OneCall /\ (~Calling => Idle(done))
    BY DEF IInv, OneCall
  <1>2. \A k \in Contacts : Lasting[k] \in {Lasting[k], None}
    OBVIOUS
  <1>3. CASE Subscribe \/ GetRaises \/ Wake \/ Resubscribe \/ GetMessage \/ Drained
    <2>1. UNCHANGED <<Lasting, used, known, wire, done>>
      BY <1>3 DEF Subscribe, GetRaises, Wake, Resubscribe, GetMessage, Drained, http, watches, thread,
                  Lasting
    <2>2. listener'.note = listener.note \/ Idle(done')
      <3>1. listener.at \notin {"lookup", "build"} \/ listener' = listener
        BY <1>3 DEF Subscribe, GetRaises, Wake, Resubscribe, GetMessage, Drained
      <3> QED BY <1>1, <2>1, <3>1 DEF Calling, Idle
    <2> QED BY <1>1, <1>2, <2>1, <2>2, NothingNew
  <1>4. CASE Restart
    <2>1. UNCHANGED <<Lasting, used, known>> /\ done' = <<>> /\ wire' = [w \in Watches |-> <<>>]
      BY <1>4 DEF Restart, http, Lasting
    <2>2. Idle(done')
      BY <2>1 DEF Idle, OfListener
    <2> QED BY <1>1, <1>2, <2>1, <2>2, NothingNew
  <1>5. ASSUME NEW w \in Watches, Lose(w) PROVE NeverBack' /\ UNCHANGED <<Lasting, known>>
    <2>1. UNCHANGED <<Lasting, used, known, done, listener>> /\ wire' = [wire EXCEPT ![w] = <<>>]
      BY <1>5 DEF Lose, http, thread, Lasting
    <2>2. \A v \in Watches : wire'[v] \in {wire[v], <<>>}
      BY <1>1, <2>1 DEF Typed
    <2> QED BY <1>1, <1>2, <2>1, <2>2, NothingNew
  <1>6. ASSUME \/ RedisDown \/ RedisUp
               \/ \E n \in unannounced : Publish(n) \/ WorkerDies(n)
               \/ \E w \in Watches : Login(w) \/ Stall(w) \/ Recover(w) \/ Notice(w) \/ AskAll(w)
               \/ \E k \in Contacts : SaveAgain(k)
               \/ UNCHANGED vars
        PROVE  NeverBack' /\ UNCHANGED <<Lasting, known>>
    <2>1. UNCHANGED <<deleted, used, known, wire, done, listener>>
      BY <1>6 DEF RedisDown, RedisUp, Publish, WorkerDies, Feed!Settle, Login, Stall, Recover, Notice,
                  AskAll, SaveAgain, Feed!SaveAgain, vars, http, watches, thread
    <2>2. book' = book \/ \E k \in Contacts : deleted[k] # None /\ book' = [book EXCEPT ![k] = deleted[k]]
      BY <1>6 DEF RedisDown, RedisUp, Publish, WorkerDies, Feed!Settle, Login, Stall, Recover, Notice,
                  AskAll, SaveAgain, Feed!SaveAgain, vars, http
    <2>3. Lasting' = Lasting
      BY <1>1, <2>1, <2>2 DEF Lasting, Typed
    <2> QED BY <1>1, <1>2, <2>1, <2>3, NothingNew
  <1>7. ASSUME done # <<>>, done' = Tail(done)
        PROVE  /\ Head(done) \in Job
               /\ Head(done).kind # "sync" => Idle(done')
               /\ Head(done).kind = "build" => Head(done).person \subseteq {listener.note.contact}
    <2>1. done \in Seq(Job)
      BY <1>1 DEF Typed
    <2>2. Head(done) \in Job /\ Head(done) = done[1] /\ 1 \in DOMAIN done
      BY <1>7, <2>1, Cut
    <2>3. Head(done).kind # "sync" => ~Idle(done) /\ (Awaits(done) => Idle(done'))
      BY <1>7, <2>1, Dequeue
    <2> QED BY <1>1, <2>2, <2>3 DEF OneCall, NeverBack, BuiltInHand
  <1>8. CASE ResumeLookup \/ ResumeRaised
    <2> DEFINE p == [type |-> "add", person |-> Head(done).person]
    <2>1. /\ UNCHANGED <<Lasting, used, known, wire>> /\ done # <<>> /\ done' = Tail(done)
          /\ Head(done).kind # "sync"
      BY <1>8 DEF ResumeLookup, ResumeRaised, http, watches, Lasting
    <2>2. p \in Packet /\ p.person = Head(done).person /\ p.type # "all" /\ Idle(done')
      BY <1>7, <2>1 DEF Job, Packet
    <2> HIDE DEF p
    <2> QED BY <1>1, <2>1, <2>2, ResumedNeverBack
  <1>9. CASE ResumeBuild
    <2> DEFINE p == [type |-> "add", person |-> Head(done).person]
    <2>1. /\ UNCHANGED <<Lasting, used, known>> /\ done # <<>> /\ done' = Tail(done)
          /\ Head(done).kind = "build"
      BY <1>9 DEF ResumeBuild, http, Lasting
    <2>2. p \in Packet /\ p.person = Head(done).person /\ p.type # "all" /\ Idle(done')
      BY <1>7, <2>1 DEF Job, Packet
    <2>3. \A w \in Watches : \/ wire'[w] = wire[w]
                             \/ w = Head(done).watch /\ wire'[w] = Append(wire[w], p)
      <3>1. CASE Head(done).person = {}
        BY <1>9, <3>1 DEF ResumeBuild
      <3>2. CASE Head(done).person # {}
        <4>1. p = Add(listener.note.contact)
          BY <1>7, <2>1, <3>2 DEF Add
        <4>2. Write(Head(done).watch, Head(done).conn, p)
          BY <1>9, <3>2, <4>1 DEF ResumeBuild
        <4> HIDE DEF p
        <4>3. wire \in [Watches -> Seq(Packet)]
          BY <1>1 DEF Typed
        <4> QED BY <4>2, <4>3 DEF Write
      <3> QED BY <3>1, <3>2
    <2> HIDE DEF p
    <2> QED BY <1>1, <2>1, <2>2, <2>3, ResumedNeverBack
  <1>10. CASE ResumeSync
    <2> DEFINE t == IF Head(done).raised THEN "add" ELSE "all"
               p == [type |-> t, person |-> Head(done).person]
    <2>1. /\ UNCHANGED <<Lasting, used, known, listener>> /\ done # <<>> /\ done' = Tail(done)
          /\ Head(done).kind = "sync"
          /\ Head(done).raised => wire' = wire
          /\ ~Head(done).raised => Write(Head(done).watch, Head(done).conn, p)
      BY <1>10 DEF ResumeSync, All, http, Lasting
    <2>2. p \in Packet /\ p.person = Head(done).person /\ (p.type = "all" => Listed(Head(done)))
      BY <1>7, <2>1 DEF Job, Packet, Listed
    <2> HIDE DEF p, t
    <2>3. wire \in [Watches -> Seq(Packet)]
      BY <1>1 DEF Typed
    <2>4. \A w \in Watches : \/ wire'[w] = wire[w]
                             \/ w = Head(done).watch /\ wire'[w] = Append(wire[w], p)
      BY <2>1, <2>3 DEF Write
    <2> QED BY <1>1, <2>1, <2>2, <2>4, ResumedNeverBack
  <1>11. CASE RunJob \/ JobRaises
    BY <1>11, RunJobNeverBack DEF RunJob, JobRaises, http, watches, Lasting
  <1> QED BY <1>3, <1>4, <1>5, <1>6, <1>8, <1>9, <1>10, <1>11 DEF Loop

LEMMA DeleteNeverBack ==
    ASSUME IInv, NeverBack, NEW k \in Contacts, Delete(k)
    PROVE  NeverBack' /\ (Delivery!Delete(k) \/ UNCHANGED <<Lasting, Holds>>)
  <1>1. /\ UNCHANGED <<used, known, wire, done, listener>> /\ book[k] # None
        /\ book' = [book EXCEPT ![k] = None] /\ deleted' = [deleted EXCEPT ![k] = book[k]] /\ Typed
    BY DEF Delete, Feed!Delete, watches, thread, IInv
  <1>2. Lasting' = [Lasting EXCEPT ![k] = None]
    BY <1>1 DEF Lasting, Typed
  <1>3. Lasting \in [Contacts -> Watches \cup {None}]
    BY <1>1, LastingBook
  <1>4. \A j \in Contacts : Lasting'[j] = IF j = k THEN None ELSE Lasting[j]
    BY <1>2, <1>3
  <1>5. NeverBack'
    BY <1>1, <1>4, NothingNew
  <1>6. \A w \in Watches : known[w] \subseteq Contacts
    BY <1>1 DEF Typed
  <1>7. Holds' = [w \in Watches |-> Holds[w] \ {k}]
    BY <1>1, <1>4, <1>6 DEF Holds
  <1>8. CASE Lasting[k] = None
    <2>1. Lasting' = Lasting
      BY <1>2, <1>3, <1>8
    <2>2. Holds' = Holds
      BY <1>1, <2>1 DEF Holds
    <2> QED BY <1>5, <2>1, <2>2
  <1>9. CASE Lasting[k] # None
    BY <1>2, <1>5, <1>7, <1>9 DEF Delivery!Delete
  <1> QED BY <1>8, <1>9

LEMMA InitNeverBack == Init => NeverBack /\ Delivery!Init
  <1> SUFFICES ASSUME Init PROVE NeverBack /\ Delivery!Init
    OBVIOUS
  <1>1. /\ Lasting = [k \in Contacts |-> None] /\ done = <<>>
        /\ wire = [w \in Watches |-> <<>>] /\ known = [w \in Watches |-> {}]
    BY DEF Init, Feed!Init, Lasting
  <1>2. Holds = [w \in Watches |-> {}]
    BY <1>1 DEF Holds
  <1>3. NeverBack
    BY <1>1 DEF NeverBack, OwnOnly, BuiltInHand, NewToResults, NewToPackets
  <1> QED BY <1>1, <1>2, <1>3 DEF Delivery!Init

\* Every step is one of the abstract book, or changes nothing that it shows.
LEMMA DeliveryStep ==
    IInv /\ NeverBack /\ [Next]_vars => NeverBack' /\ [Delivery!Next]_<<Lasting, Holds>>
  <1> SUFFICES ASSUME IInv, NeverBack, [Next]_vars
               PROVE  NeverBack' /\ [Delivery!Next]_<<Lasting, Holds>>
    OBVIOUS
  <1>1. Typed
    BY DEF IInv
  <1>2. ASSUME NEW w \in Watches, Insert(w) PROVE NeverBack' /\ Delivery!Next
    <2>1. /\ used' = used + 1 /\ used' \in Contacts /\ used \in Nat /\ known' = known
          /\ Lasting' = [Lasting EXCEPT ![used'] = w] /\ Lasting[used'] = None
          /\ \A v \in Watches : \A k \in known[v] : k \in Contacts /\ k # used'
      BY <1>2, InsertNeverBack
    <2>4. \A k \in Contacts : k # used' => Lasting'[k] = Lasting[k]
      BY <1>1, <2>1, LastingBook
    <2>5. Holds' = Holds
      BY <2>1, <2>4 DEF Holds
    <2>6. Delivery!Insert(used', w)
      BY <2>1, <2>5 DEF Delivery!Insert
    <2>7. Delivery!Next
      BY <2>1, <2>6 DEF Delivery!Next
    <2> QED BY <1>2, <2>7, InsertNeverBack
  <1>3. ASSUME NEW k \in Contacts, Delete(k)
        PROVE  NeverBack' /\ [Delivery!Next]_<<Lasting, Holds>>
    BY <1>3, DeleteNeverBack DEF Delivery!Next
  <1>4. ASSUME NEW w \in Watches, WatchReads(w) PROVE NeverBack' /\ Delivery!Next
    <2>1. PICK ks \in SUBSET Contacts :
             /\ ks \subseteq {k \in Contacts : Lasting[k] = w}
             /\ {k \in known'[w] : Lasting[k] # None} = {k \in known[w] : Lasting[k] # None} \cup ks
             /\ \A v \in Watches : v # w => known'[v] = known[v]
      BY <1>1, <1>4, WatchReadsNeverBack
    <2>2. Lasting' = Lasting
      BY <1>4 DEF WatchReads, http, Lasting
    <2>3. Holds' = [Holds EXCEPT ![w] = @ \cup ks]
      BY <2>1, <2>2 DEF Holds
    <2>4. Delivery!Deliver(w, ks)
      BY <2>1, <2>2, <2>3 DEF Delivery!Deliver
    <2>5. Delivery!Next
      BY <2>4 DEF Delivery!Next
    <2> QED BY <1>1, <1>4, <2>5, WatchReadsNeverBack
  <1>5. ASSUME NeverBack', UNCHANGED <<Lasting, known>>
        PROVE  NeverBack' /\ UNCHANGED <<Lasting, Holds>>
    BY <1>5 DEF Holds
  <1> QED BY <1>2, <1>3, <1>4, <1>5, RestNeverBack DEF Next

\* Pushes and lists together bring a watch more and more of its own book: no list that was
\* asked for before a push takes back what the push has brought, and no watch gets a
\* contact of another.
THEOREM DeliversTheBook == Spec => ImplementsDelivery
  <1>1. Spec => []NeverBack
    BY InitNeverBack, DeliveryStep, Inductive, PTL DEF Spec
  <1>2. Spec => Delivery!Init
    BY InitNeverBack DEF Spec
  <1>3. Spec => [][Delivery!Next]_<<Lasting, Holds>>
    BY <1>1, DeliveryStep, Inductive, PTL DEF Spec
  <1> QED BY <1>2, <1>3 DEF ImplementsDelivery, Delivery!Spec
=============================================================================
