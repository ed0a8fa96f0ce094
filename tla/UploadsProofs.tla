---------------------------- MODULE UploadsProofs ----------------------------
(***************************************************************************)
(* The safety of uploads and of the device record, for any number of       *)
(* watches, connections and jobs, and batches of any length.               *)
(***************************************************************************)
EXTENDS Uploads, DeviceRecordProofs, SequenceTheorems

-----------------------------------------------------------------------------
(* The inductive invariant.                                                *)

LoginJob == [kind: {"login"}, conn: Conns, device: Row]
PointsJob == [kind: {"points"}, conn: Conns, batch: PointBatches, at: Nat \ {0}]
CallsJob ==
    [kind: {"calls"}, conn: Conns, batch: CallBatches, at: Nat \ {0}, linking: BOOLEAN]
Working(kind) == job # None /\ job.kind = kind

\* The thread is in a batch of a session that is still open.
AtWork ==
    /\ job \in {None} \cup LoginJob \cup PointsJob \cup CallsJob
    /\ Working("points") \/ Working("calls") =>
          Logged(job.conn) /\ job.at <= Len(job.batch) + 1
    /\ Working("calls") /\ job.linking => job.at <= Len(job.batch) /\ Item.kind = "good"

Packages ==
    [dev: Nat \cup {None}, user: Owners \cup {None}, owner: Owners \cup {None},
     outdated: BOOLEAN, batch: PointBatches, stored: SUBSET Nat, answered: BOOLEAN,
     gone: BOOLEAN]
Calls == [dev: Nat, contact: Nat \cup {None}]

Tables ==
    /\ packages \in Seq(Packages)
    /\ contacts \in Seq(Nat \cup {None})
    /\ calls \in [RecordIds -> Calls \cup {None}]

\* Related rows are there.
Related ==
    /\ messages \subseteq Keys
    /\ \A i \in DOMAIN packages : packages[i].dev \in Keys \cup {None}
    /\ \A k \in DOMAIN contacts : contacts[k] \in Keys \cup {None}
    /\ \A r \in RecordIds : calls[r] # None =>
          /\ calls[r].dev \in Keys
          /\ calls[r].contact # None =>
                calls[r].contact \in DOMAIN contacts /\ contacts[calls[r].contact] # None

\* The package that is being filled has the points up to the one the thread is at.
PointsStored ==
    /\ AnsweredWhole
    /\ Working("points") =>
          /\ Len(packages) > 0 /\ This.batch = job.batch /\ ~This.answered
          /\ This.stored = {k \in 1..job.at - 1 : job.batch[k] # "skipped"}

\* A record about to be linked is one of the watch, or its id is shared.
LinksOwn ==
    /\ LinkedToOwn
    /\ Working("calls") /\ job.linking /\ calls[Item.id] # None /\ Item.id \notin shared =>
          calls[Item.id].dev = Caller.pk

\* Whatever is behind the thread in a batch of calls is stored for the watch.
StoredFor(pk, r) == r \in shared \cup removed \/ (calls[r] # None /\ calls[r].dev = pk)
Behind == IF job.linking THEN 1..job.at ELSE 1..job.at - 1
CallsStored ==
    /\ acked \subseteq [dev: Nat, id: RecordIds]
    /\ \A a \in acked : StoredFor(a.dev, a.id)
    /\ Working("calls") => \A i \in Behind :
          job.batch[i].kind # "skipped" => StoredFor(Caller.pk, job.batch[i].id)

IInv ==
    /\ DInv /\ AtWork /\ Tables /\ Related
    /\ PointsStored /\ FiledUnderOwner /\ LinksOwn /\ CallsStored

-----------------------------------------------------------------------------
(* Lemmas on tables and batches.                                           *)

\* A sequence keeps its length when each of its elements is replaced.
LEMMA SeqReplaced ==
    ASSUME NEW S, NEW s \in Seq(S), NEW T, NEW t \in [DOMAIN s -> T]
    PROVE  t \in Seq(T) /\ Len(t) = Len(s) /\ DOMAIN t = DOMAIN s
<1>1. Len(s) \in Nat /\ DOMAIN s = 1..Len(s)
  BY LenProperties
<1>2. t \in Seq(T) /\ DOMAIN t = 1..Len(s)
  BY <1>1
<1>3. Len(t) \in Nat /\ DOMAIN t = 1..Len(t)
  BY <1>2, LenProperties
<1> QED
  BY <1>1, <1>2, <1>3

\* Keys are numbers.
LEMMA KeysAreNumbers ==
    ASSUME DeviceTyped
    PROVE  Keys \subseteq Nat /\ None \notin Keys
BY UploadsAssumption DEF DeviceTyped, Keys, Row

\* A copy whose row is there has a key of the table.
LEMMA CopyHasKey ==
    ASSUME DeviceTyped, NEW c \in Conns, Logged(c), Exists(instance[c])
    PROVE  /\ instance[c].pk \in Keys /\ instance[c] \in Row
           /\ row[instance[c].watch] \in Row
BY DEF DeviceTyped, Logged, Exists, Keys, Row

\* A batch is a sequence of items.
LEMMA BatchItems ==
    ASSUME AtWork
    PROVE  /\ Working("points") =>
                 /\ job \in PointsJob
                 /\ job.batch \in Seq({"good", "skipped", "bad"})
                 /\ Len(job.batch) \in Nat /\ DOMAIN job.batch = 1..Len(job.batch)
           /\ Working("calls") =>
                 /\ job \in CallsJob
                 /\ job.batch \in Seq([id: RecordIds, kind: {"good", "skipped", "bad"}])
                 /\ Len(job.batch) \in Nat /\ DOMAIN job.batch = 1..Len(job.batch)
                 /\ \A i \in 1..Len(job.batch) : job.batch[i].id \in RecordIds
<1>1. Working("points") => job \in PointsJob
  BY DEF AtWork, Working, LoginJob, PointsJob, CallsJob
<1>2. Working("calls") => job \in CallsJob
  BY DEF AtWork, Working, LoginJob, PointsJob, CallsJob
<1>3. Working("points") => job.batch \in Seq({"good", "skipped", "bad"})
  BY <1>1, UploadsAssumption DEF PointsJob
<1>4. Working("calls") => job.batch \in Seq([id: RecordIds, kind: {"good", "skipped", "bad"}])
  BY <1>2, UploadsAssumption DEF CallsJob
<1>5. Working("calls") => \A i \in 1..Len(job.batch) : job.batch[i].id \in RecordIds
  <2> SUFFICES ASSUME Working("calls"), NEW i \in 1..Len(job.batch)
               PROVE  job.batch[i].id \in RecordIds
    OBVIOUS
  <2>1. job.batch[i] \in [id: RecordIds, kind: {"good", "skipped", "bad"}]
    BY <1>4, ElementOfSeq
  <2> QED
    BY <2>1
<1> QED
  BY <1>1, <1>2, <1>3, <1>4, <1>5, LenProperties

\* What a deletion leaves of the other tables: every package, without its device when
\* it is gone; the contacts and calls of the devices that are left.
LEMMA Deletion ==
    ASSUME Tables, NEW keys, keys \subseteq Nat, NEW ids, OnDelete(keys, ids)
    PROVE  /\ packages' \in Seq(Packages) /\ Len(packages') = Len(packages)
           /\ DOMAIN packages' = DOMAIN packages
           /\ \A i \in DOMAIN packages :
                /\ packages'[i] = [packages[i] EXCEPT !.dev = packages'[i].dev]
                /\ packages'[i].dev \in keys \cup {None}
           /\ contacts' \in Seq(Nat \cup {None}) /\ DOMAIN contacts' = DOMAIN contacts
           /\ \A k \in DOMAIN contacts :
                /\ contacts'[k] \in keys \cup {None}
                /\ contacts'[k] # None => contacts'[k] = contacts[k]
           /\ calls' \in [RecordIds -> Calls \cup {None}]
           /\ \A r \in RecordIds : calls'[r] # None =>
                /\ calls[r] # None /\ calls'[r].dev = calls[r].dev /\ calls[r].dev \in keys
                /\ calls'[r].contact # None =>
                      /\ calls'[r].contact = calls[r].contact
                      /\ contacts'[calls[r].contact] # None
           /\ \A r \in RecordIds : calls[r] # None /\ calls'[r] = None => r \in removed'
           /\ messages' \subseteq keys /\ removed \subseteq removed'
           /\ acked' = acked /\ shared' = shared
<1>1. /\ packages' = [i \in DOMAIN packages |-> [packages[i] EXCEPT !.dev = Relation(@, keys)]]
      /\ contacts' = [k \in DOMAIN contacts |->
                        IF k \in ids THEN Relation(contacts[k], keys) ELSE None]
      /\ calls' = [r \in RecordIds |->
                     IF calls[r] = None \/ calls[r].dev \notin keys THEN None
                     ELSE [calls[r] EXCEPT !.contact =
                             IF @ # None /\ contacts'[@] = None THEN None ELSE @]]
      /\ removed' = removed \cup {r \in RecordIds : calls[r] # None /\ calls[r].dev \notin keys}
      /\ messages' = messages \cap keys
      /\ acked' = acked /\ shared' = shared
  BY DEF OnDelete
<1>2. ASSUME NEW i \in DOMAIN packages
      PROVE  /\ packages'[i] \in Packages
             /\ packages'[i] = [packages[i] EXCEPT !.dev = packages'[i].dev]
             /\ packages'[i].dev \in keys \cup {None}
  <2>1. packages[i] \in Packages
    BY LenProperties, ElementOfSeq DEF Tables
  <2>2. packages'[i] = [packages[i] EXCEPT !.dev = Relation(packages[i].dev, keys)]
    BY <1>1
  <2>3. Relation(packages[i].dev, keys) \in keys \cup {None}
    BY DEF Relation
  <2> QED
    BY <2>1, <2>2, <2>3 DEF Packages
<1>3. /\ packages' \in Seq(Packages) /\ Len(packages') = Len(packages)
      /\ DOMAIN packages' = DOMAIN packages
  <2>1. packages' \in [DOMAIN packages -> Packages]
    <3>1. DOMAIN packages' = DOMAIN packages /\ packages' = [i \in DOMAIN packages |-> packages'[i]]
      BY <1>1
    <3> QED
      BY <1>2, <3>1
  <2> QED
    BY <2>1, SeqReplaced DEF Tables
<1>4. \A k \in DOMAIN contacts : /\ contacts'[k] \in keys \cup {None}
                                 /\ contacts'[k] # None => contacts'[k] = contacts[k]
  BY <1>1 DEF Relation
<1>5. contacts' \in Seq(Nat \cup {None}) /\ DOMAIN contacts' = DOMAIN contacts
  <2>1. contacts' \in [DOMAIN contacts -> Nat \cup {None}]
    BY <1>1, <1>4
  <2> QED
    BY <2>1, SeqReplaced DEF Tables
<1>6. ASSUME NEW r \in RecordIds
      PROVE  /\ calls'[r] \in Calls \cup {None}
             /\ calls'[r] # None =>
                  /\ calls[r] # None /\ calls'[r].dev = calls[r].dev /\ calls[r].dev \in keys
                  /\ calls'[r].contact # None =>
                        /\ calls'[r].contact = calls[r].contact
                        /\ contacts'[calls[r].contact] # None
             /\ calls[r] # None /\ calls'[r] = None => r \in removed'
  <2>1. CASE calls[r] = None \/ calls[r].dev \notin keys
    BY <1>1, <2>1
  <2>2. CASE calls[r] # None /\ calls[r].dev \in keys
    <3> DEFINE link == IF calls[r].contact # None /\ contacts'[calls[r].contact] = None
                       THEN None ELSE calls[r].contact
    <3>1. calls'[r] = [calls[r] EXCEPT !.contact = link]
      BY <1>1, <2>2
    <3>2. calls[r] \in Calls /\ link \in Nat \cup {None}
      BY <2>2 DEF Tables, Calls
    <3>3. link # None => link = calls[r].contact /\ contacts'[calls[r].contact] # None
      OBVIOUS
    <3> HIDE DEF link
    <3>4. calls'[r] \in Calls /\ calls'[r].dev = calls[r].dev /\ calls'[r].contact = link
      BY <3>1, <3>2 DEF Calls
    <3>5. calls'[r] # None
      BY <3>4, UploadsAssumption DEF Calls
    <3> QED
      BY <2>2, <3>3, <3>4, <3>5
  <2> QED
    BY <2>1, <2>2
<1>7. calls' \in [RecordIds -> Calls \cup {None}]
  BY <1>1, <1>6
<1> QED
  BY <1>1, <1>2, <1>3, <1>4, <1>5, <1>6, <1>7

-----------------------------------------------------------------------------
(* Steps of DeviceRecord.                                                  *)

\* A batch goes on while the watches and the admin interface do what they do.
LEMMA DeviceLeavesBatch ==
    ASSUME DInv, AtWork, DeviceNext
    PROVE  /\ AtWork'
           /\ Working("points")' \/ Working("calls")' =>
                 job' = job /\ instance'[job.conn] = instance[job.conn]
<1>t. DeviceTyped
  BY DEF DInv
<1>1. CASE job' = None
  BY <1>1 DEF AtWork, Working
<1>2. CASE job' \in LoginJob
  BY <1>2 DEF AtWork, Working, LoginJob
<1>3. CASE job' = job /\ (Working("points") \/ Working("calls") =>
                            instance'[job.conn] = instance[job.conn])
  BY <1>3 DEF AtWork, Working, Logged, Item
<1>4. ASSUME NEW c \in Conns, NEW w \in Watches, LoginRead(c, w) PROVE job' \in LoginJob
  <2>1. CASE Found(c, w)
    BY <1>t, <2>1 DEF Found, LoginJob, DeviceTyped
  <2>2. CASE Created(c, w)
    <3>1. [watch |-> w, pk |-> next_pk, baby_id |-> now, user |-> None, charging |-> "off"] \in Row
      BY <1>t, DeviceAssumption DEF DeviceTyped, Row
    <3> QED
      BY <2>2, <3>1 DEF Created, LoginJob
  <2> QED
    BY <1>4, <2>1, <2>2 DEF LoginRead
<1>5. CASE LoginSave
  BY <1>1, <1>5 DEF LoginSave
<1>6. ASSUME NEW c \in Conns, Leave(c)
      PROVE  job' = job /\ (Working("points") \/ Working("calls") =>
                              instance'[job.conn] = instance[job.conn])
  BY <1>t, <1>6 DEF Leave, Close, Working, DeviceTyped
<1>7. CASE \E c \in Conns : \/ \E w \in Watches : LoginRefused(c, w)
                            \/ Ping(c)
                            \/ \E state \in {"on", "off"} : Status(c, state)
  <2>1. job' = job /\ job = None
    BY <1>7 DEF LoginRefused, Ping, Status, Idle
  <2> QED
    BY <1>1, <2>1
<1>8. CASE (\E w \in Watches : (\E u \in Owners \cup {None} : AdminEdit(w, u)) \/ AdminDelete(w))
           \/ Tick
  BY <1>3, <1>8 DEF AdminEdit, AdminDelete, Tick
<1> QED
  BY <1>2, <1>3, <1>4, <1>5, <1>6, <1>7, <1>8 DEF DeviceNext

\* What deletions keep of the tables, whoever deletes.
LEMMA DeletionInv ==
    ASSUME IInv, DInv', AtWork', OnDelete(Keys', DOMAIN contacts)
           \/ \E k \in DOMAIN contacts : OnDelete(Keys', DOMAIN contacts \ {k}),
           Working("points")' \/ Working("calls")' =>
              job' = job /\ instance'[job.conn] = instance[job.conn]
    PROVE  IInv'
<1>1. PICK ids : OnDelete(Keys', ids)
  OBVIOUS
<1>2. Keys' \subseteq Nat
  BY KeysAreNumbers, <1>1 DEF DInv, DeviceTyped, Keys, Row
<1>d. Tables
  BY DEF IInv
<1>3. /\ packages' \in Seq(Packages) /\ Len(packages') = Len(packages)
      /\ DOMAIN packages' = DOMAIN packages
      /\ \A i \in DOMAIN packages :
           /\ packages'[i] = [packages[i] EXCEPT !.dev = packages'[i].dev]
           /\ packages'[i].dev \in Keys' \cup {None}
  BY <1>1, <1>2, <1>d, Deletion
<1>4. /\ contacts' \in Seq(Nat \cup {None}) /\ DOMAIN contacts' = DOMAIN contacts
      /\ \A k \in DOMAIN contacts :
           /\ contacts'[k] \in Keys' \cup {None}
           /\ contacts'[k] # None => contacts'[k] = contacts[k]
  BY <1>1, <1>2, <1>d, Deletion
<1>5. /\ calls' \in [RecordIds -> Calls \cup {None}]
      /\ \A r \in RecordIds : calls'[r] # None =>
           /\ calls[r] # None /\ calls'[r].dev = calls[r].dev /\ calls[r].dev \in Keys'
           /\ calls'[r].contact # None =>
                 /\ calls'[r].contact = calls[r].contact
                 /\ contacts'[calls[r].contact] # None
      /\ \A r \in RecordIds : calls[r] # None /\ calls'[r] = None => r \in removed'
      /\ messages' \subseteq Keys' /\ removed \subseteq removed'
      /\ acked' = acked /\ shared' = shared
  BY <1>1, <1>2, <1>d, Deletion
<1>6. Tables'
  BY <1>3, <1>4, <1>5 DEF Tables
<1>7. Related'
  <2>1. ASSUME NEW r \in RecordIds, calls'[r] # None
        PROVE  /\ calls'[r].dev \in Keys'
               /\ calls'[r].contact # None =>
                    calls'[r].contact \in DOMAIN contacts' /\ contacts'[calls'[r].contact] # None
    <3>1. calls[r] # None /\ calls'[r].dev \in Keys'
      BY <1>5, <2>1
    <3>2. calls'[r].contact # None =>
            calls'[r].contact = calls[r].contact /\ contacts'[calls[r].contact] # None
      BY <1>5, <2>1
    <3>3. calls[r].contact # None => calls[r].contact \in DOMAIN contacts
      BY <3>1 DEF IInv, Related
    <3> QED
      BY <1>4, <3>1, <3>2, <3>3
  <2> QED
    BY <1>3, <1>4, <1>5, <2>1 DEF Related
<1>8. ASSUME NEW i \in DOMAIN packages
      PROVE  /\ packages'[i].batch = packages[i].batch /\ packages'[i].stored = packages[i].stored
             /\ packages'[i].answered = packages[i].answered
             /\ packages'[i].outdated = packages[i].outdated
             /\ packages'[i].user = packages[i].user /\ packages'[i].owner = packages[i].owner
  <2>1. packages[i] \in Packages
    BY <1>d, LenProperties, ElementOfSeq DEF Tables
  <2> QED
    BY <1>3, <2>1 DEF Packages
<1>9. PointsStored'
  <2>1. AnsweredWhole'
    BY <1>3, <1>8 DEF IInv, PointsStored, AnsweredWhole
  <2>2. ASSUME Working("points")'
        PROVE  /\ Len(packages') > 0 /\ This'.batch = job'.batch /\ ~This'.answered
               /\ This'.stored = {k \in 1..job'.at - 1 : job'.batch[k] # "skipped"}
    <3>1. job' = job /\ Working("points")
      BY <2>2 DEF Working
    <3>2. Len(packages) \in Nat /\ DOMAIN packages = 1..Len(packages)
      BY <1>d, LenProperties DEF Tables
    <3>3. /\ Len(packages) > 0 /\ This.batch = job.batch /\ ~This.answered
          /\ This.stored = {k \in 1..job.at - 1 : job.batch[k] # "skipped"}
      BY <3>1 DEF IInv, PointsStored
    <3>4. Len(packages) \in DOMAIN packages /\ This' = packages'[Len(packages)]
      BY <1>3, <3>2, <3>3 DEF This
    <3> QED
      BY <1>3, <1>8, <3>1, <3>3, <3>4 DEF This
  <2> QED
    BY <2>1, <2>2 DEF PointsStored
<1>10. FiledUnderOwner'
  BY <1>3, <1>8 DEF IInv, FiledUnderOwner
<1>11. LinksOwn'
  <2>1. LinkedToOwn'
    <3>1. ASSUME NEW r \in RecordIds, r \notin shared, calls'[r] # None, calls'[r].contact # None
          PROVE  contacts'[calls'[r].contact] = calls'[r].dev
      <4>1. /\ calls[r] # None /\ calls'[r].dev = calls[r].dev
            /\ calls'[r].contact = calls[r].contact /\ contacts'[calls[r].contact] # None
        BY <1>5, <3>1
      <4>2. calls[r].contact \in DOMAIN contacts /\ contacts[calls[r].contact] = calls[r].dev
        BY <3>1, <4>1 DEF IInv, Related, LinksOwn, LinkedToOwn
      <4> QED
        BY <1>4, <4>1, <4>2
    <3> QED
      BY <1>5, <3>1 DEF LinkedToOwn
  <2>2. ASSUME Working("calls")', job'.linking, calls'[Item'.id] # None, Item'.id \notin shared'
        PROVE  calls'[Item'.id].dev = Caller'.pk
    <3>1. job' = job /\ Item' = Item /\ Caller' = Caller /\ Working("calls") /\ job.linking
      BY <2>2 DEF Working, Item, Caller
    <3>2. Item.id \in RecordIds
      BY <3>1, BatchItems DEF IInv, AtWork, Item, CallsJob
    <3>3. calls[Item.id] # None /\ calls'[Item.id].dev = calls[Item.id].dev
      BY <1>5, <2>2, <3>1, <3>2
    <3> QED
      BY <1>5, <2>2, <3>1, <3>3 DEF IInv, LinksOwn
  <2> QED
    BY <2>1, <2>2 DEF LinksOwn
<1>12. CallsStored'
  <2>1. ASSUME NEW pk, NEW r \in RecordIds, StoredFor(pk, r) PROVE StoredFor(pk, r)'
    BY <1>5, <2>1 DEF StoredFor
  <2>2. \A a \in acked : StoredFor(a.dev, a.id)'
    <3>1. ASSUME NEW a \in acked PROVE StoredFor(a.dev, a.id)'
      <4>1. a.id \in RecordIds /\ StoredFor(a.dev, a.id)
        BY DEF IInv, CallsStored
      <4> QED
        BY <2>1, <4>1
    <3> QED
      BY <3>1
  <2>3. ASSUME Working("calls")', NEW i \in Behind', job'.batch[i].kind # "skipped"
        PROVE  StoredFor(Caller.pk, job.batch[i].id)'
    <3>1. job' = job /\ Caller' = Caller /\ Behind' = Behind /\ Working("calls")
      BY <2>3 DEF Working, Caller, Behind
    <3>2. StoredFor(Caller.pk, job.batch[i].id) /\ job.batch[i].id \in RecordIds
      BY <2>3, <3>1, BatchItems DEF IInv, CallsStored, AtWork, Behind, CallsJob
    <3> QED
      BY <1>5, <3>1, <3>2 DEF StoredFor
  <2> QED
    BY <1>5, <2>2, <2>3 DEF CallsStored, IInv
<1> QED
  BY <1>6, <1>7, <1>9, <1>10, <1>11, <1>12 DEF IInv

\* A watch or the admin interface takes a step of DeviceRecord.
LEMMA DeviceInv == IInv /\ DeviceStep => IInv'
<1> SUFFICES ASSUME IInv, DeviceStep PROVE IInv'
  OBVIOUS
<1>1. DInv'
  BY DeviceStepInv DEF IInv, DeviceStep
<1>2. /\ AtWork'
      /\ Working("points")' \/ Working("calls")' =>
            job' = job /\ instance'[job.conn] = instance[job.conn]
  BY DeviceLeavesBatch DEF IInv, DeviceStep
<1> QED
  BY <1>1, <1>2, DeletionInv DEF DeviceStep

-----------------------------------------------------------------------------
(* Steps that leave the device record and its sessions alone.              *)

\* The tables of uploads change, and the thread goes on with its batch, or is done.
LEMMA RowsStay ==
    ASSUME IInv, UNCHANGED device, Reading' => job' = job
    PROVE  DInv' /\ Keys' = Keys /\ instance' = instance
<1>1. DInv'
  BY SameStep DEF IInv
<1> QED
  BY <1>1 DEF device, Keys

\* Another process changes a table while the thread stays where it is.
LEMMA OtherStays ==
    ASSUME IInv, OtherProcess
    PROVE  /\ DInv' /\ AtWork' /\ Keys' = Keys /\ instance' = instance /\ job' = job
           /\ Caller' = Caller /\ Item' = Item /\ Behind' = Behind
           /\ \A kind : Working(kind)' <=> Working(kind)
<1>1. UNCHANGED <<device, job>>
  BY DEF OtherProcess
<1>2. DInv' /\ Keys' = Keys /\ instance' = instance
  BY <1>1, RowsStay
<1> QED
  BY <1>1, <1>2 DEF IInv, AtWork, Working, Logged, Item, Caller, Behind

\* Calls and their links stay as they are, and so does a batch of them.
LEMMA CallsKept ==
    ASSUME IInv, UNCHANGED <<calls, contacts, acked, shared, removed>>,
           Working("calls")' => job' = job /\ instance' = instance
    PROVE  LinksOwn' /\ CallsStored'
<1>1. Working("calls")' => /\ Working("calls") /\ job' = job /\ Caller' = Caller
                           /\ Item' = Item /\ Behind' = Behind
  BY DEF Working, Caller, Item, Behind
<1>2. LinksOwn'
  BY <1>1 DEF IInv, LinksOwn, LinkedToOwn
<1>3. CallsStored'
  BY <1>1 DEF IInv, CallsStored, StoredFor
<1> QED
  BY <1>2, <1>3

\* Packages stay as they are, and so does the one that is being filled.
LEMMA PackagesKept ==
    ASSUME IInv, UNCHANGED packages, Working("points")' => job' = job
    PROVE  PointsStored' /\ FiledUnderOwner'
BY DEF IInv, PointsStored, AnsweredWhole, FiledUnderOwner, Working, This

\* A package is written, in what neither relates it nor files it.
LEMMA PackageWritten ==
    ASSUME IInv, NEW i \in DOMAIN packages, NEW e \in Packages,
           e.dev = packages[i].dev, e.batch = packages[i].batch, e.user = packages[i].user,
           e.owner = packages[i].owner, e.outdated = packages[i].outdated,
           packages' = [packages EXCEPT ![i] = e],
           UNCHANGED <<messages, calls, contacts>>, Keys' = Keys
    PROVE  /\ Tables' /\ Related' /\ FiledUnderOwner'
           /\ Len(packages') = Len(packages) /\ DOMAIN packages' = DOMAIN packages
           /\ packages'[i] = e
           /\ \A j \in DOMAIN packages : j # i => packages'[j] = packages[j]
<1>1. packages \in Seq(Packages) /\ DOMAIN packages = 1..Len(packages)
  BY LenProperties DEF IInv, Tables
<1>2. /\ packages' \in Seq(Packages) /\ Len(packages') = Len(packages)
      /\ DOMAIN packages' = DOMAIN packages /\ packages'[i] = e
      /\ \A j \in DOMAIN packages : j # i => packages'[j] = packages[j]
  BY <1>1, ExceptSeq
<1>3. Tables'
  BY <1>2 DEF IInv, Tables
<1>4. Related'
  BY <1>2 DEF IInv, Related
<1>5. FiledUnderOwner'
  BY <1>2 DEF IInv, FiledUnderOwner
<1> QED
  BY <1>2, <1>3, <1>4, <1>5

\* A connection is closed while the thread is at nothing, or because of what it raised.
LEMMA CloseInv ==
    ASSUME IInv, NEW c \in Conns, Close(c), job' = None, UNCHANGED uploads
    PROVE  IInv'
<1>1. ~Working("points")' /\ ~Working("calls")'
  BY DEF Working
<1>2. DInv'
  BY CloseStep DEF IInv, Reading
<1>3. AtWork'
  BY <1>1 DEF AtWork
<1>4. Tables' /\ Related'
  BY DEF IInv, Tables, Related, uploads, Keys, Close
<1>5. PointsStored' /\ FiledUnderOwner' /\ LinksOwn' /\ CallsStored'
  BY <1>1, CallsKept, PackagesKept DEF uploads
<1> QED
  BY <1>2, <1>3, <1>4, <1>5 DEF IInv

\* A contact is added.
LEMMA AddContactInv ==
    ASSUME IInv, NEW w \in Watches, AddContact(w)
    PROVE  IInv'
<1>1. /\ DInv' /\ AtWork' /\ Keys' = Keys /\ instance' = instance /\ job' = job
      /\ Caller' = Caller /\ Item' = Item /\ Behind' = Behind
      /\ \A kind : Working(kind)' <=> Working(kind)
  BY OtherStays DEF AddContact
<1>2. /\ contacts' = Append(contacts, row[w].pk) /\ row[w].pk \in Keys /\ row[w].pk \in Nat
      /\ UNCHANGED <<messages, packages, calls, acked, shared, removed>>
  BY KeysAreNumbers DEF AddContact, Keys, IInv, DInv
<1>3. /\ contacts \in Seq(Nat \cup {None}) /\ DOMAIN contacts = 1..Len(contacts)
      /\ Len(contacts) \in Nat
  BY LenProperties DEF IInv, Tables
<1>4. /\ contacts' \in Seq(Nat \cup {None}) /\ DOMAIN contacts' = 1..Len(contacts) + 1
      /\ \A k \in DOMAIN contacts : contacts'[k] = contacts[k]
      /\ contacts'[Len(contacts) + 1] = row[w].pk
  <2>1. /\ Append(contacts, row[w].pk) \in Seq(Nat \cup {None})
        /\ Len(Append(contacts, row[w].pk)) = Len(contacts) + 1
        /\ \A k \in 1..Len(contacts) : Append(contacts, row[w].pk)[k] = contacts[k]
        /\ Append(contacts, row[w].pk)[Len(contacts) + 1] = row[w].pk
    BY <1>2, <1>3, AppendProperties
  <2> QED
    BY <1>2, <1>3, <2>1, LenProperties
<1>5. Tables'
  BY <1>2, <1>4 DEF IInv, Tables
<1>6. Related'
  <2>1. \A k \in DOMAIN contacts' : contacts'[k] \in Keys \cup {None}
    BY <1>2, <1>3, <1>4 DEF IInv, Related
  <2>2. DOMAIN contacts \subseteq DOMAIN contacts'
    BY <1>3, <1>4
  <2> QED
    BY <1>1, <1>2, <1>4, <2>1, <2>2 DEF IInv, Related
<1>7. PointsStored'
  BY <1>1, <1>2 DEF IInv, PointsStored, AnsweredWhole, This
<1>8. FiledUnderOwner'
  BY <1>2 DEF IInv, FiledUnderOwner
<1>9. LinksOwn'
  BY <1>1, <1>2, <1>4 DEF IInv, Related, LinksOwn, LinkedToOwn
<1>10. CallsStored'
  BY <1>1, <1>2 DEF IInv, CallsStored, StoredFor
<1> QED
  BY <1>1, <1>5, <1>6, <1>7, <1>8, <1>9, <1>10 DEF IInv

\* A contact is deleted.
LEMMA DeleteContactInv ==
    ASSUME IInv, NEW k \in DOMAIN contacts, DeleteContact(k)
    PROVE  IInv'
<1>1. DInv' /\ AtWork' /\ Keys' = Keys /\ instance' = instance /\ job' = job
  BY OtherStays DEF DeleteContact
<1>2. OnDelete(Keys', DOMAIN contacts \ {k})
  BY <1>1 DEF DeleteContact
<1> QED
  BY <1>1, <1>2, DeletionInv

\* A package is deleted.
LEMMA DeletePackageInv ==
    ASSUME IInv, NEW i \in DOMAIN packages, DeletePackage(i)
    PROVE  IInv'
<1>1. /\ DInv' /\ AtWork' /\ Keys' = Keys /\ instance' = instance /\ job' = job
      /\ Caller' = Caller /\ Item' = Item /\ Behind' = Behind
      /\ \A kind : Working(kind)' <=> Working(kind)
  BY OtherStays DEF DeletePackage
<1>2. /\ packages' = [packages EXCEPT ![i] = [packages[i] EXCEPT !.gone = TRUE]]
      /\ UNCHANGED <<messages, calls, contacts, acked, shared, removed>>
  BY DEF DeletePackage
<1>3. packages[i] \in Packages /\ DOMAIN packages = 1..Len(packages) /\ Len(packages) \in Nat
  BY LenProperties, ElementOfSeq DEF IInv, Tables
<1> DEFINE e == [packages[i] EXCEPT !.gone = TRUE]
<1>4. /\ e \in Packages /\ e.dev = packages[i].dev /\ e.batch = packages[i].batch
      /\ e.user = packages[i].user /\ e.owner = packages[i].owner
      /\ e.outdated = packages[i].outdated
      /\ e.stored = packages[i].stored /\ e.answered = packages[i].answered
  BY <1>3 DEF Packages
<1> HIDE DEF e
<1>5. packages' = [packages EXCEPT ![i] = e]
  BY <1>2 DEF e
<1>6. /\ Tables' /\ Related' /\ FiledUnderOwner'
      /\ Len(packages') = Len(packages) /\ DOMAIN packages' = DOMAIN packages
      /\ packages'[i] = e
      /\ \A j \in DOMAIN packages : j # i => packages'[j] = packages[j]
  BY <1>1, <1>2, <1>4, <1>5, PackageWritten
<1>7. PointsStored'
  <2>1. AnsweredWhole'
    BY <1>4, <1>6 DEF IInv, PointsStored, AnsweredWhole
  <2>2. Len(packages) > 0 =>
          /\ This'.batch = This.batch /\ This'.answered = This.answered
          /\ This'.stored = This.stored
    BY <1>3, <1>4, <1>6 DEF This
  <2> QED
    BY <1>1, <1>6, <2>1, <2>2 DEF IInv, PointsStored
<1>8. LinksOwn' /\ CallsStored'
  BY <1>1, <1>2, CallsKept
<1> QED
  BY <1>1, <1>6, <1>7, <1>8 DEF IInv

\* A call is deleted.
LEMMA DeleteCallInv ==
    ASSUME IInv, NEW r \in RecordIds, DeleteCall(r)
    PROVE  IInv'
<1>1. /\ DInv' /\ AtWork' /\ Keys' = Keys /\ instance' = instance /\ job' = job
      /\ Caller' = Caller /\ Item' = Item /\ Behind' = Behind
      /\ \A kind : Working(kind)' <=> Working(kind)
  BY OtherStays DEF DeleteCall
<1>2. /\ calls' = [calls EXCEPT ![r] = None] /\ removed' = removed \cup {r}
      /\ UNCHANGED <<messages, packages, contacts, acked, shared>>
  BY DEF DeleteCall
<1>3. calls'[r] = None /\ \A s \in RecordIds : s # r => calls'[s] = calls[s]
  BY <1>2 DEF IInv, Tables
<1>4. Tables'
  BY <1>2 DEF IInv, Tables
<1>5. Related'
  BY <1>1, <1>2, <1>3 DEF IInv, Related
<1>6. PointsStored' /\ FiledUnderOwner'
  BY <1>1, <1>2, PackagesKept
<1>7. LinksOwn'
  <2>1. Working("calls") /\ job.linking => Item.id \in RecordIds
    BY BatchItems DEF IInv, AtWork, Item, CallsJob
  <2> QED
    BY <1>1, <1>2, <1>3, <2>1 DEF IInv, LinksOwn, LinkedToOwn
<1>8. CallsStored'
  <2>1. ASSUME NEW pk, NEW s \in RecordIds, StoredFor(pk, s) PROVE StoredFor(pk, s)'
    BY <1>2, <1>3, <2>1 DEF StoredFor
  <2>2. \A a \in acked : a.id \in RecordIds /\ StoredFor(a.dev, a.id)
    BY DEF IInv, CallsStored
  <2>3. ASSUME Working("calls"), NEW i \in Behind, job.batch[i].kind # "skipped"
        PROVE  StoredFor(Caller.pk, job.batch[i].id)'
    <3>1. job.batch[i].id \in RecordIds /\ StoredFor(Caller.pk, job.batch[i].id)
      BY <2>3, BatchItems DEF IInv, AtWork, Behind, CallsJob, CallsStored
    <3> QED
      BY <1>1, <1>2, <1>3, <3>1 DEF StoredFor
  <2> QED
    BY <1>1, <1>2, <2>1, <2>2, <2>3 DEF IInv, CallsStored
<1> QED
  BY <1>1, <1>4, <1>5, <1>6, <1>7, <1>8 DEF IInv

-----------------------------------------------------------------------------
(* Short messages and locations.                                           *)

\* A short message is stored for the device, or raises.
LEMMA SmsInv ==
    ASSUME IInv, NEW c \in Conns, Sms(c)
    PROVE  IInv'
<1>1. job = None /\ job' = None /\ Logged(c) /\ UNCHANGED <<packages, calls, contacts, acked, shared, removed>>
  BY DEF Sms, Idle
<1>2. CASE messages' = messages /\ Close(c)
  BY <1>1, <1>2, CloseInv DEF uploads
<1>3. CASE Exists(instance[c]) /\ messages' = messages \cup {instance[c].pk} /\ UNCHANGED device
  <2>1. DInv' /\ Keys' = Keys /\ instance' = instance
    BY <1>1, <1>3, RowsStay
  <2>2. instance[c].pk \in Keys
    BY <1>1, <1>3, CopyHasKey DEF IInv, DInv
  <2>3. AtWork'
    BY <1>1 DEF AtWork, Working
  <2>4. Tables' /\ Related'
    BY <1>1, <1>3, <2>1, <2>2 DEF IInv, Tables, Related
  <2>5. PointsStored' /\ FiledUnderOwner' /\ LinksOwn' /\ CallsStored'
    BY <1>1, <2>1, CallsKept, PackagesKept
  <2> QED
    BY <2>1, <2>3, <2>4, <2>5 DEF IInv
<1> QED
  BY <1>2, <1>3 DEF Sms

\* A package is inserted, without points, or raises.
LEMMA CreatePackageInv ==
    ASSUME IInv, NEW c \in Conns, NEW batch \in PointBatches, CreatePackage(c, batch)
    PROVE  IInv'
<1>1. job = None /\ Logged(c) /\ UNCHANGED <<messages, calls, contacts, acked, shared, removed>>
  BY DEF CreatePackage, Idle
<1>2. CASE packages' = packages /\ job' = job /\ Close(c)
  BY <1>1, <1>2, CloseInv DEF uploads
<1>3. CASE /\ Exists(instance[c])
           /\ packages' = Append(packages, Package(c, batch))
           /\ job' = [kind |-> "points", conn |-> c, batch |-> batch, at |-> 1]
           /\ UNCHANGED device
  <2>1. DInv' /\ Keys' = Keys /\ instance' = instance
    BY <1>1, <1>3, RowsStay DEF Reading
  <2>2. /\ instance[c].pk \in Keys /\ instance[c] \in Row /\ row[instance[c].watch] \in Row
        /\ instance[c].pk \in Nat
    BY <1>1, <1>3, CopyHasKey, KeysAreNumbers DEF IInv, DInv
  <2>3. c \in outdated \/ row[instance[c].watch].user = instance[c].user
    BY <1>1, <1>3 DEF IInv, DInv, CopiesFresh
  <2> DEFINE p == Package(c, batch)
  <2>4. /\ p \in Packages /\ p.dev \in Keys /\ p.batch = batch /\ p.stored = {} /\ ~p.answered
        /\ p.outdated \/ p.user = p.owner
    <3> DEFINE old == c \in outdated
    <3>1. old \in BOOLEAN /\ (old \/ row[instance[c].watch].user = instance[c].user)
      BY <2>3
    <3>2. p = [dev |-> instance[c].pk, user |-> instance[c].user,
               owner |-> row[instance[c].watch].user, outdated |-> old, batch |-> batch,
               stored |-> {}, answered |-> FALSE, gone |-> FALSE]
      BY DEF Package
    <3>3. /\ instance[c].user \in Owners \cup {None}
          /\ row[instance[c].watch].user \in Owners \cup {None}
      BY <2>2 DEF Row
    <3> HIDE DEF old, p
    <3>4. p \in Packages
      BY <2>2, <3>1, <3>2, <3>3 DEF Packages
    <3>5. p.outdated = old /\ p.user = instance[c].user /\ p.owner = row[instance[c].watch].user
      BY <3>2
    <3> QED
      BY <2>2, <3>1, <3>2, <3>4, <3>5
  <2>5. packages \in Seq(Packages) /\ DOMAIN packages = 1..Len(packages) /\ Len(packages) \in Nat
    BY LenProperties DEF IInv, Tables
  <2> HIDE DEF p
  <2>6. /\ packages' \in Seq(Packages) /\ Len(packages') = Len(packages) + 1
        /\ \A i \in DOMAIN packages : packages'[i] = packages[i]
        /\ packages'[Len(packages) + 1] = p
    BY <1>3, <2>4, <2>5, AppendProperties DEF p
  <2>7. DOMAIN packages' = 1..Len(packages) + 1
    BY <2>6, LenProperties
  <2>8. \A i \in DOMAIN packages' : i \in DOMAIN packages \/ packages'[i] = p
    BY <2>5, <2>6, <2>7
  <2>9. job' \in PointsJob /\ job'.at = 1 /\ job'.batch = batch /\ job'.kind = "points" /\ job'.conn = c
    BY <1>3 DEF PointsJob
  <2>10. AtWork'
    <3>1. batch \in Seq({"good", "skipped", "bad"}) /\ Len(batch) \in Nat
      BY UploadsAssumption, LenProperties
    <3> QED
      BY <1>1, <2>1, <2>9, <3>1 DEF AtWork, Working, Logged
  <2>11. Tables'
    BY <1>1, <2>6 DEF IInv, Tables
  <2>12. Related'
    BY <1>1, <2>1, <2>4, <2>6, <2>8 DEF IInv, Related
  <2>13. PointsStored'
    <3>1. AnsweredWhole'
      BY <2>4, <2>6, <2>8 DEF IInv, PointsStored, AnsweredWhole
    <3>2. This' = p
      BY <2>6 DEF This
    <3> QED
      BY <2>4, <2>5, <2>6, <2>9, <3>1, <3>2 DEF PointsStored
  <2>14. FiledUnderOwner'
    BY <2>4, <2>6, <2>8 DEF IInv, FiledUnderOwner
  <2>15. LinksOwn' /\ CallsStored'
    BY <1>1, <2>9, CallsKept DEF Working
  <2> QED
    BY <2>1, <2>10, <2>11, <2>12, <2>13, <2>14, <2>15 DEF IInv
<1> QED
  BY <1>2, <1>3 DEF CreatePackage

\* The thread goes on to the next point, past one that is stored or skipped.
LEMMA PointInv == IInv /\ Point => IInv'
<1> SUFFICES ASSUME IInv, Point PROVE IInv'
  OBVIOUS
<1>1. /\ Working("points") /\ job.at <= Len(job.batch) /\ job' = [job EXCEPT !.at = job.at + 1]
      /\ UNCHANGED <<device, messages, calls, contacts, acked, shared, removed>>
  BY DEF Point, AtItem, Advance, Working
<1>2. job \in PointsJob /\ Len(job.batch) \in Nat /\ job.batch \in Seq({"good", "skipped", "bad"})
  BY <1>1, BatchItems DEF IInv
<1>3. /\ job' \in PointsJob /\ job'.kind = "points" /\ job'.conn = job.conn
      /\ job'.batch = job.batch /\ job'.at = job.at + 1
      /\ job.at \in Nat \ {0} /\ Logged(job.conn)
  BY <1>1, <1>2 DEF PointsJob, IInv, AtWork
<1>4. DInv' /\ Keys' = Keys /\ instance' = instance
  BY <1>1, <1>3, RowsStay DEF Reading
<1>5. AtWork'
  BY <1>1, <1>2, <1>3, <1>4 DEF AtWork, Working, Logged
<1>6. LinksOwn' /\ CallsStored'
  BY <1>1, <1>3, CallsKept DEF Working
<1>7. /\ packages \in Seq(Packages) /\ DOMAIN packages = 1..Len(packages)
      /\ Len(packages) \in Nat \ {0} /\ This = packages[Len(packages)] /\ This \in Packages
      /\ This.batch = job.batch /\ ~This.answered
      /\ This.stored = {k \in 1..job.at - 1 : job.batch[k] # "skipped"}
  BY <1>1, LenProperties, ElementOfSeq DEF IInv, Tables, PointsStored, This
<1>8. {k \in 1..job'.at - 1 : job'.batch[k] # "skipped"} =
        IF Item = "skipped" THEN This.stored ELSE This.stored \cup {job.at}
  BY <1>3, <1>7 DEF Item
<1>9. CASE Item = "skipped" /\ packages' = packages
  <2>1. FiledUnderOwner'
    BY <1>9 DEF IInv, FiledUnderOwner
  <2>2. PointsStored'
    BY <1>3, <1>7, <1>8, <1>9 DEF IInv, PointsStored, AnsweredWhole, This
  <2>3. Tables' /\ Related'
    BY <1>1, <1>4, <1>9 DEF IInv, Tables, Related
  <2> QED
    BY <1>4, <1>5, <1>6, <2>1, <2>2, <2>3 DEF IInv
<1>10. CASE /\ Item = "good"
            /\ packages' = [packages EXCEPT ![Len(packages)].stored = @ \cup {job.at}]
  <2> DEFINE e == [This EXCEPT !.stored = This.stored \cup {job.at}]
  <2>1. packages' = [packages EXCEPT ![Len(packages)] = e]
    BY <1>7, <1>10
  <2>2. /\ e \in Packages /\ e.dev = This.dev /\ e.batch = This.batch /\ e.user = This.user
        /\ e.owner = This.owner /\ e.outdated = This.outdated /\ e.answered = This.answered
        /\ e.stored = This.stored \cup {job.at}
    BY <1>3, <1>7 DEF Packages
  <2> HIDE DEF e
  <2>3. /\ Tables' /\ Related' /\ FiledUnderOwner'
        /\ Len(packages') = Len(packages) /\ DOMAIN packages' = DOMAIN packages
        /\ packages'[Len(packages)] = e
        /\ \A j \in DOMAIN packages : j # Len(packages) => packages'[j] = packages[j]
    <3> DEFINE n == Len(packages)
    <3>1. n \in DOMAIN packages /\ This = packages[n] /\ packages' = [packages EXCEPT ![n] = e]
      BY <1>7, <2>1
    <3> HIDE DEF n
    <3>2. /\ e \in Packages /\ e.dev = packages[n].dev /\ e.batch = packages[n].batch
          /\ e.user = packages[n].user /\ e.owner = packages[n].owner
          /\ e.outdated = packages[n].outdated
      BY <2>2, <3>1
    <3>3. /\ Tables' /\ Related' /\ FiledUnderOwner'
          /\ Len(packages') = Len(packages) /\ DOMAIN packages' = DOMAIN packages
          /\ packages'[n] = e
          /\ \A j \in DOMAIN packages : j # n => packages'[j] = packages[j]
      BY <1>1, <1>4, <3>1, <3>2, PackageWritten
    <3> QED
      BY <3>3 DEF n
  <2>4. AnsweredWhole'
    BY <1>7, <2>2, <2>3 DEF IInv, PointsStored, AnsweredWhole
  <2>5. This' = e
    BY <2>3 DEF This
  <2>6. PointsStored'
    BY <1>3, <1>7, <1>8, <1>10, <2>2, <2>3, <2>4, <2>5 DEF PointsStored
  <2> QED
    BY <1>4, <1>5, <1>6, <2>3, <2>6 DEF IInv
<1> QED
  BY <1>9, <1>10 DEF Point, Skipped

\* A point raises: its package stays as it is, and is not answered.
LEMMA PointRaisesInv == IInv /\ PointRaises => IInv'
<1> SUFFICES ASSUME IInv, PointRaises PROVE IInv'
  OBVIOUS
<1>1. job.conn \in Conns
  BY BatchItems DEF PointRaises, AtItem, IInv, Working, PointsJob
<1> QED
  BY <1>1, CloseInv DEF PointRaises, Raise

\* The answer says that all points are stored.
LEMMA AnswerPointsInv == IInv /\ AnswerPoints => IInv'
<1> SUFFICES ASSUME IInv, AnswerPoints PROVE IInv'
  OBVIOUS
<1>1. /\ Working("points") /\ job.at > Len(job.batch) /\ job' = None
      /\ packages' = [packages EXCEPT ![Len(packages)].answered = TRUE]
      /\ UNCHANGED <<device, messages, calls, contacts, acked, shared, removed>>
  BY DEF AnswerPoints, AtEnd, Working
<1>2. /\ job \in PointsJob /\ Len(job.batch) \in Nat /\ DOMAIN job.batch = 1..Len(job.batch)
      /\ job.at = Len(job.batch) + 1
  <2>1. /\ job \in PointsJob /\ Len(job.batch) \in Nat /\ DOMAIN job.batch = 1..Len(job.batch)
        /\ job.at <= Len(job.batch) + 1
    BY <1>1, BatchItems DEF IInv, AtWork
  <2> QED
    BY <1>1, <2>1 DEF PointsJob
<1>3. ~Working("points")' /\ ~Working("calls")' /\ ~Reading'
  BY <1>1 DEF Working, Reading
<1>4. DInv' /\ Keys' = Keys /\ instance' = instance
  BY <1>1, <1>3, RowsStay
<1>5. AtWork'
  BY <1>1, <1>3 DEF AtWork
<1>6. LinksOwn' /\ CallsStored'
  BY <1>1, <1>3, CallsKept
<1>7. /\ packages \in Seq(Packages) /\ DOMAIN packages = 1..Len(packages)
      /\ Len(packages) \in Nat \ {0} /\ This = packages[Len(packages)] /\ This \in Packages
      /\ This.batch = job.batch
      /\ This.stored = {k \in DOMAIN job.batch : job.batch[k] # "skipped"}
  BY <1>1, <1>2, LenProperties, ElementOfSeq DEF IInv, Tables, PointsStored, This
<1> DEFINE e == [This EXCEPT !.answered = TRUE]
<1>8. packages' = [packages EXCEPT ![Len(packages)] = e]
  BY <1>1, <1>7
<1>9. /\ e \in Packages /\ e.dev = This.dev /\ e.batch = This.batch /\ e.user = This.user
      /\ e.owner = This.owner /\ e.outdated = This.outdated /\ e.stored = This.stored
  BY <1>7 DEF Packages
<1> HIDE DEF e
<1>10. /\ Tables' /\ Related' /\ FiledUnderOwner'
       /\ DOMAIN packages' = DOMAIN packages /\ packages'[Len(packages)] = e
       /\ \A j \in DOMAIN packages : j # Len(packages) => packages'[j] = packages[j]
  <2> DEFINE n == Len(packages)
  <2>1. n \in DOMAIN packages /\ This = packages[n] /\ packages' = [packages EXCEPT ![n] = e]
    BY <1>7, <1>8
  <2> HIDE DEF n
  <2>2. /\ e \in Packages /\ e.dev = packages[n].dev /\ e.batch = packages[n].batch
        /\ e.user = packages[n].user /\ e.owner = packages[n].owner
        /\ e.outdated = packages[n].outdated
    BY <1>9, <2>1
  <2>3. /\ Tables' /\ Related' /\ FiledUnderOwner'
        /\ Len(packages') = Len(packages) /\ DOMAIN packages' = DOMAIN packages
        /\ packages'[n] = e
        /\ \A j \in DOMAIN packages : j # n => packages'[j] = packages[j]
    BY <1>1, <1>4, <2>1, <2>2, PackageWritten
  <2> QED
    BY <2>3 DEF n
<1>11. PointsStored'
  BY <1>3, <1>7, <1>9, <1>10 DEF IInv, PointsStored, AnsweredWhole
<1> QED
  BY <1>4, <1>5, <1>6, <1>10, <1>11 DEF IInv

-----------------------------------------------------------------------------
(* Calls.                                                                  *)

\* In a batch of calls.
LEMMA InCalls ==
    ASSUME IInv, Working("calls")
    PROVE  /\ job \in CallsJob /\ job.conn \in Conns /\ Logged(job.conn)
           /\ job.at \in Nat \ {0} /\ job.at <= Len(job.batch) + 1 /\ job.linking \in BOOLEAN
           /\ Len(job.batch) \in Nat /\ DOMAIN job.batch = 1..Len(job.batch)
           /\ Caller \in Row /\ Caller.pk \in Nat /\ Caller = instance[job.conn]
           /\ \A i \in 1..Len(job.batch) : job.batch[i].id \in RecordIds
           /\ Behind \subseteq 1..Len(job.batch)
<1>1. /\ job \in CallsJob /\ Logged(job.conn) /\ job.at <= Len(job.batch) + 1
      /\ Len(job.batch) \in Nat /\ DOMAIN job.batch = 1..Len(job.batch)
      /\ \A i \in 1..Len(job.batch) : job.batch[i].id \in RecordIds
      /\ job.linking => job.at <= Len(job.batch)
  BY BatchItems DEF IInv, AtWork
<1>2. job.conn \in Conns /\ job.at \in Nat \ {0} /\ job.linking \in BOOLEAN
  BY <1>1 DEF CallsJob
<1>3. Caller \in Row /\ Caller.pk \in Nat /\ Caller = instance[job.conn]
  BY <1>1, <1>2 DEF Caller, IInv, DInv, DeviceTyped, Logged, Row
<1>4. Behind \subseteq 1..Len(job.batch)
  BY <1>1, <1>2 DEF Behind
<1> QED
  BY <1>1, <1>2, <1>3, <1>4

\* The thread stays in its batch of calls, or begins one.
LEMMA BatchStays ==
    ASSUME IInv, UNCHANGED <<device, messages, packages, contacts>>, job' \in CallsJob,
           job'.at <= Len(job'.batch) + 1, Logged(job'.conn),
           job'.linking => job'.at <= Len(job'.batch) /\ job'.batch[job'.at].kind = "good"
    PROVE  /\ DInv' /\ AtWork' /\ Keys' = Keys /\ instance' = instance
           /\ PointsStored' /\ FiledUnderOwner'
<1>1. job'.kind = "calls"
  BY DEF CallsJob
<1>2. DInv' /\ Keys' = Keys /\ instance' = instance
  BY <1>1, RowsStay DEF Reading
<1>3. AtWork'
  BY <1>1, <1>2 DEF AtWork, Working, Logged, Item
<1>4. PointsStored' /\ FiledUnderOwner'
  BY <1>1, PackagesKept DEF Working
<1> QED
  BY <1>2, <1>3, <1>4

\* A batch begins.
LEMMA ReportCallsInv ==
    ASSUME IInv, NEW c \in Conns, NEW batch \in CallBatches, ReportCalls(c, batch)
    PROVE  IInv'
<1>1. /\ job' = [kind |-> "calls", conn |-> c, batch |-> batch, at |-> 1, linking |-> FALSE]
      /\ Logged(c) /\ UNCHANGED <<device, messages, packages, calls, contacts, acked, shared, removed>>
  BY DEF ReportCalls, uploads
<1>2. /\ job' \in CallsJob /\ job'.at = 1 /\ job'.batch = batch /\ ~job'.linking /\ job'.conn = c
  BY <1>1 DEF CallsJob
<1>3. Len(batch) \in Nat
  BY UploadsAssumption, LenProperties
<1>4. DInv' /\ AtWork' /\ Keys' = Keys /\ instance' = instance /\ PointsStored' /\ FiledUnderOwner'
  BY <1>1, <1>2, <1>3, BatchStays
<1>5. Tables' /\ Related'
  BY <1>1, <1>4 DEF IInv, Tables, Related
<1>6. LinksOwn'
  BY <1>1, <1>2 DEF IInv, LinksOwn, LinkedToOwn
<1>7. CallsStored'
  <2>1. Behind' = {}
    BY <1>2 DEF Behind
  <2> QED
    BY <1>1, <2>1 DEF IInv, CallsStored, StoredFor
<1> QED
  BY <1>4, <1>5, <1>6, <1>7 DEF IInv

\* A record without an id is left out.
LEMMA SkipRecordInv == IInv /\ SkipRecord => IInv'
<1> SUFFICES ASSUME IInv, SkipRecord PROVE IInv'
  OBVIOUS
<1>1. /\ Working("calls") /\ job.at <= Len(job.batch) /\ ~job.linking
      /\ job.batch[job.at].kind = "skipped"
      /\ job' = [job EXCEPT !.at = job.at + 1]
      /\ UNCHANGED <<device, messages, packages, calls, contacts, acked, shared, removed>>
  BY DEF SkipRecord, AtRecord, AtItem, Working, Advance, Item, uploads
<1>2. /\ job \in CallsJob /\ Logged(job.conn) /\ job.at \in Nat \ {0} /\ Len(job.batch) \in Nat
  BY <1>1, InCalls
<1>3. /\ job' \in CallsJob /\ job'.at = job.at + 1 /\ job'.batch = job.batch /\ ~job'.linking
      /\ job'.conn = job.conn
  BY <1>1, <1>2 DEF CallsJob
<1>4. DInv' /\ AtWork' /\ Keys' = Keys /\ instance' = instance /\ PointsStored' /\ FiledUnderOwner'
  BY <1>1, <1>2, <1>3, BatchStays
<1>5. Tables' /\ Related'
  BY <1>1, <1>4 DEF IInv, Tables, Related
<1>6. LinksOwn'
  BY <1>1, <1>3 DEF IInv, LinksOwn, LinkedToOwn
<1>7. CallsStored'
  <2>1. \A i \in Behind' : i \in Behind \/ i = job.at
    BY <1>1, <1>2, <1>3 DEF Behind
  <2>2. Caller' = Caller
    BY <1>3, <1>4 DEF Caller
  <2> QED
    BY <1>1, <1>3, <2>1, <2>2 DEF IInv, CallsStored, StoredFor
<1> QED
  BY <1>4, <1>5, <1>6, <1>7 DEF IInv

\* A record is stored for the watch; one of another watch is shared from then on.
LEMMA SaveRecordInv == IInv /\ SaveRecord => IInv'
<1> SUFFICES ASSUME IInv, SaveRecord PROVE IInv'
  OBVIOUS
<1> DEFINE r == Item.id
           e == [dev |-> Caller.pk,
                 contact |-> IF calls[r] = None THEN None ELSE calls[r].contact]
<1>1. /\ Working("calls") /\ job.at <= Len(job.batch) /\ ~job.linking
      /\ Item.kind = "good" /\ Item = job.batch[job.at] /\ Exists(Caller)
      /\ job' = [job EXCEPT !.linking = TRUE]
      /\ calls' = [calls EXCEPT ![r] = e]
      /\ shared' = IF calls[r] # None /\ calls[r].dev # Caller.pk THEN shared \cup {r} ELSE shared
      /\ UNCHANGED <<device, messages, packages, contacts, acked, removed>>
  BY DEF SaveRecord, AtRecord, AtItem, Working, Item
<1>2. /\ job \in CallsJob /\ job.conn \in Conns /\ Logged(job.conn) /\ job.at \in Nat \ {0}
      /\ Len(job.batch) \in Nat /\ Caller.pk \in Nat /\ Caller = instance[job.conn]
      /\ \A i \in 1..Len(job.batch) : job.batch[i].id \in RecordIds
      /\ Behind \subseteq 1..Len(job.batch)
  BY <1>1, InCalls
<1>3. r \in RecordIds
  BY <1>1, <1>2
<1>4. /\ job' \in CallsJob /\ job'.at = job.at /\ job'.batch = job.batch /\ job'.linking
      /\ job'.conn = job.conn
  BY <1>1, <1>2 DEF CallsJob
<1>5. DInv' /\ AtWork' /\ Keys' = Keys /\ instance' = instance /\ PointsStored' /\ FiledUnderOwner'
  BY <1>1, <1>2, <1>4, BatchStays
<1>6. Caller' = Caller /\ Item' = Item
  BY <1>4, <1>5 DEF Caller, Item
<1>7. Caller.pk \in Keys
  BY <1>1, <1>2, CopyHasKey DEF IInv, DInv
<1>8. /\ e \in Calls /\ e # None /\ e.dev = Caller.pk
      /\ e.contact # None => calls[r] # None /\ e.contact = calls[r].contact
  <2>1. calls[r] # None => calls[r] \in Calls
    BY <1>3 DEF IInv, Tables
  <2> DEFINE link == IF calls[r] = None THEN None ELSE calls[r].contact
  <2>2. link \in Nat \cup {None}
    BY <2>1 DEF Calls
  <2> HIDE DEF link
  <2>3. [dev |-> Caller.pk, contact |-> link] \in Calls
    BY <1>2, <2>2 DEF Calls
  <2>4. e \in Calls /\ e.contact = link
    BY <2>3 DEF link
  <2> QED
    BY <2>4, UploadsAssumption DEF Calls, link
<1> HIDE DEF e, r
<1>9. calls'[r] = e /\ \A s \in RecordIds : s # r => calls'[s] = calls[s]
  BY <1>1, <1>3 DEF IInv, Tables
<1>10. Tables'
  BY <1>1, <1>3, <1>8 DEF IInv, Tables
<1>11. Related'
  BY <1>1, <1>3, <1>5, <1>7, <1>8, <1>9 DEF IInv, Related
<1>12. LinksOwn'
  <2>1. ASSUME r \notin shared', e.contact # None PROVE contacts[e.contact] = e.dev
    BY <1>1, <1>3, <1>8, <2>1 DEF IInv, LinksOwn, LinkedToOwn
  <2>2. shared \subseteq shared'
    BY <1>1
  <2>3. LinkedToOwn'
    BY <1>1, <1>9, <2>1, <2>2 DEF IInv, LinksOwn, LinkedToOwn
  <2> QED
    BY <1>6, <1>8, <1>9, <2>3 DEF LinksOwn, r
<1>13. CallsStored'
  <2>1. ASSUME NEW pk, NEW s \in RecordIds, StoredFor(pk, s) PROVE StoredFor(pk, s)'
    BY <1>1, <1>8, <1>9, <2>1 DEF StoredFor
  <2>2. calls'[r] # None /\ calls'[r].dev = Caller.pk
    BY <1>8, <1>9
  <2>3. \A a \in acked : a.id \in RecordIds /\ StoredFor(a.dev, a.id)
    BY DEF IInv, CallsStored
  <2>4. ASSUME NEW i \in Behind', job.batch[i].kind # "skipped"
        PROVE  StoredFor(Caller.pk, job.batch[i].id)'
    <3>1. i \in Behind \/ i = job.at
      BY <1>1, <1>2, <1>4 DEF Behind
    <3>2. CASE i \in Behind
      <4>1. StoredFor(Caller.pk, job.batch[i].id) /\ job.batch[i].id \in RecordIds
        BY <1>1, <1>2, <2>4, <3>2 DEF IInv, CallsStored
      <4> QED
        BY <1>1, <1>4, <1>6, <1>8, <1>9, <4>1 DEF StoredFor
    <3>3. CASE i = job.at
      BY <1>1, <1>4, <1>6, <2>2, <3>3 DEF r, StoredFor
    <3> QED
      BY <3>1, <3>2, <3>3
  <2> QED
    BY <1>1, <1>4, <2>1, <2>3, <2>4 DEF IInv, CallsStored
<1> QED
  BY <1>5, <1>10, <1>11, <1>12, <1>13 DEF IInv

\* A record raises: what was stored before it stays, and is not answered.
LEMMA RecordRaisesInv == IInv /\ RecordRaises => IInv'
<1> SUFFICES ASSUME IInv, RecordRaises PROVE IInv'
  OBVIOUS
<1>1. job.conn \in Conns
  BY InCalls DEF RecordRaises, AtRecord, AtItem, Working
<1> QED
  BY <1>1, CloseInv DEF RecordRaises, Raise

\* A record is linked to a contact of the watch, or to none.
LEMMA LinkInv == IInv /\ Link => IInv'
<1> SUFFICES ASSUME IInv, Link PROVE IInv'
  OBVIOUS
<1> DEFINE r == Item.id
<1>1. /\ Working("calls") /\ job.at <= Len(job.batch) /\ job.linking
      /\ Item = job.batch[job.at]
      /\ job' = [job EXCEPT !.at = job.at + 1, !.linking = FALSE]
      /\ UNCHANGED <<device, messages, packages, contacts, acked, shared, removed>>
  BY DEF Link, AtItem, Working, Item
<1>2. /\ job \in CallsJob /\ job.conn \in Conns /\ Logged(job.conn) /\ job.at \in Nat \ {0}
      /\ Len(job.batch) \in Nat /\ Caller.pk \in Nat
      /\ \A i \in 1..Len(job.batch) : job.batch[i].id \in RecordIds
      /\ Behind \subseteq 1..Len(job.batch)
  BY <1>1, InCalls
<1>3. r \in RecordIds
  BY <1>1, <1>2
<1>4. /\ job' \in CallsJob /\ job'.at = job.at + 1 /\ job'.batch = job.batch /\ ~job'.linking
      /\ job'.conn = job.conn
  <2> DEFINE on == [job EXCEPT !.at = job.at + 1]
  <2>1. /\ on \in CallsJob /\ on.at = job.at + 1 /\ on.batch = job.batch /\ on.conn = job.conn
    BY <1>1, <1>2 DEF CallsJob
  <2>2. job' = [on EXCEPT !.linking = FALSE]
    BY <1>1
  <2> HIDE DEF on
  <2> QED
    BY <2>1, <2>2 DEF CallsJob
<1>5. DInv' /\ AtWork' /\ Keys' = Keys /\ instance' = instance /\ PointsStored' /\ FiledUnderOwner'
  BY <1>1, <1>2, <1>4, BatchStays
<1>6. Caller' = Caller /\ Behind' = Behind
  BY <1>1, <1>2, <1>4, <1>5 DEF Caller, Behind
<1> HIDE DEF r
<1> DEFINE KeptOrLinked(s) ==
             /\ calls'[s] \in Calls \cup {None}
             /\ calls'[s] # None <=> calls[s] # None
             /\ calls'[s].dev = calls[s].dev \/ calls[s] = None
             /\ calls'[s] # None /\ calls'[s].contact # None =>
                   \/ calls'[s].contact = calls[s].contact
                   \/ /\ calls'[s].contact \in DOMAIN contacts
                      /\ contacts[calls'[s].contact] = Caller.pk
                      /\ s = r
<1>7. ASSUME NEW s \in RecordIds PROVE KeptOrLinked(s)
  <2>1. CASE calls' = calls
    BY <2>1 DEF IInv, Tables
  <2>2. ASSUME NEW k \in OwnContacts, calls[r] # None, calls' = [calls EXCEPT ![r].contact = k]
        PROVE  KeptOrLinked(s)
    <3>1. k \in DOMAIN contacts /\ contacts[k] = Caller.pk /\ k \in Nat
      BY LenProperties DEF OwnContacts, IInv, Tables
    <3>2. calls[r] \in Calls
      BY <1>3, <2>2 DEF IInv, Tables
    <3> DEFINE e == [calls[r] EXCEPT !.contact = k]
    <3>3. calls' = [calls EXCEPT ![r] = e]
      BY <2>2
    <3>4. e \in Calls /\ e.dev = calls[r].dev /\ e.contact = k /\ e # None
      <4>1. e \in Calls /\ e.dev = calls[r].dev /\ e.contact = k
        BY <3>1, <3>2 DEF Calls
      <4> QED
        BY <4>1, UploadsAssumption DEF Calls
    <3> HIDE DEF e
    <3>5. calls'[s] = IF s = r THEN e ELSE calls[s]
      BY <1>3, <3>3 DEF IInv, Tables
    <3>6. CASE s = r
      BY <2>2, <3>1, <3>4, <3>5, <3>6
    <3>7. CASE s # r
      BY <3>5, <3>7 DEF IInv, Tables
    <3> QED
      BY <3>6, <3>7
  <2> QED
    BY <2>1, <2>2 DEF Link, r
<1>8. Caller.pk # None
  BY <1>2, UploadsAssumption
<1>9. Tables'
  <2>1. DOMAIN calls' = RecordIds /\ calls' = [s \in RecordIds |-> calls'[s]]
    BY DEF Link, IInv, Tables
  <2>2. calls' \in [RecordIds -> Calls \cup {None}]
    BY <1>7, <2>1
  <2> QED
    BY <1>1, <2>2 DEF IInv, Tables
<1>10. Related'
  <2>1. ASSUME NEW s \in RecordIds, calls'[s] # None
        PROVE  /\ calls'[s].dev \in Keys
               /\ calls'[s].contact # None =>
                    calls'[s].contact \in DOMAIN contacts /\ contacts[calls'[s].contact] # None
    BY <1>7, <1>8, <2>1 DEF IInv, Related
  <2> QED
    BY <1>1, <1>5, <2>1 DEF IInv, Related
<1>11. LinksOwn'
  <2>1. ASSUME NEW s \in RecordIds, s \notin shared, calls'[s] # None, calls'[s].contact # None
        PROVE  contacts[calls'[s].contact] = calls'[s].dev
    <3>1. calls[s] # None /\ calls'[s].dev = calls[s].dev
      BY <1>7, <2>1
    <3>2. CASE calls'[s].contact = calls[s].contact
      BY <2>1, <3>1, <3>2 DEF IInv, LinksOwn, LinkedToOwn
    <3>3. CASE contacts[calls'[s].contact] = Caller.pk /\ s = r
      BY <1>1, <2>1, <3>1, <3>3 DEF IInv, LinksOwn, r
    <3> QED
      BY <1>7, <2>1, <3>2, <3>3
  <2>2. LinkedToOwn'
    BY <1>1, <2>1 DEF LinkedToOwn
  <2> QED
    BY <1>4, <2>2 DEF LinksOwn
<1>12. CallsStored'
  <2>1. ASSUME NEW pk, NEW s \in RecordIds, StoredFor(pk, s) PROVE StoredFor(pk, s)'
    <3>1. CASE s \in shared \cup removed
      BY <1>1, <3>1 DEF StoredFor
    <3>2. CASE calls[s] # None /\ calls[s].dev = pk
      BY <1>7, <3>2 DEF StoredFor
    <3> QED
      BY <2>1, <3>1, <3>2 DEF StoredFor
  <2>2. \A a \in acked : a.id \in RecordIds /\ StoredFor(a.dev, a.id)
    BY DEF IInv, CallsStored
  <2>3. ASSUME NEW i \in Behind, job.batch[i].kind # "skipped"
        PROVE  StoredFor(Caller.pk, job.batch[i].id)'
    <3>1. StoredFor(Caller.pk, job.batch[i].id) /\ job.batch[i].id \in RecordIds
      BY <1>1, <1>2, <2>3 DEF IInv, CallsStored
    <3>2. \/ job.batch[i].id \in shared \cup removed
          \/ /\ calls'[job.batch[i].id] # None
             /\ calls'[job.batch[i].id].dev = Caller.pk
      BY <1>7, <3>1 DEF StoredFor
    <3> QED
      BY <1>1, <1>4, <1>6, <3>2 DEF StoredFor
  <2> QED
    BY <1>1, <1>4, <1>6, <2>1, <2>2, <2>3 DEF IInv, CallsStored
<1> QED
  BY <1>5, <1>9, <1>10, <1>11, <1>12 DEF IInv

\* The answer says that all records are stored.
LEMMA AnswerCallsInv == IInv /\ AnswerCalls => IInv'
<1> SUFFICES ASSUME IInv, AnswerCalls PROVE IInv'
  OBVIOUS
<1>1. /\ Working("calls") /\ job.at > Len(job.batch) /\ job' = None
      /\ acked' = acked \cup {[dev |-> Caller.pk, id |-> job.batch[i].id] :
                                i \in {j \in DOMAIN job.batch : job.batch[j].kind # "skipped"}}
      /\ UNCHANGED <<device, messages, packages, calls, contacts, shared, removed>>
  BY DEF AnswerCalls, AtEnd, Working
<1>2. /\ job.at \in Nat \ {0} /\ job.at <= Len(job.batch) + 1 /\ job.linking \in BOOLEAN
      /\ Len(job.batch) \in Nat /\ DOMAIN job.batch = 1..Len(job.batch) /\ Caller.pk \in Nat
      /\ \A i \in 1..Len(job.batch) : job.batch[i].id \in RecordIds
  BY <1>1, InCalls
<1>3. ~Working("points")' /\ ~Working("calls")' /\ ~Reading'
  BY <1>1 DEF Working, Reading
<1>4. DInv' /\ Keys' = Keys /\ instance' = instance
  BY <1>1, <1>3, RowsStay
<1>5. AtWork'
  BY <1>1, <1>3 DEF AtWork
<1>6. Tables' /\ Related'
  BY <1>1, <1>4 DEF IInv, Tables, Related
<1>7. PointsStored' /\ FiledUnderOwner'
  BY <1>1, <1>3, PackagesKept
<1>8. LinksOwn'
  BY <1>1, <1>3 DEF IInv, LinksOwn, LinkedToOwn
<1>9. CallsStored'
  <2>1. Behind = DOMAIN job.batch
    BY <1>1, <1>2 DEF IInv, AtWork, Behind
  <2>2. \A i \in DOMAIN job.batch : job.batch[i].kind # "skipped" =>
          StoredFor(Caller.pk, job.batch[i].id) /\ job.batch[i].id \in RecordIds
    BY <1>1, <1>2, <2>1 DEF IInv, CallsStored
  <2>3. ASSUME NEW a \in acked'
        PROVE  a \in [dev: Nat, id: RecordIds] /\ StoredFor(a.dev, a.id)
    <3>1. CASE a \in acked
      BY <3>1 DEF IInv, CallsStored
    <3>2. ASSUME NEW i \in DOMAIN job.batch, job.batch[i].kind # "skipped",
                 a = [dev |-> Caller.pk, id |-> job.batch[i].id]
          PROVE  a \in [dev: Nat, id: RecordIds] /\ StoredFor(a.dev, a.id)
      BY <1>2, <2>2, <3>2
    <3> QED
      BY <1>1, <3>1, <3>2
  <2> QED
    BY <1>1, <1>3, <2>3 DEF CallsStored, StoredFor
<1> QED
  BY <1>4, <1>5, <1>6, <1>7, <1>8, <1>9 DEF IInv

-----------------------------------------------------------------------------
(* Theorems.                                                               *)

\* The invariant holds before the first upload.
LEMMA InitInv == Init => IInv
<1> SUFFICES ASSUME Init PROVE IInv
  OBVIOUS
<1>1. DInv
  BY DeviceInitInv DEF Init
<1>2. /\ messages = {} /\ packages = <<>> /\ contacts = <<>> /\ acked = {} /\ job = None
      /\ calls = [r \in RecordIds |-> None]
      /\ ~Working("points") /\ ~Working("calls")
  BY DEF Init, DeviceInit, Working
<1>3. DOMAIN packages = {} /\ DOMAIN contacts = {}
  BY <1>2
<1>4. Tables
  BY <1>2, EmptySeq DEF Tables
<1> QED
  BY <1>1, <1>2, <1>3, <1>4 DEF IInv, AtWork, Related, PointsStored, AnsweredWhole,
     FiledUnderOwner, LinksOwn, LinkedToOwn, CallsStored

\* Every step keeps the invariant.
LEMMA NextInv == IInv /\ [Next]_vars => IInv'
<1> SUFFICES ASSUME IInv, [Next]_vars PROVE IInv'
  OBVIOUS
<1>1. CASE UNCHANGED vars
  <2>1. UNCHANGED <<device, job, messages, packages, calls, contacts, acked, shared, removed>>
    BY <1>1 DEF vars, uploads
  <2>2. DInv' /\ Keys' = Keys /\ instance' = instance
    BY <2>1, RowsStay
  <2>3. AtWork'
    BY <2>1, <2>2 DEF IInv, AtWork, Working, Logged, Item
  <2>4. Tables' /\ Related'
    BY <2>1, <2>2 DEF IInv, Tables, Related
  <2>5. PointsStored' /\ FiledUnderOwner' /\ LinksOwn' /\ CallsStored'
    BY <2>1, <2>2, CallsKept, PackagesKept
  <2> QED
    BY <2>2, <2>3, <2>4, <2>5 DEF IInv
<1>2. CASE \/ \E w \in Watches : AddContact(w)
           \/ \E k \in DOMAIN contacts : DeleteContact(k)
           \/ \E i \in DOMAIN packages : DeletePackage(i)
           \/ \E r \in RecordIds : DeleteCall(r)
  BY <1>2, AddContactInv, DeleteContactInv, DeletePackageInv, DeleteCallInv
<1>3. CASE \E c \in Conns : \/ Sms(c)
                            \/ \E batch \in PointBatches : CreatePackage(c, batch)
                            \/ \E batch \in CallBatches : ReportCalls(c, batch)
  BY <1>3, SmsInv, CreatePackageInv, ReportCallsInv
<1>4. CASE Point \/ PointRaises \/ AnswerPoints
  BY <1>4, PointInv, PointRaisesInv, AnswerPointsInv
<1>5. CASE SkipRecord \/ SaveRecord \/ RecordRaises \/ Link \/ AnswerCalls
  BY <1>5, SkipRecordInv, SaveRecordInv, RecordRaisesInv, LinkInv, AnswerCallsInv
<1> QED
  BY <1>1, <1>2, <1>3, <1>4, <1>5, DeviceInv DEF Next

\* The invariant holds in every state of the uploads.
THEOREM Inductive == Spec => []IInv
<1> QED
  BY InitInv, NextInv, PTL DEF Spec

\* Every row that another names is there: what belongs to a device goes with it, and
\* no link is left to what has been deleted, at whatever statement of a batch.
THEOREM TypeCorrect == Spec => []TypeOK
<1>1. IInv => TypeOK
  <2> SUFFICES ASSUME IInv PROVE TypeOK
    OBVIOUS
  <2>1. DeviceTyped /\ raced \cup deleted \subseteq 1..next_pk
    BY DEF IInv, DInv, EditsSaved, DeviceTyped
  <2>2. job # None => job.conn \in Conns /\ job.kind \in {"login", "points", "calls"}
    BY DEF IInv, AtWork, LoginJob, PointsJob, CallsJob
  <2> QED
    BY <2>1, <2>2 DEF IInv, DeviceTyped, Related, TypeOK
<1> QED
  BY <1>1, Inductive, PTL

\* What the admin interface saves in the row of a watch stays, however old the copies
\* are that the sessions save, but for an edit between the statements of a login.
THEOREM EditsKept == Spec => []EditKept
<1>1. IInv => EditKept
  BY DEF IInv, DInv, EditsSaved
<1> QED
  BY <1>1, Inductive, PTL

\* A session that no other has overtaken loses no charging state.
THEOREM ReportsKept == Spec => []ReportsStored
<1>1. IInv => ReportsStored
  BY DEF IInv, DInv, CopiesFresh
<1> QED
  BY <1>1, Inductive, PTL

\* Watches that were not deleted have one number each, and no number in common.
THEOREM NumbersKept == Spec => []NumbersStable
<1>1. IInv => NumbersStable
  BY NumbersOfRows DEF IInv
<1> QED
  BY <1>1, Inductive, PTL

\* An answered location message has all its points, whatever happens between them.
THEOREM AnsweredHoldsAll == Spec => []AnsweredWhole
<1>1. IInv => AnsweredWhole
  BY DEF IInv, PointsStored
<1> QED
  BY <1>1, Inductive, PTL

\* Locations go to the user of the watch, unless he changed while the session was open.
THEOREM FiledRightly == Spec => []FiledUnderOwner
<1>1. IInv => FiledUnderOwner
  BY DEF IInv
<1> QED
  BY <1>1, Inductive, PTL

\* Calls are linked to contacts of their watch, unless two watches share an id.
THEOREM LinkedRightly == Spec => []LinkedToOwn
<1>1. IInv => LinkedToOwn
  BY DEF IInv, LinksOwn
<1> QED
  BY <1>1, Inductive, PTL

\* An answered batch of calls is stored for its watch, but for deletions and shared ids.
THEOREM AnsweredAreStored == Spec => []AnsweredCallsStored
<1>1. IInv => AnsweredCallsStored
  BY DEF IInv, CallsStored, StoredFor, AnsweredCallsStored
<1> QED
  BY <1>1, Inductive, PTL
=============================================================================
