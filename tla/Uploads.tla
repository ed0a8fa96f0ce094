------------------------------- MODULE Uploads -------------------------------
(***************************************************************************)
(* What watches upload: short messages, call records and locations, with   *)
(* the contacts that call records are linked to, over the rows and the     *)
(* sessions of DeviceRecord.  A batch is stored statement by statement in  *)
(* the database thread; the admin interface and the HTTP workers may come  *)
(* between two of them, and an exception ends the batch and the connection *)
(* where it is, without an answer.                                         *)
(*                                                                         *)
(* An item of a batch is "good", "skipped" (a point that is no object, a   *)
(* record without id) or "bad" (what raises when it is decoded or saved).  *)
(***************************************************************************)
EXTENDS DeviceRecord, Sequences

CONSTANTS PointBatches,  \* the `data' of location messages
          CallBatches,   \* the `recents' of call messages, records [id, kind]
          RecordIds

ASSUME UploadsAssumption ==
    /\ PointBatches \subseteq Seq({"good", "skipped", "bad"})
    /\ CallBatches \subseteq Seq([id: RecordIds, kind: {"good", "skipped", "bad"}])
    /\ None \notin Nat \cup [dev: Nat, contact: Nat \cup {None}]

VARIABLES
    messages,   \* keys of the devices with a stored short message
    packages,   \* LocationPackage, with the points stored for it
    calls,      \* CallRecord, by record_id
    contacts,   \* Contact
    acked,      \* the records of answered batches
    shared,     \* record ids used by two devices
    removed     \* record ids whose row was deleted

uploads == <<messages, packages, calls, contacts, acked, shared, removed>>
vars == <<device, job, jobs, edits, uploads>>

Keys == {row[w].pk : w \in {v \in Watches : row[v] # None}}

TypeOK ==
    /\ row \in [Watches -> Row \cup {None}]
    /\ instance \in [Conns -> Row \cup {None}]
    /\ next_pk \in Nat /\ now \in 0 .. MaxTime
    /\ job # None => job.conn \in Conns /\ job.kind \in {"login", "points", "calls"}
    /\ raced \cup deleted \subseteq 1 .. next_pk /\ overtaken \cup outdated \subseteq Conns
    /\ messages \subseteq Keys
    /\ \A i \in DOMAIN packages : packages[i].dev \in Keys \cup {None}
    /\ \A k \in DOMAIN contacts : contacts[k] \in Keys \cup {None}
    /\ \A r \in RecordIds : calls[r] # None =>
          /\ calls[r].dev \in Keys
          /\ calls[r].contact # None => contacts[calls[r].contact] # None

Init ==
    /\ DeviceInit
    /\ messages = {} /\ packages = <<>> /\ contacts = <<>>
    /\ calls = [r \in RecordIds |-> None]
    /\ acked = {} /\ shared = {} /\ removed = {}

-----------------------------------------------------------------------------
(* on_delete: CASCADE for messages, calls and contacts, SET_NULL for the   *)
(* device of a package and for the contact of a call.                      *)

\* Faulty variant: on_delete is DO_NOTHING.
KeepAnyway(key, alive) == key

Relation(key, alive) == IF key \in alive THEN key ELSE None

OnDelete(keys, ids) ==
    LET gone(r) == calls[r] # None /\ calls[r].dev \notin keys
    IN  /\ messages' = messages \cap keys
        /\ packages' = [i \in DOMAIN packages |->
                          [packages[i] EXCEPT !.dev = Relation(@, keys)]]
        /\ contacts' = [k \in DOMAIN contacts |->
                          IF k \in ids THEN Relation(contacts[k], keys) ELSE None]
        /\ calls' = [r \in RecordIds |->
                       IF calls[r] = None \/ gone(r) THEN None
                       ELSE [calls[r] EXCEPT !.contact =
                               IF @ # None /\ contacts'[@] = None THEN None ELSE @]]
        /\ removed' = removed \cup {r \in RecordIds : gone(r)}
        /\ UNCHANGED <<acked, shared>>

\* A step of DeviceRecord, with what the deletion of a device takes along.
DeviceStep == DeviceNext /\ OnDelete(Keys', DOMAIN contacts)

-----------------------------------------------------------------------------
(* What the HTTP workers and the admin interface do to the other tables.   *)

OtherProcess ==
    /\ edits < MaxEdits /\ edits' = edits + 1
    /\ UNCHANGED <<device, job, jobs>>

\* Contacts are of one phone number: the one that calls are made to.
AddContact(w) ==
    /\ OtherProcess
    /\ row[w] # None
    /\ contacts' = Append(contacts, row[w].pk)
    /\ UNCHANGED <<messages, packages, calls, acked, shared, removed>>

DeleteContact(k) ==
    /\ OtherProcess
    /\ contacts[k] # None
    /\ OnDelete(Keys, DOMAIN contacts \ {k})

DeletePackage(i) ==
    /\ OtherProcess
    /\ ~packages[i].gone
    /\ packages' = [packages EXCEPT ![i].gone = TRUE]
    /\ UNCHANGED <<messages, calls, contacts, acked, shared, removed>>

DeleteCall(r) ==
    /\ OtherProcess
    /\ calls[r] # None
    /\ calls' = [calls EXCEPT ![r] = None]
    /\ removed' = removed \cup {r}
    /\ UNCHANGED <<messages, packages, contacts, acked, shared>>

-----------------------------------------------------------------------------
\* A handler raised: the thread is free, the connection is closed.
Raise(c) ==
    /\ job' = None
    /\ Close(c)
    /\ UNCHANGED jobs

\* handle_sms_record_db: one row, and never an answer but the error packet.
Sms(c) ==
    /\ Idle /\ Logged(c) /\ jobs' = jobs + 1 /\ job' = job
    /\ \/ /\ Exists(instance[c])
          /\ messages' = messages \cup {instance[c].pk}
          /\ UNCHANGED <<device, edits>>
       \/ ~Exists(instance[c]) /\ messages' = messages /\ Close(c)
    /\ UNCHANGED <<packages, calls, contacts, acked, shared, removed>>

-----------------------------------------------------------------------------
(* handle_location_msg: the package, then its points one by one.           *)

\* The package is filed under the user of the instance; `owner' is that of the row.
Package(c, batch) ==
    [dev |-> instance[c].pk, user |-> instance[c].user, owner |-> row[instance[c].watch].user,
     outdated |-> c \in outdated, batch |-> batch, stored |-> {}, answered |-> FALSE,
     gone |-> FALSE]

CreatePackage(c, batch) ==
    /\ Idle /\ Logged(c) /\ jobs' = jobs + 1
    /\ \/ /\ Exists(instance[c])
          /\ packages' = Append(packages, Package(c, batch))
          /\ job' = [kind |-> "points", conn |-> c, batch |-> batch, at |-> 1]
          /\ UNCHANGED <<device, edits>>
       \/ ~Exists(instance[c]) /\ packages' = packages /\ job' = job /\ Close(c)
    /\ UNCHANGED <<messages, calls, contacts, acked, shared, removed>>

\* The database thread is at an item, or at the end, of a batch of this kind.
AtItem(kind) == job # None /\ job.kind = kind /\ job.at <= Len(job.batch)
AtEnd(kind) == job # None /\ job.kind = kind /\ job.at > Len(job.batch)
Item == job.batch[job.at]
Advance == job' = [job EXCEPT !.at = @ + 1]
This == packages[Len(packages)]

\* Faulty variant: the points that cannot be saved are left out.
SkipTheBad == Item # "good"

Skipped == Item = "skipped"

Point ==
    /\ AtItem("points")
    /\ \/ Skipped /\ packages' = packages
       \/ /\ Item = "good" /\ ~This.gone
          /\ packages' = [packages EXCEPT ![Len(packages)].stored = @ \cup {job.at}]
    /\ Advance
    /\ UNCHANGED <<device, jobs, edits, messages, calls, contacts, acked, shared, removed>>

\* The point cannot be saved, or its package has been deleted.
PointRaises ==
    /\ AtItem("points")
    /\ Item = "bad" \/ (Item = "good" /\ This.gone)
    /\ Raise(job.conn) /\ UNCHANGED uploads

AnswerPoints ==
    /\ AtEnd("points") /\ job' = None
    /\ packages' = [packages EXCEPT ![Len(packages)].answered = TRUE]
    /\ UNCHANGED <<device, jobs, edits, messages, calls, contacts, acked, shared, removed>>

-----------------------------------------------------------------------------
(* handle_call_record_db: update_or_create by record_id, then the link to  *)
(* a contact, whose errors are swallowed; then the next record.            *)

ReportCalls(c, batch) ==
    /\ Idle /\ Logged(c) /\ jobs' = jobs + 1
    /\ job' = [kind |-> "calls", conn |-> c, batch |-> batch, at |-> 1, linking |-> FALSE]
    /\ UNCHANGED <<device, edits, uploads>>

Caller == instance[job.conn]
AtRecord == AtItem("calls") /\ ~job.linking

SkipRecord ==
    /\ AtRecord /\ Item.kind = "skipped"
    /\ Advance
    /\ UNCHANGED <<device, jobs, edits, uploads>>

\* An existing row is taken over, with the contact it is linked to.
SaveRecord ==
    /\ AtRecord /\ Item.kind = "good" /\ Exists(Caller)
    /\ LET old == calls[Item.id]
       IN  /\ calls' = [calls EXCEPT ![Item.id] =
                          [dev |-> Caller.pk, contact |-> IF old = None THEN None ELSE old.contact]]
           /\ shared' = IF old # None /\ old.dev # Caller.pk THEN shared \cup {Item.id} ELSE shared
    /\ job' = [job EXCEPT !.linking = TRUE]
    /\ UNCHANGED <<device, jobs, edits, messages, packages, contacts, acked, removed>>

\* Faulty variant: a record that cannot be saved is left out.
LeaveRecordOut ==
    /\ AtRecord /\ Item.kind = "bad"
    /\ Advance
    /\ UNCHANGED <<device, jobs, edits, uploads>>

RecordRaises ==
    /\ AtRecord
    /\ Item.kind = "bad" \/ (Item.kind = "good" /\ ~Exists(Caller))
    /\ Raise(job.conn) /\ UNCHANGED uploads

\* Faulty variant: the number is looked up among everybody's contacts.
EveryContact == {k \in DOMAIN contacts : contacts[k] # None}

OwnContacts == {k \in DOMAIN contacts : contacts[k] = Caller.pk}

Link ==
    /\ AtItem("calls") /\ job.linking
    /\ \/ \E k \in OwnContacts :
             /\ calls[Item.id] # None
             /\ calls' = [calls EXCEPT ![Item.id].contact = k]
       \/ calls' = calls   \* no such contact, or an error
    /\ job' = [job EXCEPT !.at = @ + 1, !.linking = FALSE]
    /\ UNCHANGED <<device, jobs, edits, messages, packages, contacts, acked, shared, removed>>

AnswerCalls ==
    /\ AtEnd("calls") /\ job' = None
    /\ acked' = acked \cup {[dev |-> Caller.pk, id |-> job.batch[i].id] :
                             i \in {j \in DOMAIN job.batch : job.batch[j].kind # "skipped"}}
    /\ UNCHANGED <<device, jobs, edits, messages, packages, calls, contacts, shared, removed>>

-----------------------------------------------------------------------------
Next ==
    \/ DeviceStep
    \/ \E w \in Watches : AddContact(w)
    \/ \E k \in DOMAIN contacts : DeleteContact(k)
    \/ \E i \in DOMAIN packages : DeletePackage(i)
    \/ \E r \in RecordIds : DeleteCall(r)
    \/ \E c \in Conns : \/ Sms(c)
                        \/ \E batch \in PointBatches : CreatePackage(c, batch)
                        \/ \E batch \in CallBatches : ReportCalls(c, batch)
    \/ Point \/ PointRaises \/ AnswerPoints
    \/ SkipRecord \/ SaveRecord \/ RecordRaises \/ Link \/ AnswerCalls

Spec == Init /\ [][Next]_vars

-----------------------------------------------------------------------------
(* Properties.                                                             *)

\* A location message that was answered is stored with all its points, and one with
\* a point that cannot be saved leaves a part behind and is never answered.
AnsweredWhole ==
    \A i \in DOMAIN packages : LET p == packages[i] IN
        p.answered => p.stored = {k \in DOMAIN p.batch : p.batch[k] # "skipped"}

\* A package is filed under the user that the watch has then, unless that changed
\* while the session, which asks its instance, was open.
FiledUnderOwner ==
    \A i \in DOMAIN packages : packages[i].outdated \/ packages[i].user = packages[i].owner

\* A call is linked to a contact of its own watch, unless a second watch has used its
\* record id: the row is then taken over, and keeps the contact of the first.
LinkedToOwn ==
    \A r \in RecordIds \ shared :
        calls[r] # None /\ calls[r].contact # None => contacts[calls[r].contact] = calls[r].dev

\* The records of an answered batch are stored for the watch that sent them, unless
\* they were deleted or their ids are shared.
AnsweredCallsStored ==
    \A a \in acked :
        a.id \in shared \cup removed \/ (calls[a.id] # None /\ calls[a.id].dev = a.dev)
=============================================================================
