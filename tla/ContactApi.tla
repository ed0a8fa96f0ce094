------------------------------ MODULE ContactApi -----------------------------
(***************************************************************************)
(* The contact requests of views.py, as the processes of the HTTP server   *)
(* run them: add_contact, update_contact and delete_contact, one database  *)
(* statement per action.  There is no transaction around a request, so the *)
(* statements of several workers interleave freely, with each other and    *)
(* with the logins of the TCP server, which replace http_token.            *)
(*                                                                         *)
(* A contact has the id its watch knows it by, a device, a phone number, a *)
(* name and a list of other numbers, of which only matters whether it has  *)
(* been set.  A request holds an instance of the row in memory: save()     *)
(* updates every column of the row with its primary key, and inserts that  *)
(* row when it is gone.                                                    *)
(*                                                                         *)
(* Bounds: MaxRequests, MaxLogins, MaxFailures and MaxTime.                *)
(***************************************************************************)
EXTENDS Naturals

CONSTANTS Devices,      \* watches
          Workers,      \* processes (or threads) of the HTTP server
          Values,       \* phone numbers and names
          None,         \* Python's None
          MaxRequests,  \* requests received
          MaxLogins,    \* times the token of a watch is replaced
          MaxFailures,  \* statements that fail and workers that are killed
          MaxTime       \* the clock's last millisecond

Ids == 1..MaxTime       \* int(time.time() * 1000)
Keys == 1..MaxRequests  \* primary keys

ASSUME ContactApiAssumption ==
    /\ MaxRequests \in Nat /\ MaxLogins \in Nat /\ MaxFailures \in Nat
    /\ MaxTime \in Nat \ {0}
    /\ None \notin Nat \cup Devices

VARIABLES
    contacts,    \* the Contact table, by primary key
    next_key,    \* AUTOINCREMENT: a key is not used twice
    removed,     \* the watches of the rows that were deleted, by primary key
    http_token,  \* WatchDevice.http_token, by the number of its replacements
    now,         \* the clock
    at,          \* what each worker does next
    req,         \* the request it serves
    key, snap,   \* the row it works on: its key, and the instance in memory
    published,   \* ids published on 'contacts_notify'
    added,       \* ids returned by "添加成功"
    updated, deleted,         \* ids an update or a deletion wrote
    received, failures        \* what the bounds count

worker == <<at, req, key, snap>>
replies == <<added, updated, deleted>>
bounds == <<received, failures>>
vars == <<contacts, next_key, removed, http_token, now, worker, published, replies, bounds>>

Row == [user_id: Ids, device: Devices, phone: Values, name: Values, ext: BOOLEAN]
Request ==
    [op: {"add"}, device: Devices, token: Nat, phone: Values, name: Values]
    \cup [op: {"delete"}, device: Devices, token: Nat, id: Ids]
    \cup [op: {"update"}, device: Devices, token: Nat, id: Ids,
          field: {"phone", "name"}, value: Values]

Without(f, x) == [y \in DOMAIN f \ {x} |-> f[y]]
With(f, x, v) == [y \in DOMAIN f \cup {x} |-> IF y = x THEN v ELSE f[y]]

TypeOK ==
    /\ DOMAIN contacts \subseteq 1..next_key - 1 /\ contacts \in [DOMAIN contacts -> Row]
    /\ \A k, l \in DOMAIN contacts : contacts[k].user_id = contacts[l].user_id => k = l
    /\ next_key \in 1..received + 1 /\ removed \in [Keys -> Devices \cup {None}]
    /\ http_token \in [Devices -> Nat]
    /\ now \in Ids
    /\ at \in [Workers -> {"idle", "check", "stamp", "create", "save", "publish",
                           "reply", "find", "delete", "write"}]
    /\ req \in [Workers -> Request \cup {None}]
    /\ key \in [Workers -> Keys \cup {None}]
    /\ snap \in [Workers -> Row \cup {None}]
    /\ published \subseteq Ids
    /\ added \subseteq Ids /\ updated \subseteq Ids /\ deleted \subseteq Ids
    /\ received \in 0..MaxRequests /\ failures \in 0..MaxFailures

Init ==
    /\ contacts = [k \in {} |-> None] /\ next_key = 1
    /\ removed = [k \in Keys |-> None]
    /\ http_token = [d \in Devices |-> 0]
    /\ now = 1
    /\ at = [w \in Workers |-> "idle"]
    /\ req = [w \in Workers |-> None]
    /\ key = [w \in Workers |-> None]
    /\ snap = [w \in Workers |-> None]
    /\ published = {} /\ added = {} /\ updated = {} /\ deleted = {}
    /\ received = 0 /\ failures = 0

-----------------------------------------------------------------------------
UserIds == {contacts[k].user_id : k \in DOMAIN contacts}
HasPhone(d, p) == \E k \in DOMAIN contacts : contacts[k].device = d /\ contacts[k].phone = p

\* The ids a watch can name: those a reply or a push told it, and those its
\* contact synchronisation reads in the table.
Known == UserIds \cup added \cup published

Requests(d) ==
    [op: {"add"}, device: {d}, token: {http_token[d]}, phone: Values, name: Values]
    \cup [op: {"delete"}, device: {d}, token: {http_token[d]}, id: Known]
    \cup [op: {"update"}, device: {d}, token: {http_token[d]}, id: Known,
          field: {"phone", "name"}, value: Values]

\* A request arrives, with the token its watch has at that moment.
Receive(w, r) ==
    /\ at[w] = "idle" /\ received < MaxRequests
    /\ received' = received + 1
    /\ req' = [req EXCEPT ![w] = r]
    /\ at' = [at EXCEPT ![w] = IF r.op = "add" THEN "check" ELSE "find"]
    /\ UNCHANGED <<contacts, next_key, removed, http_token, now, key, snap, published, replies, failures>>

\* The worker goes on to its next step, or is done with the request.
Goto(w, s) == at' = [at EXCEPT ![w] = s] /\ req' = req
Keep == UNCHANGED <<key, snap>>
Done(w) ==
    /\ at' = [at EXCEPT ![w] = "idle"]
    /\ req' = [req EXCEPT ![w] = None]
    /\ key' = [key EXCEPT ![w] = None]
    /\ snap' = [snap EXCEPT ![w] = None]

\* WatchDevice.objects.get(http_token=token, baby_id=baby_id) finds the device.
\* What it reads nothing but a login changes, so it is one step with the query
\* that follows it.
Authenticated(w) == req[w].token = http_token[req[w].device]

-----------------------------------------------------------------------------
(* add_contact.                                                            *)

\* Faulty variant: the phone number is not looked up.
CheckNothing(w) ==
    /\ at[w] = "check"
    /\ IF Authenticated(w) THEN Goto(w, "stamp") /\ Keep ELSE Done(w)
    /\ UNCHANGED <<contacts, next_key, removed, http_token, now, published, replies, bounds>>

\* A wrong token is refused, and so is a number the watch has already.
CheckPhone(w) ==
    /\ at[w] = "check"
    /\ IF Authenticated(w) /\ ~HasPhone(req[w].device, req[w].phone)
       THEN Goto(w, "stamp") /\ Keep
       ELSE Done(w)
    /\ UNCHANGED <<contacts, next_key, removed, http_token, now, published, replies, bounds>>

\* The new contact is made up, with the clock as user_id.
Stamp(w) ==
    /\ at[w] = "stamp"
    /\ snap' = [snap EXCEPT ![w] = [user_id |-> now, device |-> req[w].device,
                                    phone |-> req[w].phone, name |-> req[w].name,
                                    ext |-> FALSE]]
    /\ Goto(w, "create")
    /\ UNCHANGED <<contacts, next_key, removed, http_token, now, key, published, replies, bounds>>

\* Faulty variant: the uniqueness of user_id is not enforced.
CreateAnyway(w) ==
    /\ at[w] = "create"
    /\ contacts' = With(contacts, next_key, snap[w]) /\ next_key' = next_key + 1
    /\ key' = [key EXCEPT ![w] = next_key] /\ snap' = snap
    /\ Goto(w, "save")
    /\ UNCHANGED <<removed, http_token, now, published, replies, bounds>>

\* It is inserted; an id that is taken is an IntegrityError, hence code 500.
Create(w) ==
    /\ at[w] = "create"
    /\ IF snap[w].user_id \in UserIds
       THEN Done(w) /\ UNCHANGED <<contacts, next_key>>
       ELSE /\ contacts' = With(contacts, next_key, snap[w]) /\ next_key' = next_key + 1
            /\ key' = [key EXCEPT ![w] = next_key] /\ snap' = snap
            /\ Goto(w, "save")
    /\ UNCHANGED <<removed, http_token, now, published, replies, bounds>>

\* save(): the row is written whole; when its key is gone it is inserted again,
\* which fails if another row has its user_id by now.
Saves(k, row) == k \in DOMAIN contacts \/ row.user_id \notin UserIds

\* Faulty variant: the id is published and returned, but the row not completed.
SaveNothing(w) ==
    /\ at[w] = "save"
    /\ Goto(w, "publish") /\ Keep
    /\ UNCHANGED <<contacts, next_key, removed, http_token, now, published, replies, bounds>>

\* The other numbers are set and the row is saved with them.
SaveExt(w) ==
    /\ at[w] = "save"
    /\ LET row == [snap[w] EXCEPT !.ext = TRUE]
       IN IF Saves(key[w], row)
          THEN contacts' = With(contacts, key[w], row) /\ Goto(w, "publish") /\ Keep
          ELSE Done(w) /\ contacts' = contacts
    /\ UNCHANGED <<next_key, removed, http_token, now, published, replies, bounds>>

\* notify_add_contact publishes the id; an error of Redis is swallowed.
Publish(w) ==
    /\ at[w] = "publish"
    /\ published' \in {published, published \cup {snap[w].user_id}}
    /\ Goto(w, "reply") /\ Keep
    /\ UNCHANGED <<contacts, next_key, removed, http_token, now, replies, bounds>>

ReplyAdded(w) ==
    /\ at[w] = "reply"
    /\ added' = added \cup {snap[w].user_id}
    /\ Done(w)
    /\ UNCHANGED <<contacts, next_key, removed, http_token, now, published, updated, deleted, bounds>>

-----------------------------------------------------------------------------
(* delete_contact and update_contact.                                      *)

\* Faulty variant: the contact is looked up by its id alone.
FoundById(w, k) == Authenticated(w) /\ contacts[k].user_id = req[w].id

\* Contact.objects.get(device=device, user_id=contact_user_id) finds row k.
Found(w, k) ==
    /\ Authenticated(w)
    /\ contacts[k].device = req[w].device /\ contacts[k].user_id = req[w].id

\* Nothing was found: "操作视为成功" for a delete, 403 for an update.
FindNothing(w) ==
    /\ at[w] = "find"
    /\ \A k \in DOMAIN contacts : ~Found(w, k)
    /\ Done(w)
    /\ UNCHANGED <<contacts, next_key, removed, http_token, now, published, replies, bounds>>

\* The row is read; an update changes the requested field in memory.
Find(w) ==
    /\ at[w] = "find"
    /\ \E k \in DOMAIN contacts :
         /\ Found(w, k)
         /\ key' = [key EXCEPT ![w] = k]
         /\ IF req[w].op = "delete"
            THEN snap' = [snap EXCEPT ![w] = contacts[k]] /\ Goto(w, "delete")
            ELSE /\ snap' = [snap EXCEPT ![w] = [contacts[k] EXCEPT ![req[w].field] = req[w].value]]
                 /\ Goto(w, "write")
    /\ UNCHANGED <<contacts, next_key, removed, http_token, now, published, replies, bounds>>

\* Faulty variant: the table has no AUTOINCREMENT, and the last key is free again.
DeleteLast(w) ==
    /\ at[w] = "delete"
    /\ contacts' = Without(contacts, key[w])
    /\ next_key' = IF key[w] = next_key - 1 THEN key[w] ELSE next_key
    /\ removed' = [k \in Keys |-> IF k = key[w] THEN snap[w].device ELSE removed[k]]
    /\ deleted' = deleted \cup {req[w].id}
    /\ Done(w)
    /\ UNCHANGED <<http_token, now, published, added, updated, bounds>>

\* The row goes, if it is still there, and the deletion is confirmed.
Delete(w) ==
    /\ at[w] = "delete"
    /\ contacts' = Without(contacts, key[w])
    /\ removed' = [k \in Keys |-> IF k = key[w] THEN snap[w].device ELSE removed[k]]
    /\ deleted' = deleted \cup {req[w].id}
    /\ Done(w)
    /\ UNCHANGED <<next_key, http_token, now, published, added, updated, bounds>>

\* The instance is saved and the update is confirmed, or fails with code 500.
Write(w) ==
    /\ at[w] = "write"
    /\ IF Saves(key[w], snap[w])
       THEN contacts' = With(contacts, key[w], snap[w]) /\ updated' = updated \cup {req[w].id}
       ELSE UNCHANGED <<contacts, updated>>
    /\ Done(w)
    /\ UNCHANGED <<next_key, removed, http_token, now, published, added, deleted, bounds>>

-----------------------------------------------------------------------------
\* A statement fails, for a value the database or json.loads rejects or because
\* the database stays locked, and the request is answered with code 500; or the
\* process is killed.  What was written before stays, nothing more is done.
Fail(w) ==
    /\ at[w] # "idle" /\ failures < MaxFailures
    /\ failures' = failures + 1
    /\ Done(w)
    /\ UNCHANGED <<contacts, next_key, removed, http_token, now, published, replies, received>>

\* The TCP server logs the watch in: its token is replaced.
Login(d) ==
    /\ http_token[d] < MaxLogins
    /\ http_token' = [http_token EXCEPT ![d] = @ + 1]
    /\ UNCHANGED <<contacts, next_key, removed, now, worker, published, replies, bounds>>

Tick ==
    /\ now < MaxTime
    /\ now' = now + 1
    /\ UNCHANGED <<contacts, next_key, removed, http_token, worker, published, replies, bounds>>

Serve(w) ==
    \/ CheckPhone(w) \/ Stamp(w) \/ Create(w) \/ SaveExt(w) \/ Publish(w) \/ ReplyAdded(w)
    \/ FindNothing(w) \/ Find(w) \/ Delete(w) \/ Write(w)

Next ==
    \/ \E w \in Workers, d \in Devices : \E r \in Requests(d) : Receive(w, r)
    \/ \E w \in Workers : Serve(w) \/ Fail(w)
    \/ \E d \in Devices : Login(d)
    \/ Tick

Spec == Init /\ [][Next]_vars

\* The requests of watches that wait for the answer to one before they send the
\* next; those of different watches are served at the same time.
OneRequestPerWatch ==
    \A v, w \in Workers :
        at[v] # "idle" /\ at[w] # "idle" /\ req[v].device = req[w].device => v = w
SequentialSpec == Init /\ [][Next /\ OneRequestPerWatch']_vars

-----------------------------------------------------------------------------
(* Properties.                                                             *)

\* Whatever id a reply or a notification told is the id of a row, and of a
\* complete one, unless a request deleted it (or, for completeness, rewrote it):
\* no crash or failure between the statements of a request makes add_contact
\* announce a contact that handle_add_contact_push_db will not find.
ToldIsComplete ==
    \A i \in (added \cup published) \ deleted :
      \E k \in DOMAIN contacts :
        contacts[k].user_id = i /\ (contacts[k].ext \/ i \in updated)

\* A request writes rows of the watch it authenticated as and no others, even
\* when it names the contact of another watch or when rows come and go between
\* its statements.
Touches(k) ==
    \/ (k \in DOMAIN contacts) # (k \in DOMAIN contacts')
    \/ k \in DOMAIN contacts /\ contacts'[k] # contacts[k]
TouchesOwn(w, k) ==
    at'[w] # at[w] /\ Touches(k) =>
      /\ k \in DOMAIN contacts => contacts[k].device = req[w].device
      /\ k \in DOMAIN contacts' => contacts'[k].device = req[w].device
OwnOnly == \A w \in Workers, k \in Keys : TouchesOwn(w, k)
OwnContactsOnly == [][OwnOnly]_vars

\* While each watch has one request at a time, the complete contacts of the table are
\* the book the API promises, however the requests of different watches interleave and
\* in spite of failures, kills and logins at any step.  (Checked of SequentialSpec.)
Complete == {k \in DOMAIN contacts : contacts[k].ext}
Book == INSTANCE ContactBook WITH book <- [k \in Complete |-> contacts[k]]
ImplementsBook == Book!Spec

\* What ContactPush has of the workers is all they do to the table, when each is to
\* announce the contact it has inserted: contacts appear one by one under new keys, each
\* announcement is made or given up once, and only a save brings a deleted one back.
DeviceOf == [k \in Keys |-> IF k \in DOMAIN contacts THEN contacts[k].device ELSE None]
Announces(w) == at[w] \in {"save", "publish"}
Announcement(w) == [watch |-> snap[w].device, contact |-> key[w]]
Feed == INSTANCE ContactFeed WITH
    Watches <- Devices, MaxContacts <- MaxRequests, used <- next_key - 1,
    book <- DeviceOf, deleted <- removed,
    unannounced <- {Announcement(w) : w \in {v \in Workers : Announces(v)}}
ImplementsFeed == Feed!Spec

\* views.py checks the number of a new contact, and refuses one that exists.
NoDuplicatePhone ==
    [][\A w \in Workers : at[w] = "create" /\ at'[w] = "save"
         => ~HasPhone(req[w].device, req[w].phone)]_vars

\* views.py updates the contact by the fields of the request: saving the update
\* changes this field of this contact, and nothing else in the table.
OnlyRequestedField ==
    [][\A w \in Workers : at[w] = "write" /\ at'[w] = "idle" /\ contacts' # contacts
         => /\ key[w] \in DOMAIN contacts
            /\ contacts' = [contacts EXCEPT ![key[w]][req[w].field] = req[w].value]]_vars
=============================================================================
