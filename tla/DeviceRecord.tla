---------------------------- MODULE DeviceRecord ----------------------------
(***************************************************************************)
(* The row of a watch and its writers: the login, heartbeat and status     *)
(* handlers of run_tcp_server.py, each with the instance its connection    *)
(* keeps since the login, and the admin interface, which is another        *)
(* process.  The handlers of all connections share one database thread: a  *)
(* job runs to its end before the next, but the admin interface may come   *)
(* between two of its statements.                                          *)
(*                                                                         *)
(* Of the columns are kept the key, the number, what only the admin        *)
(* interface writes (nick, is_bound, is_halted and user, as `user'), and   *)
(* last_charging.                                                          *)
(*                                                                         *)
(* Bounds: MaxJobs database jobs, MaxEdits steps of the other process,     *)
(* MaxTime seconds of the clock.                                           *)
(***************************************************************************)
EXTENDS Naturals

CONSTANTS Watches, Conns, Owners, None, MaxJobs, MaxEdits, MaxTime

Row == [watch: Watches, pk: Nat, baby_id: Nat, user: Owners \cup {None},
        charging: {"on", "off"}]

ASSUME DeviceAssumption ==
    /\ None \notin Owners \cup Row \cup [kind: {"login"}, conn: Conns, device: Row]
    /\ MaxJobs \in Nat /\ MaxEdits \in Nat /\ MaxTime \in Nat

VARIABLES
    row,        \* WatchDevice, by udid
    next_pk, now,
    instance,   \* device_instance of each connection
    job,        \* what the database thread is in the middle of
    edited,     \* what the admin interface saved last in each row
    raced,      \* keys of rows it saved while a login was about to
    overtaken,  \* connections after whose login another one reported a charging state
    outdated,   \* connections whose watch was edited after their login
    told,       \* the numbers that login replies have named
    deleted,    \* keys of the rows deleted
    jobs, edits

device == <<row, next_pk, now, instance, edited, raced, overtaken, outdated, told, deleted>>

\* Is the row that d was read from still there?
Exists(d) == row[d.watch] # None /\ row[d.watch].pk = d.pk

\* Model.save(): all columns, into a new row of the same key when it is gone.
Upsert(d) == row' = [row EXCEPT ![d.watch] = d]

\* Model.save(update_fields): raises when the row is gone.
SaveFields(d, columns) ==
    /\ Exists(d)
    /\ row' = [row EXCEPT ![d.watch] =
                  [f \in DOMAIN d |-> IF f \in columns THEN d[f] ELSE @[f]]]

Idle == job = None /\ jobs < MaxJobs
Logged(c) == instance[c] # None
SessionsOf(pk) == {c \in Conns : Logged(c) /\ instance[c].pk = pk}

DeviceInit ==
    /\ row = [w \in Watches |-> None]
    /\ next_pk = 1 /\ now = 0
    /\ instance = [c \in Conns |-> None]
    /\ job = None
    /\ edited = [w \in Watches |-> None]
    /\ raced = {} /\ overtaken = {} /\ outdated = {} /\ told = {} /\ deleted = {}
    /\ jobs = 0 /\ edits = 0

-----------------------------------------------------------------------------
(* handle_login_request_db: get_or_create, then save.                      *)

Found(c, w) ==
    /\ row[w] # None
    /\ job' = [kind |-> "login", conn |-> c, device |-> row[w]]
    /\ UNCHANGED <<row, next_pk>>

\* Faulty variant: the number need not be unique.
Unused(n) == n \in Nat

\* baby_id is unique in the table; it is int(time.time()) for a new row.
Free(n) == \A w \in Watches : row[w] # None => row[w].baby_id # n

Created(c, w) ==
    LET d == [watch |-> w, pk |-> next_pk, baby_id |-> now, user |-> None, charging |-> "off"]
    IN  /\ row[w] = None /\ Free(now)
        /\ row' = [row EXCEPT ![w] = d]
        /\ next_pk' = next_pk + 1
        /\ job' = [kind |-> "login", conn |-> c, device |-> d]

LoginRead(c, w) ==
    /\ Idle /\ jobs' = jobs + 1
    /\ Found(c, w) \/ Created(c, w)
    /\ UNCHANGED <<now, instance, edited, raced, overtaken, outdated, told, deleted, edits>>

\* handle_client ends: except, finally and close.
Close(c) ==
    /\ instance' = [instance EXCEPT ![c] = None]
    /\ overtaken' = overtaken \ {c} /\ outdated' = outdated \ {c}
    /\ UNCHANGED <<row, next_pk, now, edited, raced, told, deleted, edits>>

\* IntegrityError: another watch has that second's number.
LoginRefused(c, w) ==
    /\ Idle /\ jobs' = jobs + 1 /\ job' = job
    /\ row[w] = None /\ ~Free(now)
    /\ Close(c)

\* Faulty variant: a second login on a connection keeps the first instance.
AdoptFirst(c, d) == instance' = [instance EXCEPT ![c] = IF @ = None THEN d ELSE @]

\* handle_client: device_instance = instance.
Adopt(c, d) == instance' = [instance EXCEPT ![c] = d]

\* The row is saved as it was read, with a new token and the identifiers sent.
LoginSave ==
    /\ job # None /\ job.kind = "login" /\ job' = None
    /\ Upsert(job.device)
    /\ Adopt(job.conn, job.device)
    /\ told' = told \cup {[watch |-> job.device.watch, pk |-> job.device.pk,
                           baby_id |-> job.device.baby_id]}
    /\ overtaken' = overtaken \ {job.conn} /\ outdated' = outdated \ {job.conn}
    /\ UNCHANGED <<next_pk, now, edited, raced, deleted, jobs, edits>>

-----------------------------------------------------------------------------
(* update_device_status_db and handle_status_msg.                          *)

\* Faulty variant: save() without update_fields.
AllColumns == {"user", "charging"}

\* last_power, last_signal and so on: none that is kept here.
PingColumns == {}

Ping(c) ==
    /\ Idle /\ Logged(c) /\ jobs' = jobs + 1 /\ job' = job
    /\ \/ /\ SaveFields(instance[c], PingColumns)
          /\ UNCHANGED <<next_pk, now, instance, edited, raced, overtaken, outdated, told,
                         deleted, edits>>
       \/ ~Exists(instance[c]) /\ Close(c)

\* Faulty variant: the instance keeps the state of the login.
RememberNothing(c, state) == UNCHANGED instance

Remember(c, state) == instance' = [instance EXCEPT ![c].charging = state]

Report(c, state) ==
    LET d == [instance[c] EXCEPT !.charging = state]
    IN  \/ /\ instance[c].charging # state
           /\ SaveFields(d, {"charging"})
           /\ Remember(c, state)
           /\ overtaken' = overtaken \cup (SessionsOf(d.pk) \ {c})
           /\ UNCHANGED <<next_pk, now, edited, raced, outdated, told, deleted, edits>>
        \/ instance[c].charging # state /\ ~Exists(d) /\ Close(c)
        \/ /\ instance[c].charging = state
           /\ UNCHANGED <<device, edits>>

Status(c, state) ==
    /\ Idle /\ Logged(c) /\ jobs' = jobs + 1 /\ job' = job
    /\ Report(c, state)

-----------------------------------------------------------------------------
(* The connection ends, and the admin interface (WatchDeviceAdmin).        *)

Leave(c) ==
    /\ Logged(c) /\ (job # None => job.conn # c)
    /\ Close(c) /\ UNCHANGED <<job, jobs>>

\* The form writes what is not in readonly_fields, in a transaction of its own.
AdminEdit(w, u) ==
    /\ edits < MaxEdits /\ edits' = edits + 1
    /\ row[w] # None
    /\ row' = [row EXCEPT ![w].user = u]
    /\ edited' = [edited EXCEPT ![w] = [pk |-> row[w].pk, user |-> u]]
    /\ raced' = IF job # None /\ job.kind = "login" /\ job.device.pk = row[w].pk
                THEN raced \cup {row[w].pk} ELSE raced \ {row[w].pk}
    /\ outdated' = outdated \cup SessionsOf(row[w].pk)
    /\ UNCHANGED <<next_pk, now, instance, job, overtaken, told, deleted, jobs>>

AdminDelete(w) ==
    /\ edits < MaxEdits /\ edits' = edits + 1
    /\ row[w] # None
    /\ row' = [row EXCEPT ![w] = None]
    /\ deleted' = deleted \cup {row[w].pk}
    /\ UNCHANGED <<next_pk, now, instance, job, edited, raced, overtaken, outdated, told, jobs>>

Tick ==
    /\ now < MaxTime /\ now' = now + 1
    /\ UNCHANGED <<row, next_pk, instance, job, edited, raced, overtaken, outdated, told,
                   deleted, jobs, edits>>

DeviceNext ==
    \/ \E c \in Conns : \/ \E w \in Watches : LoginRead(c, w) \/ LoginRefused(c, w)
                        \/ Ping(c) \/ Leave(c)
                        \/ \E state \in {"on", "off"} : Status(c, state)
    \/ LoginSave
    \/ \E w \in Watches : \/ \E u \in Owners \cup {None} : AdminEdit(w, u)
                          \/ AdminDelete(w)
    \/ Tick

-----------------------------------------------------------------------------
(* Properties.                                                             *)

\* What the admin interface saved stays until it saves again, whatever stale
\* instances the connections hold; only an edit that falls between the read and
\* the save of a login is lost.
EditKept ==
    \A w \in Watches :
        row[w] # None /\ edited[w] # None /\ edited[w].pk = row[w].pk =>
            row[w].pk \in raced \/ row[w].user = edited[w].user

\* handle_status_msg saves only what differs from its instance: for a session that
\* no other session of the watch has overtaken, that loses no report.
ReportsStored ==
    \A c \in Conns \ overtaken :
        Logged(c) /\ Exists(instance[c]) =>
            row[instance[c].watch].charging = instance[c].charging

\* The number is taken from the clock, yet two watches are told the same one, or one
\* watch two of them, only when a row was deleted.
NumbersStable ==
    \A a, b \in told :
        (a.watch = b.watch) # (a.baby_id = b.baby_id) => {a.pk, b.pk} \cap deleted # {}
=============================================================================
