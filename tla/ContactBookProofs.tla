-------------------------- MODULE ContactBookProofs --------------------------
(***************************************************************************)
(* Where each watch has one request at a time, the contact requests        *)
(* implement ContactBook, for any number of watches, workers, requests,    *)
(* logins, failures and kills.  Between two statements of a request other  *)
(* workers write the rows of other watches only; nothing but that makes    *)
(* the request atomic.  Runs contact_phone and contact_update show what    *)
(* two requests of one watch do.                                           *)
(***************************************************************************)
EXTENDS ContactApiProofs

-----------------------------------------------------------------------------
(* What a request relies on between its statements.                        *)

\* The number that was checked is still free, but for the row being completed.
PhoneStaysFree(w) ==
    /\ at[w] \in {"stamp", "create"} => ~HasPhone(req[w].device, req[w].phone)
    /\ at[w] = "create" => snap[w].phone = req[w].phone /\ ~snap[w].ext
    /\ at[w] = "save" =>
         \A k \in DOMAIN contacts \ {key[w]} :
             contacts[k].device = snap[w].device => contacts[k].phone # snap[w].phone

\* The instance in memory is the row of the table, but for the field to be changed.
InstanceIsRow(w) ==
    /\ at[w] = "save" =>
         key[w] \in DOMAIN contacts /\ contacts[key[w]] = snap[w] /\ ~snap[w].ext
    /\ at[w] = "write" =>
         /\ key[w] \in DOMAIN contacts
         /\ snap[w] = [contacts[key[w]] EXCEPT ![req[w].field] = req[w].value]

Undisturbed == \A w \in Workers : PhoneStaysFree(w) /\ InstanceIsRow(w)

BookInv == IInv /\ TypeOK /\ OneRequestPerWatch /\ Undisturbed

\* A worker that is between two requests, or has only looked at its own, relies on nothing.
LEMMA NothingToRelyOn ==
    ASSUME NEW w \in Workers, at'[w] \notin {"stamp", "create", "save", "write"}
    PROVE  PhoneStaysFree(w)' /\ InstanceIsRow(w)'
BY DEF PhoneStaysFree, InstanceIsRow

\* Every step of a worker leaves it with what it relies on.
LEMMA WorkerUndisturbed ==
    ASSUME BookInv, NEW w \in Workers, Serve(w) \/ Fail(w)
    PROVE  PhoneStaysFree(w)' /\ InstanceIsRow(w)'
<1>t. Typed /\ Serves(w) /\ PhoneStaysFree(w) /\ InstanceIsRow(w)
  BY DEF BookInv, IInv, Undisturbed
<1> USE DEF Goto, Keep, Done
<1>1. CASE CheckPhone(w)
  <2>1. CASE Authenticated(w) /\ ~HasPhone(req[w].device, req[w].phone)
    <3>1. at'[w] = "stamp" /\ UNCHANGED <<contacts, req>>
      BY <1>1, <1>t, <2>1 DEF CheckPhone, Typed
    <3> QED
      BY <2>1, <3>1 DEF PhoneStaysFree, InstanceIsRow, HasPhone
  <2>2. CASE ~(Authenticated(w) /\ ~HasPhone(req[w].device, req[w].phone))
    <3>1. at'[w] = "idle"
      BY <1>1, <1>t, <2>2 DEF CheckPhone, Typed
    <3> QED
      BY <3>1, NothingToRelyOn
  <2> QED
    BY <2>1, <2>2
<1>2. CASE Stamp(w)
  <2>1. at[w] = "stamp" /\ at'[w] = "create" /\ UNCHANGED <<contacts, req>>
    BY <1>2, <1>t DEF Stamp, Typed
  <2>2. snap'[w].phone = req[w].phone /\ ~snap'[w].ext
    BY <1>2, <1>t DEF Stamp, Typed
  <2> QED
    BY <1>t, <2>1, <2>2 DEF PhoneStaysFree, InstanceIsRow, HasPhone
<1>3. CASE Create(w)
  <2>1. CASE snap[w].user_id \in UserIds
    <3>1. at'[w] = "idle"
      BY <1>3, <1>t, <2>1 DEF Create, Typed
    <3> QED
      BY <3>1, NothingToRelyOn
  <2>2. CASE snap[w].user_id \notin UserIds
    <3>1. /\ at[w] = "create" /\ at'[w] = "save"
          /\ contacts' = With(contacts, next_key, snap[w])
          /\ key'[w] = next_key /\ snap' = snap
      BY <1>3, <1>t, <2>2 DEF Create, Typed
    <3>2. /\ DOMAIN contacts' = DOMAIN contacts \cup {next_key}
          /\ contacts'[next_key] = snap[w]
          /\ \A y \in DOMAIN contacts : y # next_key => contacts'[y] = contacts[y]
      BY <3>1, RowWritten
    <3>3. /\ ~HasPhone(req[w].device, req[w].phone)
          /\ snap[w].phone = req[w].phone /\ ~snap[w].ext
          /\ snap[w].device = req[w].device
      BY <1>t, <3>1 DEF PhoneStaysFree, Serves, HoldsInstance
    <3>4. ASSUME NEW k \in DOMAIN contacts' \ {next_key}, contacts'[k].device = snap[w].device
          PROVE  contacts'[k].phone # snap[w].phone
      BY <3>2, <3>3, <3>4 DEF HasPhone
    <3>5. PhoneStaysFree(w)'
      BY <3>1, <3>4 DEF PhoneStaysFree
    <3>6. InstanceIsRow(w)'
      BY <3>1, <3>2, <3>3 DEF InstanceIsRow
    <3> QED
      BY <3>5, <3>6
  <2> QED
    BY <2>1, <2>2
<1>4. CASE SaveExt(w) \/ Publish(w)
  <2>1. at'[w] \in {"publish", "reply", "idle"}
    BY <1>4, <1>t DEF SaveExt, Publish, Typed
  <2> QED
    BY <2>1, NothingToRelyOn
<1>5. CASE ReplyAdded(w) \/ FindNothing(w) \/ Delete(w) \/ Write(w) \/ Fail(w)
  <2>1. at'[w] = "idle"
    BY <1>5, <1>t DEF ReplyAdded, FindNothing, Delete, Write, Fail, Typed
  <2> QED
    BY <2>1, NothingToRelyOn
<1>6. CASE Find(w)
  <2>1. PICK k \in DOMAIN contacts :
          /\ key' = [key EXCEPT ![w] = k]
          /\ IF req[w].op = "delete"
             THEN snap' = [snap EXCEPT ![w] = contacts[k]] /\ Goto(w, "delete")
             ELSE /\ snap' = [snap EXCEPT ![w] =
                                [contacts[k] EXCEPT ![req[w].field] = req[w].value]]
                  /\ Goto(w, "write")
    BY <1>6 DEF Find
  <2>2. CASE req[w].op = "delete"
    <3>1. at'[w] = "delete"
      BY <1>t, <2>1, <2>2 DEF Typed
    <3> QED
      BY <3>1, NothingToRelyOn
  <2>3. CASE req[w].op # "delete"
    <3>1. /\ at'[w] = "write" /\ key'[w] = k /\ req' = req
          /\ snap'[w] = [contacts[k] EXCEPT ![req[w].field] = req[w].value]
      BY <1>t, <2>1, <2>3 DEF Typed
    <3>2. contacts' = contacts
      BY <1>6 DEF Find
    <3> QED
      BY <3>1, <3>2 DEF PhoneStaysFree, InstanceIsRow
  <2> QED
    BY <2>2, <2>3
<1> QED
  BY <1>1, <1>2, <1>3, <1>4, <1>5, <1>6 DEF Serve

\* A worker that takes a step was busy, and goes on to another one.
LEMMA StepMoves ==
    ASSUME Typed, NEW w \in Workers, Serve(w) \/ Fail(w)
    PROVE  at[w] # "idle" /\ at'[w] # at[w]
<1> USE DEF Typed, Goto, Keep, Done
<1>1. CASE CheckPhone(w) \/ Stamp(w) \/ Fail(w)
  BY <1>1 DEF CheckPhone, Stamp, Fail
<1>2. CASE Create(w) \/ SaveExt(w)
  BY <1>2 DEF Create, SaveExt
<1>3. CASE Publish(w) \/ ReplyAdded(w) \/ FindNothing(w)
  BY <1>3 DEF Publish, ReplyAdded, FindNothing
<1>4. CASE Find(w)
  BY <1>4 DEF Find
<1>5. CASE Delete(w) \/ Write(w)
  BY <1>5 DEF Delete, Write
<1> QED
  BY <1>1, <1>2, <1>3, <1>4, <1>5 DEF Serve

\* A worker leaves the rows of every watch but its own as they are.
LEMMA RowsOfOthers ==
    ASSUME IInv, NEW v \in Workers, Serve(v) \/ Fail(v), NEW d, d # req[v].device, NEW k
    PROVE  /\ k \in DOMAIN contacts /\ contacts[k].device = d
                => k \in DOMAIN contacts' /\ contacts'[k] = contacts[k]
           /\ k \in DOMAIN contacts' /\ contacts'[k].device = d
                => k \in DOMAIN contacts /\ contacts'[k] = contacts[k]
<1>1. CASE Touches(k)
  <2>1. at'[v] # at[v] /\ TouchesOwn(v, k)
    BY <1>1, StepMoves, WorkerTouchesOwn DEF IInv
  <2> QED
    BY <1>1, <2>1 DEF TouchesOwn
<1>2. CASE ~Touches(k)
  BY <1>2 DEF Touches
<1> QED
  BY <1>1, <1>2

\* A step of a worker for another watch leaves a worker with what it relies on.
LEMMA OtherUndisturbed ==
    ASSUME BookInv, NEW w \in Workers, at[w] # "idle",
           NEW v \in Workers, v # w, Serve(v) \/ Fail(v)
    PROVE  PhoneStaysFree(w)' /\ InstanceIsRow(w)'
<1>t. Typed /\ Serves(w) /\ KeyIsOneContact /\ PhoneStaysFree(w) /\ InstanceIsRow(w)
  BY DEF BookInv, IInv, Undisturbed
<1>1. req[w].device # req[v].device
  BY <1>t, StepMoves DEF BookInv, OneRequestPerWatch
<1>2. at'[w] = at[w] /\ req'[w] = req[w] /\ key'[w] = key[w] /\ snap'[w] = snap[w]
  BY <1>t, OnlyOneMoves
<1>3. ASSUME NEW k \in DOMAIN contacts', contacts'[k].device = req[w].device
      PROVE  k \in DOMAIN contacts /\ contacts'[k] = contacts[k]
  BY <1>1, <1>3, RowsOfOthers DEF BookInv
<1>4. ASSUME NEW k \in DOMAIN contacts, contacts[k].device = req[w].device
      PROVE  k \in DOMAIN contacts' /\ contacts'[k] = contacts[k]
  BY <1>1, <1>4, RowsOfOthers DEF BookInv
<1>5. HoldsInstance(w) => snap[w].device = req[w].device
  BY <1>t DEF Serves
<1>6. PhoneStaysFree(w)'
  <2>1. CASE at[w] \in {"stamp", "create"}
    <3>1. ~HasPhone(req[w].device, req[w].phone)'
      BY <1>2, <1>3, <1>t, <2>1 DEF PhoneStaysFree, HasPhone
    <3> QED
      BY <1>2, <1>t, <2>1, <3>1 DEF PhoneStaysFree, HasPhone
  <2>2. CASE at[w] = "save"
    <3>1. snap[w].device = req[w].device
      BY <1>5, <2>2 DEF HoldsInstance
    <3>2. ASSUME NEW k \in DOMAIN contacts' \ {key[w]}, contacts'[k].device = snap[w].device
          PROVE  contacts'[k].phone # snap[w].phone
      BY <1>3, <1>t, <2>2, <3>1, <3>2 DEF PhoneStaysFree
    <3> QED
      BY <1>2, <2>2, <3>2 DEF PhoneStaysFree
  <2>3. CASE at[w] \notin {"stamp", "create", "save"}
    BY <1>2, <2>3 DEF PhoneStaysFree
  <2> QED
    BY <2>1, <2>2, <2>3
<1>7. InstanceIsRow(w)'
  <2>1. CASE at[w] \in {"save", "write"}
    <3>1. key[w] \in DOMAIN contacts /\ contacts[key[w]].device = req[w].device
      BY <1>5, <1>t, <2>1 DEF InstanceIsRow, KeyIsOneContact, HoldsKey, HoldsInstance, SameContact
    <3>2. key[w] \in DOMAIN contacts' /\ contacts'[key[w]] = contacts[key[w]]
      BY <1>4, <3>1
    <3> QED
      BY <1>2, <1>t, <3>2 DEF InstanceIsRow
  <2>2. CASE at[w] \notin {"save", "write"}
    BY <1>2, <2>2 DEF InstanceIsRow
  <2> QED
    BY <2>1, <2>2
<1> QED
  BY <1>6, <1>7

\* Where each watch has one request at a time, no step disturbs one.
LEMMA UndisturbedStep == BookInv /\ [Next]_vars => Undisturbed'
<1> SUFFICES ASSUME BookInv, [Next]_vars, NEW w \in Workers
             PROVE  PhoneStaysFree(w)' /\ InstanceIsRow(w)'
  BY DEF Undisturbed
<1>t. Typed
  BY DEF BookInv, IInv
<1>1. ASSUME NEW v \in Workers, Serve(v) \/ Fail(v)
      PROVE  PhoneStaysFree(w)' /\ InstanceIsRow(w)'
  <2>1. CASE v = w
    BY <1>1, <2>1, WorkerUndisturbed
  <2>2. CASE v # w /\ at[w] # "idle"
    BY <1>1, <2>2, OtherUndisturbed
  <2>3. CASE v # w /\ at[w] = "idle"
    <3>1. at'[w] = "idle"
      BY <1>1, <1>t, <2>3, OnlyOneMoves
    <3> QED
      BY <3>1, NothingToRelyOn
  <2> QED
    BY <2>1, <2>2, <2>3
<1>2. ASSUME NEW v \in Workers, NEW d \in Devices, NEW r \in Requests(d), Receive(v, r)
      PROVE  PhoneStaysFree(w)' /\ InstanceIsRow(w)'
  <2>1. CASE v = w
    <3>1. at'[w] \in {"check", "find"}
      BY <1>2, <1>t, <2>1 DEF Receive, Typed
    <3> QED
      BY <3>1, NothingToRelyOn
  <2>2. CASE v # w
    <3>1. /\ at'[w] = at[w] /\ req'[w] = req[w] /\ key'[w] = key[w] /\ snap'[w] = snap[w]
          /\ contacts' = contacts
      BY <1>2, <1>t, <2>2 DEF Receive, Typed
    <3>2. PhoneStaysFree(w) /\ InstanceIsRow(w)
      BY DEF BookInv, Undisturbed
    <3> QED
      BY <3>1, <3>2 DEF PhoneStaysFree, InstanceIsRow, HasPhone
  <2> QED
    BY <2>1, <2>2
<1>3. CASE (\E d \in Devices : Login(d)) \/ Tick \/ UNCHANGED vars
  <2>1. UNCHANGED <<contacts, at, req, key, snap>>
    BY <1>3 DEF Login, Tick, vars, worker
  <2> QED
    BY <2>1 DEF BookInv, Undisturbed, PhoneStaysFree, InstanceIsRow, HasPhone
<1> QED
  BY <1>1, <1>2, <1>3 DEF Next

\* Sequential requests are requests.
LEMMA SequentialIsSpec == SequentialSpec => Spec
<1>1. [Next /\ OneRequestPerWatch']_vars => [Next]_vars
  OBVIOUS
<1> QED
  BY <1>1, PTL DEF SequentialSpec, Spec

\* Each watch has one request at a time, and none is disturbed, in every state.
THEOREM SequentialUndisturbed == SequentialSpec => []BookInv
<1>1. Init => Undisturbed /\ OneRequestPerWatch
  BY DEF Init, Undisturbed, OneRequestPerWatch, PhoneStaysFree, InstanceIsRow
<1>2. /\ IInv /\ TypeOK /\ OneRequestPerWatch /\ Undisturbed
      /\ [Next /\ OneRequestPerWatch']_vars
      => (Undisturbed /\ OneRequestPerWatch)'
  <2> SUFFICES ASSUME BookInv, [Next /\ OneRequestPerWatch']_vars
               PROVE  (Undisturbed /\ OneRequestPerWatch)'
    BY DEF BookInv
  <2>1. Undisturbed'
    BY UndisturbedStep
  <2>2. CASE UNCHANGED vars
    BY <2>1, <2>2 DEF vars, worker, BookInv, OneRequestPerWatch
  <2> QED
    BY <2>1, <2>2
<1>3. SequentialSpec => []IInv /\ []TypeOK
  BY SequentialIsSpec, Inductive, TypeCorrect, PTL
<1>4. IInv /\ TypeOK /\ OneRequestPerWatch /\ Undisturbed => BookInv
  BY DEF BookInv
<1> QED
  BY <1>1, <1>2, <1>3, <1>4, PTL DEF SequentialSpec

-----------------------------------------------------------------------------
(* The refinement.                                                         *)

Entries == [k \in Complete |-> contacts[k]]

\* The complete contacts are entries of the book.
LEMMA EntriesAreContacts ==
    ASSUME TypeOK, NEW k \in DOMAIN contacts
    PROVE  /\ k \in Keys
           /\ contacts[k] \in Row
<1>1. next_key \in Nat /\ next_key - 1 <= MaxRequests /\ k \in 1..next_key - 1
  BY ContactApiAssumption DEF TypeOK
<1> QED
  BY <1>1, ContactApiAssumption DEF TypeOK, Keys

\* A table whose complete contacts stay is the same book.
LEMMA SameBook ==
    ASSUME Complete' = Complete, \A k \in Complete : contacts'[k] = contacts[k]
    PROVE  Entries' = Entries
BY DEF Entries

\* Inserting a row, not complete yet, adds nothing to the book.
LEMMA CreateStutters ==
    ASSUME BookInv, NEW w \in Workers, Create(w)
    PROVE  Entries' = Entries
<1>1. CASE contacts' = contacts
  BY <1>1 DEF Entries, Complete
<1>2. CASE contacts' = With(contacts, next_key, snap[w])
  <2>1. /\ DOMAIN contacts' = DOMAIN contacts \cup {next_key}
        /\ contacts'[next_key] = snap[w]
        /\ \A y \in DOMAIN contacts : y # next_key => contacts'[y] = contacts[y]
    BY <1>2, RowWritten
  <2>2. next_key \notin DOMAIN contacts /\ ~snap[w].ext
    BY DEF Create, BookInv, IInv, Typed, Undisturbed, PhoneStaysFree
  <2> QED
    BY <2>1, <2>2, SameBook DEF Complete
<1> QED
  BY <1>1, <1>2 DEF Create

\* Completing the row adds the contact: its id is new, and so is its number.
LEMMA SaveAdds ==
    ASSUME BookInv, NEW w \in Workers, SaveExt(w)
    PROVE  \/ Entries' = Entries
           \/ \E k \in Keys, c \in Book!Contact : Book!Add(k, c)
<1> DEFINE row == [snap[w] EXCEPT !.ext = TRUE]
<1>t. Typed /\ TypeOK /\ UniqueIds
  BY DEF BookInv, IInv
<1>1. /\ key[w] \in DOMAIN contacts /\ contacts[key[w]] = snap[w] /\ ~snap[w].ext
      /\ \A k \in DOMAIN contacts \ {key[w]} :
             contacts[k].device = snap[w].device => contacts[k].phone # snap[w].phone
  BY DEF SaveExt, BookInv, Undisturbed, PhoneStaysFree, InstanceIsRow
<1>2. key[w] \in Keys /\ snap[w] \in Row
  BY <1>t, <1>1, EntriesAreContacts
<1>3. contacts' = With(contacts, key[w], row)
  BY <1>1 DEF SaveExt, Saves
<1>4. /\ row.ext = TRUE /\ row.user_id = snap[w].user_id /\ row.device = snap[w].device
      /\ row.phone = snap[w].phone /\ row \in Book!Contact
  BY <1>2 DEF Row, Book!Contact
<1> HIDE DEF row
<1>5. /\ DOMAIN contacts' = DOMAIN contacts
      /\ contacts'[key[w]] = row
      /\ \A y \in DOMAIN contacts : y # key[w] => contacts'[y] = contacts[y]
  <2>1. /\ DOMAIN contacts' = DOMAIN contacts \cup {key[w]}
        /\ contacts'[key[w]] = row
        /\ \A y \in DOMAIN contacts : y # key[w] => contacts'[y] = contacts[y]
    BY <1>3, RowWritten
  <2> QED
    BY <1>1, <2>1
<1>6. key[w] \notin Complete /\ Complete' = Complete \cup {key[w]}
  BY <1>1, <1>4, <1>5 DEF Complete
<1>7. \A j \in Complete : contacts[j].user_id # row.user_id
                          /\ (contacts[j].device = row.device => contacts[j].phone # row.phone)
  BY <1>t, <1>1, <1>4, <1>6 DEF Complete, UniqueIds
<1>8. Entries' = [j \in Complete \cup {key[w]} |-> IF j = key[w] THEN row ELSE contacts[j]]
  BY <1>5, <1>6 DEF Entries, Complete
<1>9. Book!Add(key[w], row)
  BY <1>6, <1>7, <1>8 DEF Book!Add, Entries
<1> QED
  BY <1>2, <1>4, <1>9 DEF Book!Add

\* Deleting a row deletes its contact, if it is in the book.
LEMMA DeleteDeletes ==
    ASSUME BookInv, NEW w \in Workers, Delete(w)
    PROVE  \/ Entries' = Entries
           \/ \E k \in Complete : Book!Delete(k)
<1>1. /\ DOMAIN contacts' = DOMAIN contacts \ {key[w]}
      /\ \A y \in DOMAIN contacts \ {key[w]} : contacts'[y] = contacts[y]
  BY WithoutEffect, Zenon DEF Delete
<1>2. Complete' = Complete \ {key[w]}
  BY <1>1 DEF Complete
<1>3. CASE key[w] \notin Complete
  BY <1>1, <1>2, <1>3, SameBook DEF Complete
<1>4. CASE key[w] \in Complete
  <2>1. Entries' = [j \in Complete \ {key[w]} |-> contacts[j]]
    BY <1>1, <1>2 DEF Entries, Complete
  <2>2. Book!Delete(key[w])
    BY <2>1 DEF Book!Delete, Entries
  <2> QED
    BY <1>4, <2>2 DEF Book!Delete
<1> QED
  BY <1>3, <1>4

\* Saving an update changes the field it was asked to change, of a contact that is in
\* the book, and leaves the others alone.
LEMMA WriteUpdates ==
    ASSUME BookInv, NEW w \in Workers, Write(w)
    PROVE  /\ contacts' = [contacts EXCEPT ![key[w]][req[w].field] = req[w].value]
           /\ \/ Entries' = Entries
              \/ \E k \in Complete, f \in {"phone", "name"}, v \in Values : Book!Update(k, f, v)
<1> DEFINE f == req[w].field
           v == req[w].value
<1>t. Typed /\ TypeOK
  BY DEF BookInv, IInv
<1>1. /\ key[w] \in DOMAIN contacts
      /\ snap[w] = [contacts[key[w]] EXCEPT ![f] = v]
  BY DEF Write, BookInv, Undisturbed, InstanceIsRow
<1>2. f \in {"phone", "name"} /\ v \in Values
  BY RequestFields DEF Write, BookInv, IInv, Serves
<1>3. contacts[key[w]] \in Row
  BY <1>t, <1>1, EntriesAreContacts
<1>4. contacts' = With(contacts, key[w], snap[w])
  BY <1>1 DEF Write, Saves
<1> HIDE DEF f, v
<1>5. snap[w].ext = contacts[key[w]].ext
  BY <1>1, <1>2, <1>3 DEF Row
<1>6. /\ DOMAIN contacts' = DOMAIN contacts
      /\ contacts'[key[w]] = snap[w]
      /\ \A y \in DOMAIN contacts : y # key[w] => contacts'[y] = contacts[y]
  <2>1. /\ DOMAIN contacts' = DOMAIN contacts \cup {key[w]}
        /\ contacts'[key[w]] = snap[w]
        /\ \A y \in DOMAIN contacts : y # key[w] => contacts'[y] = contacts[y]
    BY <1>4, RowWritten
  <2> QED
    BY <1>1, <2>1
<1>7. Complete' = Complete
  BY <1>1, <1>5, <1>6 DEF Complete
<1>8. contacts' = [contacts EXCEPT ![key[w]][f] = v]
  <2>1. contacts' = [y \in DOMAIN contacts |-> IF y = key[w] THEN snap[w] ELSE contacts[y]]
    BY <1>1, <1>4 DEF With
  <2> QED
    BY <1>1, <1>6, <2>1
<1>9. CASE key[w] \notin Complete
  <2>1. Entries' = Entries
    BY <1>6, <1>7, <1>9, SameBook DEF Complete
  <2> QED
    BY <1>8, <2>1 DEF f, v
<1>10. CASE key[w] \in Complete
  <2>1. Entries[key[w]] = contacts[key[w]] /\ DOMAIN Entries = Complete
    BY <1>10 DEF Entries
  <2>2. Entries' = [j \in Complete |-> IF j = key[w] THEN snap[w] ELSE contacts[j]]
    BY <1>6, <1>7 DEF Entries, Complete
  <2>3. Entries' = [Entries EXCEPT ![key[w]][f] = v]
    BY <1>1, <2>1, <2>2 DEF Entries
  <2>4. Book!Update(key[w], f, v)
    BY <2>3 DEF Book!Update, Entries
  <2> QED
    BY <1>2, <1>8, <1>10, <2>4 DEF f, v, Book!Update
<1> QED
  BY <1>9, <1>10

\* Each statement of a worker is a step of the book, or none.
LEMMA BookStep == BookInv /\ [Next]_vars => Book!Next \/ Entries' = Entries
<1> SUFFICES ASSUME BookInv, [Next]_vars PROVE Book!Next \/ Entries' = Entries
  OBVIOUS
<1>1. CASE contacts' = contacts
  BY <1>1 DEF Entries, Complete
<1>2. DOMAIN [k \in Complete |-> contacts[k]] = Complete
  OBVIOUS
<1>3. ASSUME NEW w \in Workers, Create(w) \/ SaveExt(w) \/ Delete(w) \/ Write(w)
      PROVE  Book!Next \/ Entries' = Entries
  BY <1>2, <1>3, CreateStutters, SaveAdds, DeleteDeletes, WriteUpdates DEF Book!Next
<1>4. ASSUME NEW w \in Workers,
             CheckPhone(w) \/ Stamp(w) \/ Publish(w) \/ ReplyAdded(w)
               \/ FindNothing(w) \/ Find(w) \/ Fail(w)
      PROVE  contacts' = contacts
  BY <1>4 DEF CheckPhone, Stamp, Publish, ReplyAdded, FindNothing, Find, Fail
<1>5. CASE \/ \E w \in Workers, d \in Devices : \E r \in Requests(d) : Receive(w, r)
           \/ \E d \in Devices : Login(d)
           \/ Tick \/ UNCHANGED vars
  <2>1. contacts' = contacts
    BY <1>5 DEF Receive, Login, Tick, vars
  <2> QED
    BY <1>1, <2>1
<1> QED
  BY <1>1, <1>3, <1>4, <1>5 DEF Next, Serve

\* Watches that wait for their answers have the book the API promises: whatever
\* statement fails, whenever a process is killed or a token replaced, each request takes
\* effect at one moment or not at all.
THEOREM SequentialImplementsBook == SequentialSpec => ImplementsBook
<1>1. Init => Book!Init
  BY DEF Init, Book!Init, Complete
<1>2. BookInv /\ [Next]_vars => [Book!Next]_Entries
  BY BookStep
<1>3. SequentialSpec => Init /\ [][Next]_vars
  BY SequentialIsSpec DEF Spec
<1> QED
  BY <1>1, <1>2, <1>3, SequentialUndisturbed, PTL DEF ImplementsBook, Book!Spec, Entries

\* No contact is added to a watch that has its number, where the watch does not add two
\* at a time.
THEOREM SequentialNoDuplicate == SequentialSpec => NoDuplicatePhone
<1> DEFINE Checked == \A w \in Workers : at[w] = "create" /\ at'[w] = "save"
                        => ~HasPhone(req[w].device, req[w].phone)
<1>1. BookInv /\ [Next]_vars => [Checked]_vars
  BY DEF BookInv, Undisturbed, PhoneStaysFree
<1> HIDE DEF Checked
<1>2. SequentialSpec => [][Checked]_vars
  BY <1>1, SequentialIsSpec, SequentialUndisturbed, PTL DEF Spec
<1> QED
  BY <1>2 DEF Checked, NoDuplicatePhone

\* An update changes the field it was asked to change and nothing else in the table,
\* where its watch has no other request under way.
THEOREM SequentialOnlyRequestedField == SequentialSpec => OnlyRequestedField
<1> DEFINE Saved == \A w \in Workers : at[w] = "write" /\ at'[w] = "idle" /\ contacts' # contacts
                      => /\ key[w] \in DOMAIN contacts
                         /\ contacts' = [contacts EXCEPT ![key[w]][req[w].field] = req[w].value]
<1>1. BookInv /\ [Next]_vars => [Saved]_vars
  <2> SUFFICES ASSUME BookInv, [Next]_vars, NEW w \in Workers,
                      at[w] = "write", at'[w] = "idle", contacts' # contacts
               PROVE  /\ key[w] \in DOMAIN contacts
                      /\ contacts' = [contacts EXCEPT ![key[w]][req[w].field] = req[w].value]
    OBVIOUS
  <2>1. key[w] \in DOMAIN contacts
    BY DEF BookInv, Undisturbed, InstanceIsRow
  <2>2. PICK u \in Workers : Serve(u) \/ Fail(u)
    BY DEF Next, Receive, Login, Tick, vars
  <2>3. u = w
    BY <2>2, OnlyOneMoves DEF BookInv, IInv
  <2>4. Write(w)
    BY <2>2, <2>3 DEF Serve, CheckPhone, Stamp, Create, SaveExt, Publish, ReplyAdded, FindNothing,
                      Find, Delete, Fail
  <2> QED
    BY <2>1, <2>4, WriteUpdates
<1> HIDE DEF Saved
<1>2. SequentialSpec => [][Saved]_vars
  BY <1>1, SequentialIsSpec, SequentialUndisturbed, PTL DEF Spec
<1> QED
  BY <1>2 DEF Saved, OnlyRequestedField

=============================================================================
