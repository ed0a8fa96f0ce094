--------------------------- MODULE ContactApiProofs ---------------------------
(***************************************************************************)
(* The safety of the contact requests, for any number of watches, workers  *)
(* and requests.                                                           *)
(***************************************************************************)
EXTENDS ContactApi, FiniteSets, FiniteSetTheorems, TLAPS

-----------------------------------------------------------------------------
(* The inductive invariant.                                                *)

HoldsInstance(w) == at[w] \in {"create", "save", "publish", "reply", "delete", "write"}
HoldsKey(w) == at[w] \in {"save", "publish", "reply", "delete", "write"}

\* The types, but for the bound of next_key.
Typed ==
    /\ DOMAIN contacts \subseteq 1..next_key - 1 /\ contacts \in [DOMAIN contacts -> Row]
    /\ next_key \in Nat \ {0} /\ removed \in [Keys -> Devices \cup {None}]
    /\ http_token \in [Devices -> Nat]
    /\ now \in Ids
    /\ at \in [Workers -> {"idle", "check", "stamp", "create", "save", "publish",
                           "reply", "find", "delete", "write"}]
    /\ req \in [Workers -> Request \cup {None}]
    /\ key \in [Workers -> Nat \cup {None}]
    /\ snap \in [Workers -> Row \cup {None}]
    /\ published \subseteq Ids
    /\ added \subseteq Ids /\ updated \subseteq Ids /\ deleted \subseteq Ids
    /\ received \in 0..MaxRequests /\ failures \in 0..MaxFailures

\* Rows have ids of their own.
UniqueIds == \A k, l \in DOMAIN contacts : contacts[k].user_id = contacts[l].user_id => k = l

\* Every key given out, or about to be given out, is for a request of its own.
Adding == {w \in Workers : at[w] \in {"check", "stamp", "create"}}
KeysForRequests == IsFiniteSet(Adding) /\ next_key + Cardinality(Adding) <= received + 1

\* A worker at a step of some request serves a request of that kind, and has in
\* memory an instance of a row of the watch that asked, and the row's key.
Serves(w) ==
    /\ at[w] # "idle" => req[w] \in Request
    /\ at[w] \in {"check", "stamp", "create", "save", "publish", "reply"} => req[w].op = "add"
    /\ at[w] = "find" => req[w].op \in {"delete", "update"}
    /\ at[w] = "delete" => req[w].op = "delete"
    /\ at[w] = "write" => req[w].op = "update"
    /\ at[w] \in {"delete", "write"} => snap[w].user_id = req[w].id
    /\ HoldsInstance(w) => snap[w] \in Row /\ snap[w].device = req[w].device
    /\ IF HoldsKey(w) THEN key[w] \in 1..next_key - 1 ELSE key[w] = None

SameContact(r, s) == r.user_id = s.user_id /\ r.device = s.device

\* A key stands for one id and one watch for ever: in the table, and in every
\* instance in memory, which may put a deleted row back.
KeyIsOneContact ==
    \A w \in Workers : HoldsKey(w) =>
        /\ key[w] \in DOMAIN contacts => SameContact(snap[w], contacts[key[w]])
        /\ \A v \in Workers : HoldsKey(v) /\ key[v] = key[w] => SameContact(snap[w], snap[v])

Told(i) ==
    \/ i \in deleted
    \/ \E k \in DOMAIN contacts : contacts[k].user_id = i /\ (contacts[k].ext \/ i \in updated)

\* What is announced, or about to be, is there.
ToldIsThere ==
    /\ \A i \in added \cup published : Told(i)
    /\ \A w \in Workers : at[w] \in {"publish", "reply"} => Told(snap[w].user_id)

IInv ==
    /\ Typed /\ UniqueIds /\ KeysForRequests
    /\ \A w \in Workers : Serves(w)
    /\ KeyIsOneContact /\ ToldIsThere

-----------------------------------------------------------------------------
(* The operators.                                                          *)

\* With sets one value of a function, or adds it.
LEMMA WithEffect ==
    ASSUME NEW f, NEW x, NEW v
    PROVE  /\ DOMAIN With(f, x, v) = DOMAIN f \cup {x}
           /\ With(f, x, v)[x] = v
           /\ \A y \in DOMAIN f : y # x => With(f, x, v)[y] = f[y]
BY DEF With

\* A table stays one when a row is written.
LEMMA WithRow ==
    ASSUME NEW f, NEW x, NEW v \in Row, f \in [DOMAIN f -> Row]
    PROVE  With(f, x, v) \in [DOMAIN With(f, x, v) -> Row]
BY DEF With

\* Without takes one value out.
LEMMA WithoutEffect ==
    ASSUME NEW f, NEW x
    PROVE  /\ DOMAIN Without(f, x) = DOMAIN f \ {x}
           /\ \A y \in DOMAIN f \ {x} : Without(f, x)[y] = f[y]
BY DEF Without

\* What a request of each kind holds.
LEMMA RequestFields ==
    ASSUME NEW r \in Request
    PROVE  /\ r.op \in {"add", "delete", "update"} /\ r.device \in Devices
           /\ r.op = "add" => r.phone \in Values /\ r.name \in Values
           /\ r.op # "add" => r.id \in Ids
           /\ r.op = "update" => r.field \in {"phone", "name"} /\ r.value \in Values
BY DEF Request

\* An update changes neither the id nor the watch of a row.
LEMMA SetField ==
    ASSUME NEW r \in Row, NEW f \in {"phone", "name"}, NEW v \in Values
    PROVE  /\ [r EXCEPT ![f] = v] \in Row
           /\ SameContact([r EXCEPT ![f] = v], r)
<1>1. CASE f = "phone"
  BY <1>1 DEF Row, SameContact
<1>2. CASE f = "name"
  BY <1>2 DEF Row, SameContact
<1> QED
  BY <1>1, <1>2

\* Completing a row changes neither, too.
LEMMA SetExt ==
    ASSUME NEW r \in Row
    PROVE  /\ [r EXCEPT !.ext = TRUE] \in Row /\ [r EXCEPT !.ext = TRUE].ext
           /\ SameContact([r EXCEPT !.ext = TRUE], r)
BY DEF Row, SameContact

-----------------------------------------------------------------------------
(* The invariant is inductive.                                             *)

\* The server starts without contacts and requests.
LEMMA InitInv == Init => IInv
<1> SUFFICES ASSUME Init PROVE IInv
  OBVIOUS
<1> USE DEF Init
<1>1. DOMAIN contacts = {}
  OBVIOUS
<1>2. Typed
  <2>1. 1 \in Ids /\ 0 \in 0..MaxRequests /\ 0 \in 0..MaxFailures
    BY ContactApiAssumption DEF Ids
  <2>2. contacts \in [DOMAIN contacts -> Row]
    BY <1>1
  <2> QED
    BY <1>1, <2>1, <2>2 DEF Typed
<1>3. KeysForRequests
  <2>1. Adding = {}
    BY DEF Adding
  <2> QED
    BY <2>1, FS_EmptySet DEF KeysForRequests
<1>4. UniqueIds
  BY <1>1 DEF UniqueIds
<1>5. \A w \in Workers : at[w] = "idle"
  OBVIOUS
<1>6. (\A w \in Workers : Serves(w)) /\ KeyIsOneContact
  BY <1>5 DEF Serves, KeyIsOneContact, HoldsInstance, HoldsKey
<1>7. ToldIsThere
  BY <1>5 DEF ToldIsThere
<1> QED
  BY <1>2, <1>3, <1>4, <1>6, <1>7 DEF IInv

\* The ids a watch can name are ids, and its requests are requests.
LEMMA RequestsAreRequests ==
    ASSUME Typed, NEW d \in Devices
    PROVE  Requests(d) \subseteq Request
<1>1. UserIds \subseteq Ids
  BY DEF Typed, UserIds, Row
<1>2. Known \subseteq Ids
  BY <1>1 DEF Known, Typed
<1>3. http_token[d] \in Nat
  BY DEF Typed
<1> QED
  BY <1>2, <1>3 DEF Requests, Request

\* A contact that is inserted or saved.
LEMMA WriteTyped ==
    ASSUME Typed, NEW n \in Nat, next_key <= n, NEW k \in 1..n - 1, NEW row \in Row,
           contacts' = With(contacts, k, row), next_key' = n
    PROVE  /\ DOMAIN contacts' \subseteq 1..next_key' - 1
           /\ contacts' \in [DOMAIN contacts' -> Row]
           /\ next_key' \in Nat \ {0}
<1>1. contacts' \in [DOMAIN contacts' -> Row]
  BY WithRow DEF Typed
<1>2. DOMAIN contacts' = DOMAIN contacts \cup {k}
  BY WithEffect
<1> QED
  BY <1>1, <1>2 DEF Typed

\* No step leaves the types.
LEMMA TypedStep == IInv /\ [Next]_vars => Typed'
<1> SUFFICES ASSUME IInv, [Next]_vars PROVE Typed'
  OBVIOUS
<1>t. Typed
  BY DEF IInv
<1>s. ASSUME NEW w \in Workers PROVE Serves(w)
  BY DEF IInv
<1> USE DEF Goto, Keep, Done, replies, bounds, worker
<1>1. ASSUME NEW w \in Workers, NEW d \in Devices, NEW r \in Requests(d), Receive(w, r)
      PROVE  Typed'
  BY <1>1, <1>t, RequestsAreRequests, ContactApiAssumption DEF Receive, Typed
<1>2. ASSUME NEW w \in Workers, CheckPhone(w) PROVE Typed'
  BY <1>2, <1>t DEF CheckPhone, Typed
<1>3. ASSUME NEW w \in Workers, Stamp(w) PROVE Typed'
  <2>1. req[w] \in Request /\ req[w].op = "add"
    BY <1>3, <1>s DEF Stamp, Serves
  <2>2. [user_id |-> now, device |-> req[w].device, phone |-> req[w].phone,
         name |-> req[w].name, ext |-> FALSE] \in Row
    BY <2>1, <1>t, RequestFields DEF Typed, Row
  <2> QED
    BY <1>3, <1>t, <2>2 DEF Stamp, Typed
<1>4. ASSUME NEW w \in Workers, Create(w) PROVE Typed'
  <2>1. snap[w] \in Row
    BY <1>4, <1>s DEF Create, Serves, HoldsInstance
  <2>2. CASE snap[w].user_id \in UserIds
    BY <1>4, <2>2, <1>t DEF Create, Typed
  <2>3. CASE snap[w].user_id \notin UserIds
    <3>1. contacts' = With(contacts, next_key, snap[w]) /\ next_key' = next_key + 1
      BY <1>4, <2>3 DEF Create
    <3>2. next_key \in 1..(next_key + 1) - 1 /\ next_key + 1 \in Nat /\ next_key <= next_key + 1
      BY <1>t DEF Typed
    <3>3. /\ DOMAIN contacts' \subseteq 1..next_key' - 1
          /\ contacts' \in [DOMAIN contacts' -> Row]
          /\ next_key' \in Nat \ {0}
      BY <1>t, <2>1, <3>1, <3>2, WriteTyped
    <3> QED
      BY <1>4, <2>3, <3>3, <1>t DEF Create, Typed
  <2> QED
    BY <2>2, <2>3
<1>5. ASSUME NEW w \in Workers, NEW row \in Row, key[w] \in 1..next_key - 1,
             contacts' = With(contacts, key[w], row) \/ contacts' = contacts,
             next_key' = next_key
      PROVE  /\ DOMAIN contacts' \subseteq 1..next_key' - 1
             /\ contacts' \in [DOMAIN contacts' -> Row]
  BY <1>5, <1>t, WriteTyped DEF Typed
<1>6. ASSUME NEW w \in Workers, SaveExt(w) PROVE Typed'
  <2>1. snap[w] \in Row /\ key[w] \in 1..next_key - 1
    BY <1>6, <1>s DEF SaveExt, Serves, HoldsInstance, HoldsKey
  <2>2. [snap[w] EXCEPT !.ext = TRUE] \in Row
    BY <2>1, SetExt
  <2>3. /\ DOMAIN contacts' \subseteq 1..next_key' - 1
        /\ contacts' \in [DOMAIN contacts' -> Row]
    BY <1>6, <2>1, <2>2, <1>5 DEF SaveExt
  <2> QED
    BY <1>6, <2>3, <1>t DEF SaveExt, Typed
<1>7. ASSUME NEW w \in Workers, Publish(w) \/ ReplyAdded(w) PROVE Typed'
  <2>1. snap[w].user_id \in Ids
    BY <1>7, <1>s DEF Publish, ReplyAdded, Serves, HoldsInstance, Row
  <2> QED
    BY <1>7, <1>t, <2>1 DEF Publish, ReplyAdded, Typed
<1>8. ASSUME NEW w \in Workers, FindNothing(w) PROVE Typed'
  BY <1>8, <1>t DEF FindNothing, Typed
<1>9. ASSUME NEW w \in Workers, Find(w) PROVE Typed'
  <2>1. PICK k \in DOMAIN contacts :
          /\ key' = [key EXCEPT ![w] = k]
          /\ IF req[w].op = "delete"
             THEN snap' = [snap EXCEPT ![w] = contacts[k]] /\ Goto(w, "delete")
             ELSE /\ snap' = [snap EXCEPT ![w] =
                                [contacts[k] EXCEPT ![req[w].field] = req[w].value]]
                  /\ Goto(w, "write")
    BY <1>9 DEF Find
  <2>2. k \in Nat /\ contacts[k] \in Row
    BY <1>t DEF Typed
  <2>3. req[w] \in Request /\ req[w].op \in {"delete", "update"}
    BY <1>9, <1>s DEF Find, Serves
  <2>4. CASE req[w].op = "delete"
    BY <1>9, <1>t, <2>1, <2>2, <2>4 DEF Find, Typed
  <2>5. CASE req[w].op = "update"
    <3>1. [contacts[k] EXCEPT ![req[w].field] = req[w].value] \in Row
      BY <2>2, <2>3, <2>5, RequestFields, SetField
    <3>2. key' \in [Workers -> Nat \cup {None}] /\ snap' \in [Workers -> Row \cup {None}]
          /\ at' = [at EXCEPT ![w] = "write"] /\ req' = req
      BY <1>t, <2>1, <2>2, <2>5, <3>1 DEF Typed
    <3> QED
      BY <1>9, <1>t, <3>2 DEF Find, Typed
  <2> QED
    BY <2>3, <2>4, <2>5
<1>10. ASSUME NEW w \in Workers, Delete(w) PROVE Typed'
  <2>0. snap[w].device \in Devices
    BY <1>10, <1>s DEF Delete, Serves, HoldsInstance, Row
  <2>1. req[w].id \in Ids
    BY <1>10, <1>s, RequestFields DEF Delete, Serves
  <2>2. DOMAIN contacts' \subseteq DOMAIN contacts /\ contacts' \in [DOMAIN contacts' -> Row]
    BY <1>10, <1>t, WithoutEffect DEF Delete, Without, Typed
  <2> QED
    BY <1>10, <1>t, <2>0, <2>1, <2>2 DEF Delete, Typed
<1>11. ASSUME NEW w \in Workers, Write(w) PROVE Typed'
  <2>1. snap[w] \in Row /\ key[w] \in 1..next_key - 1 /\ req[w].id \in Ids
    BY <1>11, <1>s, RequestFields DEF Write, Serves, HoldsInstance, HoldsKey
  <2>2. /\ DOMAIN contacts' \subseteq 1..next_key' - 1
        /\ contacts' \in [DOMAIN contacts' -> Row]
    BY <1>11, <2>1, <1>5 DEF Write
  <2> QED
    BY <1>11, <2>1, <2>2, <1>t DEF Write, Typed
<1>12. ASSUME NEW w \in Workers, Fail(w) PROVE Typed'
  BY <1>12, <1>t, ContactApiAssumption DEF Fail, Typed
<1>13. ASSUME NEW d \in Devices, Login(d) PROVE Typed'
  BY <1>13, <1>t DEF Login, Typed
<1>14. CASE Tick
  BY <1>14, <1>t, ContactApiAssumption DEF Tick, Typed, Ids
<1>15. CASE UNCHANGED vars
  BY <1>15, <1>t DEF vars, Typed
<1> QED
  BY <1>1, <1>2, <1>3, <1>4, <1>6, <1>7, <1>8, <1>9, <1>10, <1>11, <1>12, <1>13, <1>14, <1>15
     DEF Next, Serve

\* How a worker that goes on changes the set of those that are adding.
LEMMA AddingStep ==
    ASSUME Typed, NEW w \in Workers, NEW s, at' = [at EXCEPT ![w] = s]
    PROVE  Adding' = IF s \in {"check", "stamp", "create"} THEN Adding \cup {w} ELSE Adding \ {w}
BY DEF Typed, Adding

\* A worker that goes on without a new key leaves the keys enough.
LEMMA KeysStay ==
    ASSUME IInv, NEW w \in Workers, NEW s, at' = [at EXCEPT ![w] = s],
           s \in {"check", "stamp", "create"} => w \in Adding,
           next_key' = next_key, received' = received
    PROVE  KeysForRequests'
<1>1. IsFiniteSet(Adding) /\ Cardinality(Adding) \in Nat
  BY FS_CardinalityType DEF IInv, KeysForRequests
<1>2. Adding' = Adding \/ Adding' = Adding \ {w}
  <2>1. CASE s \in {"check", "stamp", "create"}
    <3>1. Adding' = Adding \cup {w} /\ w \in Adding
      BY <2>1, AddingStep DEF IInv
    <3> QED
      BY <3>1
  <2>2. CASE s \notin {"check", "stamp", "create"}
    BY <2>2, AddingStep DEF IInv
  <2> QED
    BY <2>1, <2>2
<1>3. IsFiniteSet(Adding') /\ Cardinality(Adding') <= Cardinality(Adding)
  <2>1. CASE Adding' = Adding
    BY <1>1, <2>1
  <2>2. CASE Adding' = Adding \ {w}
    <3>1. IsFiniteSet(Adding \ {w})
          /\ Cardinality(Adding \ {w}) \in {Cardinality(Adding) - 1, Cardinality(Adding)}
      BY <1>1, FS_RemoveElement
    <3> QED
      BY <1>1, <2>2, <3>1
  <2> QED
    BY <1>2, <2>1, <2>2
<1>4. Cardinality(Adding) \in Nat /\ Cardinality(Adding') \in Nat
  BY <1>1, <1>3, FS_CardinalityType
<1> QED
  BY <1>3, <1>4 DEF IInv, KeysForRequests, Typed

\* No step gives out more keys than there were requests.
LEMMA KeysStep == IInv /\ [Next]_vars => KeysForRequests'
<1> SUFFICES ASSUME IInv, [Next]_vars PROVE KeysForRequests'
  OBVIOUS
<1>t. Typed /\ IsFiniteSet(Adding) /\ next_key + Cardinality(Adding) <= received + 1
  BY DEF IInv, KeysForRequests
<1>c. Cardinality(Adding) \in Nat
  BY <1>t, FS_CardinalityType
<1> USE DEF Goto, Keep, Done, replies, bounds, worker
<1>1. ASSUME NEW w \in Workers, NEW d \in Devices, NEW r \in Requests(d), Receive(w, r)
      PROVE  KeysForRequests'
  <2>1. Adding' \in {Adding \cup {w}, Adding \ {w}}
    BY <1>1, <1>t, AddingStep DEF Receive
  <2>2. IsFiniteSet(Adding') /\ Cardinality(Adding') <= Cardinality(Adding) + 1
    <3>1. CASE Adding' = Adding \cup {w}
      <4>1. /\ IsFiniteSet(Adding \cup {w})
            /\ Cardinality(Adding \cup {w}) \in {Cardinality(Adding), Cardinality(Adding) + 1}
        BY <1>t, FS_AddElement
      <4> QED
        BY <1>c, <3>1, <4>1
    <3>2. CASE Adding' = Adding \ {w}
      <4>1. /\ IsFiniteSet(Adding \ {w})
            /\ Cardinality(Adding \ {w}) \in {Cardinality(Adding) - 1, Cardinality(Adding)}
        BY <1>t, FS_RemoveElement
      <4> QED
        BY <1>c, <3>2, <4>1
    <3> QED
      BY <2>1, <3>1, <3>2
  <2>3. Cardinality(Adding') \in Nat
    BY <2>2, FS_CardinalityType
  <2> QED
    BY <1>1, <1>t, <1>c, <2>2, <2>3 DEF Receive, KeysForRequests, Typed
<1>2. ASSUME NEW w \in Workers, Create(w) PROVE KeysForRequests'
  <2>1. CASE snap[w].user_id \in UserIds
    BY <1>2, <2>1, KeysStay DEF Create
  <2>2. CASE snap[w].user_id \notin UserIds
    <3>1. w \in Adding /\ at' = [at EXCEPT ![w] = "save"]
          /\ next_key' = next_key + 1 /\ received' = received
      BY <1>2, <2>2 DEF Create, Adding
    <3>2. Adding' = Adding \ {w}
      BY <1>t, <3>1, AddingStep
    <3>3. IsFiniteSet(Adding') /\ Cardinality(Adding') = Cardinality(Adding) - 1
      BY <1>t, <3>1, <3>2, FS_RemoveElement
    <3>4. Cardinality(Adding') \in Nat
      BY <3>3, FS_CardinalityType
    <3> QED
      BY <1>t, <1>c, <3>1, <3>3, <3>4 DEF KeysForRequests, Typed
  <2> QED
    BY <2>1, <2>2
<1>3. ASSUME NEW w \in Workers,
             CheckPhone(w) \/ Stamp(w) \/ SaveExt(w) \/ Publish(w) \/ ReplyAdded(w)
               \/ FindNothing(w) \/ Find(w) \/ Delete(w) \/ Write(w) \/ Fail(w)
      PROVE  KeysForRequests'
  <2>1. next_key' = next_key /\ received' = received
    BY <1>3 DEF CheckPhone, Stamp, SaveExt, Publish, ReplyAdded, FindNothing, Find, Delete, Write, Fail
  <2>2. PICK s : /\ at' = [at EXCEPT ![w] = s]
                 /\ s \in {"check", "stamp", "create"} => at[w] \in {"check", "stamp", "create"}
    <3>1. CASE CheckPhone(w) \/ Stamp(w)
      BY <3>1 DEF CheckPhone, Stamp
    <3>2. CASE SaveExt(w) \/ Publish(w) \/ ReplyAdded(w)
      BY <3>2 DEF SaveExt, Publish, ReplyAdded
    <3>3. CASE FindNothing(w) \/ Find(w)
      BY <3>3 DEF FindNothing, Find
    <3>4. CASE Delete(w) \/ Write(w) \/ Fail(w)
      BY <3>4 DEF Delete, Write, Fail
    <3> QED
      BY <1>3, <3>1, <3>2, <3>3, <3>4
  <2>3. s \in {"check", "stamp", "create"} => w \in Adding
    BY <2>2 DEF Adding
  <2> QED
    BY <2>1, <2>2, <2>3, KeysStay
<1>4. CASE (\E d \in Devices : Login(d)) \/ Tick \/ UNCHANGED vars
  <2>1. UNCHANGED <<at, next_key, received>>
    BY <1>4 DEF Login, Tick, vars
  <2> QED
    BY <1>t, <2>1 DEF KeysForRequests, Adding
<1> QED
  BY <1>1, <1>2, <1>3, <1>4 DEF Next, Serve

\* The table after a row is written.
LEMMA RowWritten ==
    ASSUME NEW k, NEW row, contacts' = With(contacts, k, row)
    PROVE  /\ DOMAIN contacts' = DOMAIN contacts \cup {k}
           /\ contacts'[k] = row
           /\ \A y \in DOMAIN contacts : y # k => contacts'[y] = contacts[y]
BY DEF With

\* A row is saved under the id its key has always had, or under one that is free.
LEMMA SaveUnique ==
    ASSUME UniqueIds, NEW k, NEW row, contacts' = With(contacts, k, row),
           k \in DOMAIN contacts => row.user_id = contacts[k].user_id,
           k \notin DOMAIN contacts => row.user_id \notin UserIds
    PROVE  UniqueIds'
<1>1. /\ DOMAIN contacts' = DOMAIN contacts \cup {k}
      /\ contacts'[k] = row
      /\ \A y \in DOMAIN contacts : y # k => contacts'[y] = contacts[y]
  BY RowWritten
<1>2. ASSUME NEW i \in DOMAIN contacts', NEW j \in DOMAIN contacts',
             contacts'[i].user_id = contacts'[j].user_id
      PROVE  i = j
  <2>1. CASE i # k /\ j # k
    BY <1>1, <1>2, <2>1 DEF UniqueIds
  <2>2. CASE i = k /\ j # k
    BY <1>1, <1>2, <2>2 DEF UniqueIds, UserIds
  <2>3. CASE i # k /\ j = k
    BY <1>1, <1>2, <2>3 DEF UniqueIds, UserIds
  <2> QED
    BY <2>1, <2>2, <2>3
<1> QED
  BY <1>2 DEF UniqueIds

\* What save() finds, for a worker that holds a key: the same contact, or none.
LEMMA SavedContact ==
    ASSUME IInv, NEW w \in Workers, HoldsKey(w), NEW row, SameContact(row, snap[w])
    PROVE  key[w] \in DOMAIN contacts => SameContact(row, contacts[key[w]])
BY DEF IInv, KeyIsOneContact, SameContact

\* No step gives two rows one id.
LEMMA UniqueStep == IInv /\ [Next]_vars => UniqueIds'
<1> SUFFICES ASSUME IInv, [Next]_vars PROVE UniqueIds'
  OBVIOUS
<1>u. UniqueIds /\ Typed
  BY DEF IInv
<1>1. CASE contacts' = contacts
  BY <1>1, <1>u DEF UniqueIds
<1>2. ASSUME NEW w \in Workers, Create(w) PROVE UniqueIds'
  <2>1. next_key \notin DOMAIN contacts
    BY <1>u DEF Typed
  <2> QED
    BY <1>1, <1>2, <1>u, <2>1, SaveUnique DEF Create
<1>3. ASSUME NEW w \in Workers, NEW row, HoldsKey(w), SameContact(row, snap[w]),
             Saves(key[w], row), contacts' = With(contacts, key[w], row)
      PROVE  UniqueIds'
  <2>1. key[w] \in DOMAIN contacts => row.user_id = contacts[key[w]].user_id
    BY <1>3, SavedContact DEF SameContact
  <2> QED
    BY <1>3, <1>u, <2>1, SaveUnique DEF Saves
<1>4. ASSUME NEW w \in Workers, SaveExt(w) PROVE UniqueIds'
  <2>1. HoldsKey(w) /\ SameContact([snap[w] EXCEPT !.ext = TRUE], snap[w])
    BY <1>4, SetExt DEF SaveExt, HoldsKey, HoldsInstance, IInv, Serves
  <2> QED
    BY <1>1, <1>3, <1>4, <2>1 DEF SaveExt
<1>5. ASSUME NEW w \in Workers, Write(w) PROVE UniqueIds'
  <2>1. HoldsKey(w) /\ SameContact(snap[w], snap[w])
    BY <1>5 DEF Write, HoldsKey, SameContact
  <2> QED
    BY <1>1, <1>3, <1>5, <2>1 DEF Write
<1>6. ASSUME NEW w \in Workers, Delete(w) PROVE UniqueIds'
  <2>1. /\ DOMAIN contacts' = DOMAIN contacts \ {key[w]}
        /\ \A y \in DOMAIN contacts \ {key[w]} : contacts'[y] = contacts[y]
    BY <1>6, WithoutEffect, Zenon DEF Delete
  <2> QED
    BY <1>u, <2>1 DEF UniqueIds
<1>7. ASSUME NEW w \in Workers,
             CheckPhone(w) \/ Stamp(w) \/ Publish(w) \/ ReplyAdded(w)
               \/ FindNothing(w) \/ Find(w) \/ Fail(w)
      PROVE  UniqueIds'
  <2>1. contacts' = contacts
    BY <1>7 DEF CheckPhone, Stamp, Publish, ReplyAdded, FindNothing, Find, Fail
  <2> QED
    BY <1>1, <2>1
<1>8. CASE \/ \E w \in Workers, d \in Devices : \E r \in Requests(d) : Receive(w, r)
           \/ \E d \in Devices : Login(d)
           \/ Tick \/ UNCHANGED vars
  <2>1. contacts' = contacts
    BY <1>8 DEF Receive, Login, Tick, vars
  <2> QED
    BY <1>1, <2>1
<1> QED
  BY <1>2, <1>4, <1>5, <1>6, <1>7, <1>8 DEF Next, Serve

\* A worker that does nothing keeps its request and what it holds.
LEMMA OtherServes ==
    ASSUME Typed, NEW v \in Workers, Serves(v), next_key' \in {next_key, next_key + 1},
           at'[v] = at[v], req'[v] = req[v], key'[v] = key[v], snap'[v] = snap[v]
    PROVE  Serves(v)'
<1>1. next_key \in Nat
  BY DEF Typed
<1> QED
  BY <1>1 DEF Serves, HoldsInstance, HoldsKey

\* A worker that is done has nothing to keep.
LEMMA DoneServes ==
    ASSUME Typed, NEW w \in Workers, at'[w] = "idle", key'[w] = None
    PROVE  Serves(w)'
BY DEF Serves, HoldsInstance, HoldsKey

\* A worker that becomes idle forgets the key it worked on.
LEMMA DoneForgets ==
    ASSUME Typed, NEW w \in Workers, Serve(w) \/ Fail(w), at'[w] = "idle"
    PROVE  key'[w] = None
<1> USE DEF Typed, Goto, Keep, Done
<1>1. CASE CheckPhone(w) \/ Fail(w) \/ FindNothing(w)
  BY <1>1 DEF CheckPhone, Fail, FindNothing
<1>2. CASE Stamp(w) \/ Publish(w)
  BY <1>2 DEF Stamp, Publish
<1>3. CASE Create(w)
  BY <1>3 DEF Create
<1>4. CASE SaveExt(w)
  BY <1>4 DEF SaveExt
<1>5. CASE ReplyAdded(w) \/ Delete(w) \/ Write(w)
  BY <1>5 DEF ReplyAdded, Delete, Write
<1>6. CASE Find(w)
  BY <1>6 DEF Find
<1> QED
  BY <1>1, <1>2, <1>3, <1>4, <1>5, <1>6 DEF Serve

\* Each step of a worker leaves the other workers alone.
LEMMA OnlyOneMoves ==
    ASSUME Typed, NEW w \in Workers, NEW v \in Workers, v # w,
           Serve(w) \/ Fail(w) \/ \E d \in Devices : \E r \in Requests(d) : Receive(w, r)
    PROVE  at'[v] = at[v] /\ req'[v] = req[v] /\ key'[v] = key[v] /\ snap'[v] = snap[v]
<1> USE DEF Typed, Goto, Keep, Done
<1>1. CASE CheckPhone(w) \/ Stamp(w) \/ Fail(w)
  BY <1>1 DEF CheckPhone, Stamp, Fail
<1>2. CASE Create(w)
  BY <1>2 DEF Create
<1>3. CASE SaveExt(w) \/ Publish(w) \/ ReplyAdded(w)
  BY <1>3 DEF SaveExt, Publish, ReplyAdded
<1>4. CASE FindNothing(w)
  BY <1>4 DEF FindNothing
<1>5. CASE Find(w)
  BY <1>5 DEF Find
<1>6. CASE Delete(w) \/ Write(w)
  BY <1>6 DEF Delete, Write
<1>7. CASE \E d \in Devices : \E r \in Requests(d) : Receive(w, r)
  BY <1>7 DEF Receive
<1> QED
  BY <1>1, <1>2, <1>3, <1>4, <1>5, <1>6, <1>7 DEF Serve

\* The next key grows by one at most.
LEMMA NextKey == [Next]_vars => next_key' \in {next_key, next_key + 1}
BY DEF Next, Serve, Receive, CheckPhone, Stamp, Create, SaveExt, Publish, ReplyAdded, FindNothing,
       Find, Delete, Write, Fail, Login, Tick, vars

\* The worker that moves serves its request at its next step, too.
LEMMA MovingServes ==
    ASSUME IInv, NEW w \in Workers, Serve(w) \/ Fail(w)
    PROVE  Serves(w)'
<1>t. Typed /\ Serves(w) /\ next_key \in Nat \ {0}
  BY DEF IInv, Typed
<1> USE DEF Goto, Keep, Done
<1>1. CASE at'[w] = "idle"
  <2>1. key'[w] = None
    BY <1>1, <1>t, DoneForgets
  <2> QED
    BY <1>1, <1>t, <2>1, DoneServes
<1>2. CASE CheckPhone(w)
  <2>1. CASE at' = [at EXCEPT ![w] = "stamp"] /\ UNCHANGED <<req, key, snap>>
    BY <1>2, <1>t, <2>1 DEF CheckPhone, Serves, HoldsInstance, HoldsKey, Typed
  <2> QED
    BY <1>1, <1>2, <1>t, <2>1 DEF CheckPhone, Typed
<1>3. CASE Stamp(w)
  <2>1. req[w] \in Request /\ req[w].op = "add"
    BY <1>3, <1>t DEF Stamp, Serves
  <2> DEFINE row == [user_id |-> now, device |-> req[w].device, phone |-> req[w].phone,
                     name |-> req[w].name, ext |-> FALSE]
  <2>2. row \in Row /\ row.device = req[w].device
    BY <1>t, <2>1, RequestFields DEF Typed, Row
  <2>3. at'[w] = "create" /\ req' = req /\ snap'[w] = row /\ key'[w] = None
    BY <1>3, <1>t DEF Stamp, Typed, Serves, HoldsKey
  <2> QED
    BY <2>1, <2>2, <2>3 DEF Serves, HoldsInstance, HoldsKey
<1>4. CASE Create(w)
  <2>1. CASE snap[w].user_id \in UserIds
    BY <1>1, <1>4, <1>t, <2>1 DEF Create, Typed
  <2>2. CASE snap[w].user_id \notin UserIds
    <3>1. /\ at'[w] = "save" /\ req' = req /\ snap' = snap
          /\ key'[w] = next_key /\ next_key' = next_key + 1
      BY <1>4, <1>t, <2>2 DEF Create, Typed
    <3>2. req[w] \in Request /\ req[w].op = "add" /\ snap[w] \in Row /\ snap[w].device = req[w].device
      BY <1>4, <1>t DEF Create, Serves, HoldsInstance
    <3>3. key'[w] \in 1..next_key' - 1
      BY <1>t, <3>1
    <3> QED
      BY <3>1, <3>2, <3>3 DEF Serves, HoldsInstance, HoldsKey
  <2> QED
    BY <2>1, <2>2
<1>5. CASE SaveExt(w) \/ Publish(w) \/ ReplyAdded(w)
  <2>1. at'[w] = "idle" \/ (/\ at'[w] \in {"publish", "reply"}
                            /\ UNCHANGED <<req, key, snap, next_key>>)
    BY <1>5, <1>t DEF SaveExt, Publish, ReplyAdded, Typed
  <2>2. CASE at'[w] \in {"publish", "reply"} /\ UNCHANGED <<req, key, snap, next_key>>
    <3>1. at[w] \in {"save", "publish", "reply"}
      BY <1>5 DEF SaveExt, Publish, ReplyAdded
    <3> QED
      BY <1>t, <2>2, <3>1 DEF Serves, HoldsInstance, HoldsKey
  <2> QED
    BY <1>1, <2>1, <2>2
<1>6. CASE Find(w)
  <2>1. PICK k \in DOMAIN contacts :
          /\ Found(w, k)
          /\ key' = [key EXCEPT ![w] = k]
          /\ IF req[w].op = "delete"
             THEN snap' = [snap EXCEPT ![w] = contacts[k]] /\ Goto(w, "delete")
             ELSE /\ snap' = [snap EXCEPT ![w] =
                                [contacts[k] EXCEPT ![req[w].field] = req[w].value]]
                  /\ Goto(w, "write")
    BY <1>6 DEF Find
  <2>2. k \in 1..next_key - 1 /\ contacts[k] \in Row /\ next_key' = next_key
    BY <1>6, <1>t DEF Typed, Find
  <2>3. req[w] \in Request /\ req[w].op \in {"delete", "update"}
    BY <1>6, <1>t DEF Find, Serves
  <2>4. contacts[k].device = req[w].device /\ contacts[k].user_id = req[w].id
    BY <2>1 DEF Found
  <2>5. req' = req /\ key'[w] = k
    BY <1>t, <2>1 DEF Typed
  <2>6. CASE req[w].op = "delete"
    <3>1. snap'[w] = contacts[k] /\ at'[w] = "delete"
      BY <1>t, <2>1, <2>6 DEF Typed
    <3> QED
      BY <2>2, <2>3, <2>4, <2>5, <2>6, <3>1 DEF Serves, HoldsInstance, HoldsKey
  <2>7. CASE req[w].op = "update"
    <3> DEFINE row == [contacts[k] EXCEPT ![req[w].field] = req[w].value]
    <3>1. row \in Row /\ SameContact(row, contacts[k])
      BY <2>2, <2>3, <2>7, RequestFields, SetField
    <3>2. snap'[w] = row /\ at'[w] = "write"
      BY <1>t, <2>1, <2>7 DEF Typed
    <3> HIDE DEF row
    <3> QED
      BY <2>2, <2>3, <2>4, <2>5, <2>7, <3>1, <3>2 DEF Serves, HoldsInstance, HoldsKey, SameContact
  <2> QED
    BY <2>3, <2>6, <2>7
<1>7. CASE FindNothing(w) \/ Delete(w) \/ Write(w) \/ Fail(w)
  BY <1>1, <1>7, <1>t DEF FindNothing, Delete, Write, Fail, Typed
<1> QED
  BY <1>2, <1>3, <1>4, <1>5, <1>6, <1>7 DEF Serve

\* Every worker serves its request at every step.
LEMMA ServesStep == IInv /\ [Next]_vars => \A v \in Workers : Serves(v)'
<1> SUFFICES ASSUME IInv, [Next]_vars, NEW v \in Workers PROVE Serves(v)'
  OBVIOUS
<1>t. Typed /\ Serves(v) /\ next_key' \in {next_key, next_key + 1}
  BY NextKey DEF IInv
<1>1. CASE UNCHANGED worker
  BY <1>1, <1>t, OtherServes DEF worker
<1>2. CASE (\E d \in Devices : Login(d)) \/ Tick \/ UNCHANGED vars
  BY <1>1, <1>2 DEF Login, Tick, vars, worker
<1>3. ASSUME NEW w \in Workers, NEW d \in Devices, NEW r \in Requests(d), Receive(w, r)
      PROVE  Serves(v)'
  <2>1. CASE v # w
    BY <1>3, <1>t, <2>1, OnlyOneMoves, OtherServes
  <2>2. CASE v = w
    <3>1. r \in Request
      BY <1>3, <1>t, RequestsAreRequests
    <3>2. /\ req'[v] = r
          /\ at'[v] = IF r.op = "add" THEN "check" ELSE "find"
          /\ key'[v] = None
      BY <1>3, <1>t, <2>2 DEF Receive, Typed, Serves, HoldsKey
    <3>3. r.op \in {"add", "delete", "update"}
      BY <3>1, RequestFields
    <3> QED
      BY <3>1, <3>2, <3>3 DEF Serves, HoldsInstance, HoldsKey
  <2> QED
    BY <2>1, <2>2
<1>4. ASSUME NEW w \in Workers, Serve(w) \/ Fail(w)
      PROVE  Serves(v)'
  BY <1>4, <1>t, OnlyOneMoves, OtherServes, MovingServes
<1> QED
  BY <1>2, <1>3, <1>4 DEF Next

\* Where no key is given out or read, and rows are written from instances in
\* memory, a key goes on to stand for one contact.
LEMMA KeyStays ==
    ASSUME KeyIsOneContact,
           \A v \in Workers : HoldsKey(v)' =>
               HoldsKey(v) /\ key'[v] = key[v] /\ SameContact(snap'[v], snap[v]),
           \A k \in DOMAIN contacts' :
               \/ k \in DOMAIN contacts /\ SameContact(contacts'[k], contacts[k])
               \/ \E v \in Workers :
                      HoldsKey(v) /\ key[v] = k /\ SameContact(contacts'[k], snap[v])
    PROVE  KeyIsOneContact'
<1>1. ASSUME NEW w \in Workers, HoldsKey(w)', key'[w] \in DOMAIN contacts'
      PROVE  SameContact(snap'[w], contacts'[key'[w]])
  <2>1. HoldsKey(w) /\ key'[w] = key[w] /\ SameContact(snap'[w], snap[w])
    BY <1>1
  <2>2. CASE key[w] \in DOMAIN contacts /\ SameContact(contacts'[key[w]], contacts[key[w]])
    BY <2>1, <2>2 DEF KeyIsOneContact, SameContact
  <2>3. ASSUME NEW v \in Workers, HoldsKey(v), key[v] = key[w],
               SameContact(contacts'[key[w]], snap[v])
        PROVE  SameContact(snap'[w], contacts'[key'[w]])
    BY <2>1, <2>3 DEF KeyIsOneContact, SameContact
  <2> QED
    BY <1>1, <2>1, <2>2, <2>3
<1>2. ASSUME NEW w \in Workers, NEW v \in Workers, HoldsKey(w)', HoldsKey(v)', key'[v] = key'[w]
      PROVE  SameContact(snap'[w], snap'[v])
  BY <1>2 DEF KeyIsOneContact, SameContact
<1> QED
  BY <1>1, <1>2 DEF KeyIsOneContact, HoldsKey, SameContact

\* What no step of a worker changes but in the row it writes.
LEMMA KeyStaysQuiet ==
    ASSUME IInv, NEW w \in Workers, Serve(w) \/ Fail(w), contacts' = contacts,
           HoldsKey(w)' => HoldsKey(w) /\ key'[w] = key[w] /\ snap'[w] = snap[w]
    PROVE  KeyIsOneContact'
<1>1. ASSUME NEW v \in Workers, HoldsKey(v)'
      PROVE  HoldsKey(v) /\ key'[v] = key[v] /\ SameContact(snap'[v], snap[v])
  <2>1. CASE v = w
    BY <1>1, <2>1 DEF SameContact
  <2>2. CASE v # w
    BY <1>1, <2>2, OnlyOneMoves DEF IInv, HoldsKey, SameContact
  <2> QED
    BY <2>1, <2>2
<1>2. \A k \in DOMAIN contacts' : SameContact(contacts'[k], contacts[k])
  BY DEF SameContact
<1> QED
  BY <1>1, <1>2, KeyStays DEF IInv

\* A row that is saved is one of the instances in memory.
LEMMA KeyStaysSaved ==
    ASSUME IInv, NEW w \in Workers, Serve(w), HoldsKey(w), NEW row, SameContact(row, snap[w]),
           contacts' = With(contacts, key[w], row),
           HoldsKey(w)' => key'[w] = key[w] /\ snap'[w] = snap[w]
    PROVE  KeyIsOneContact'
<1>1. ASSUME NEW v \in Workers, HoldsKey(v)'
      PROVE  HoldsKey(v) /\ key'[v] = key[v] /\ SameContact(snap'[v], snap[v])
  <2>1. CASE v = w
    BY <1>1, <2>1 DEF SameContact
  <2>2. CASE v # w
    BY <1>1, <2>2, OnlyOneMoves DEF IInv, HoldsKey, SameContact
  <2> QED
    BY <2>1, <2>2
<1>2. /\ DOMAIN contacts' = DOMAIN contacts \cup {key[w]}
      /\ contacts'[key[w]] = row
      /\ \A y \in DOMAIN contacts : y # key[w] => contacts'[y] = contacts[y]
  BY RowWritten
<1>3. ASSUME NEW k \in DOMAIN contacts'
      PROVE  \/ k \in DOMAIN contacts /\ SameContact(contacts'[k], contacts[k])
             \/ \E v \in Workers : HoldsKey(v) /\ key[v] = k /\ SameContact(contacts'[k], snap[v])
  <2>1. CASE k = key[w]
    BY <1>2, <2>1
  <2>2. CASE k # key[w]
    BY <1>2, <2>2 DEF SameContact
  <2> QED
    BY <2>1, <2>2
<1> QED
  BY <1>1, <1>3, KeyStays DEF IInv

\* A key that a worker is given is new, or that of the row it has just read.
LEMMA KeyGiven ==
    ASSUME IInv, NEW w \in Workers, Serve(w), HoldsKey(w)', key'[w] \in DOMAIN contacts',
           SameContact(snap'[w], contacts'[key'[w]]),
           \A k \in DOMAIN contacts' \ {key'[w]} :
               k \in DOMAIN contacts /\ contacts'[k] = contacts[k],
           \/ key'[w] \in DOMAIN contacts /\ contacts' = contacts
           \/ \A v \in Workers : HoldsKey(v) => key[v] # key'[w]
    PROVE  KeyIsOneContact'
<1>1. ASSUME NEW v \in Workers, v # w
      PROVE  /\ HoldsKey(v)' <=> HoldsKey(v)
             /\ key'[v] = key[v] /\ snap'[v] = snap[v]
  BY <1>1, OnlyOneMoves DEF IInv, HoldsKey
<1>2. ASSUME NEW v \in Workers, v # w, HoldsKey(v), key[v] = key'[w]
      PROVE  SameContact(snap[v], snap'[w])
  BY <1>2 DEF IInv, KeyIsOneContact, SameContact
<1>3. ASSUME NEW v \in Workers, HoldsKey(v)', key'[v] \in DOMAIN contacts'
      PROVE  SameContact(snap'[v], contacts'[key'[v]])
  <2>1. CASE v = w
    BY <2>1
  <2>2. CASE v # w /\ key'[v] = key'[w]
    BY <1>1, <1>2, <1>3, <2>2 DEF SameContact
  <2>3. CASE v # w /\ key'[v] # key'[w]
    BY <1>1, <1>3, <2>3 DEF IInv, KeyIsOneContact
  <2> QED
    BY <2>1, <2>2, <2>3
<1>4. ASSUME NEW u \in Workers, NEW v \in Workers, HoldsKey(u)', HoldsKey(v)', key'[v] = key'[u]
      PROVE  SameContact(snap'[u], snap'[v])
  <2>1. CASE u = w /\ v = w
    BY <2>1 DEF SameContact
  <2>2. CASE u = w /\ v # w
    BY <1>1, <1>2, <1>4, <2>2 DEF SameContact
  <2>3. CASE u # w /\ v = w
    BY <1>1, <1>2, <1>4, <2>3 DEF SameContact
  <2>4. CASE u # w /\ v # w
    BY <1>1, <1>4, <2>4 DEF IInv, KeyIsOneContact
  <2> QED
    BY <2>1, <2>2, <2>3, <2>4
<1> QED
  BY <1>3, <1>4 DEF KeyIsOneContact, HoldsKey, SameContact

\* A key stands for one contact after every step.
LEMMA KeyStep == IInv /\ [Next]_vars => KeyIsOneContact'
<1> SUFFICES ASSUME IInv, [Next]_vars PROVE KeyIsOneContact'
  OBVIOUS
<1>t. Typed
  BY DEF IInv
<1> USE DEF Goto, Keep, Done
<1>1. ASSUME NEW w \in Workers, NEW d \in Devices, NEW r \in Requests(d), Receive(w, r)
      PROVE  KeyIsOneContact'
  <2>1. UNCHANGED <<contacts, key, snap>> /\ \A v \in Workers : HoldsKey(v)' => HoldsKey(v)
    BY <1>1, <1>t DEF Receive, HoldsKey, Typed
  <2> QED
    BY <2>1, KeyStays DEF IInv, SameContact
<1>2. ASSUME NEW w \in Workers, CheckPhone(w) \/ Stamp(w) \/ FindNothing(w) \/ Fail(w)
      PROVE  KeyIsOneContact'
  <2>1. contacts' = contacts /\ ~HoldsKey(w)'
    BY <1>2, <1>t DEF CheckPhone, Stamp, FindNothing, Fail, HoldsKey, Typed
  <2> QED
    BY <1>2, <2>1, KeyStaysQuiet DEF Serve
<1>3. ASSUME NEW w \in Workers, Publish(w) \/ ReplyAdded(w)
      PROVE  KeyIsOneContact'
  <2>1. contacts' = contacts
        /\ (HoldsKey(w)' => HoldsKey(w) /\ key'[w] = key[w] /\ snap'[w] = snap[w])
    BY <1>3, <1>t DEF Publish, ReplyAdded, HoldsKey, Typed
  <2> QED
    BY <1>3, <2>1, KeyStaysQuiet DEF Serve
<1>4. ASSUME NEW w \in Workers, Create(w) PROVE KeyIsOneContact'
  <2>1. CASE snap[w].user_id \in UserIds
    <3>1. contacts' = contacts /\ ~HoldsKey(w)'
      BY <1>4, <1>t, <2>1 DEF Create, HoldsKey, Typed
    <3> QED
      BY <1>4, <3>1, KeyStaysQuiet DEF Serve
  <2>2. CASE snap[w].user_id \notin UserIds
    <3>1. /\ contacts' = With(contacts, next_key, snap[w])
          /\ key'[w] = next_key /\ snap' = snap /\ HoldsKey(w)'
      BY <1>4, <1>t, <2>2 DEF Create, HoldsKey, Typed
    <3>2. /\ DOMAIN contacts' = DOMAIN contacts \cup {next_key}
          /\ contacts'[next_key] = snap[w]
          /\ \A y \in DOMAIN contacts : y # next_key => contacts'[y] = contacts[y]
      BY <3>1, RowWritten
    <3>3. \A v \in Workers : HoldsKey(v) => key[v] # next_key
      BY <1>t DEF IInv, Serves, Typed
    <3> QED
      BY <1>4, <3>1, <3>2, <3>3, KeyGiven DEF Serve, SameContact
  <2> QED
    BY <2>1, <2>2
<1>5. ASSUME NEW w \in Workers, SaveExt(w) PROVE KeyIsOneContact'
  <2>1. HoldsKey(w) /\ SameContact([snap[w] EXCEPT !.ext = TRUE], snap[w])
    BY <1>5, SetExt DEF SaveExt, HoldsKey, HoldsInstance, IInv, Serves
  <2>2. CASE Saves(key[w], [snap[w] EXCEPT !.ext = TRUE])
    BY <1>5, <2>1, <2>2, KeyStaysSaved DEF SaveExt, Serve
  <2>3. CASE ~Saves(key[w], [snap[w] EXCEPT !.ext = TRUE])
    <3>1. contacts' = contacts /\ ~HoldsKey(w)'
      BY <1>5, <1>t, <2>3 DEF SaveExt, HoldsKey, Typed
    <3> QED
      BY <1>5, <3>1, KeyStaysQuiet DEF Serve
  <2> QED
    BY <2>2, <2>3
<1>6. ASSUME NEW w \in Workers, Write(w) PROVE KeyIsOneContact'
  <2>1. HoldsKey(w) /\ ~HoldsKey(w)' /\ SameContact(snap[w], snap[w])
    BY <1>6, <1>t DEF Write, HoldsKey, SameContact, Typed
  <2> QED
    BY <1>6, <2>1, KeyStaysSaved, KeyStaysQuiet DEF Write, Serve
<1>7. ASSUME NEW w \in Workers, Find(w) PROVE KeyIsOneContact'
  <2>1. PICK k \in DOMAIN contacts :
          /\ key' = [key EXCEPT ![w] = k]
          /\ IF req[w].op = "delete"
             THEN snap' = [snap EXCEPT ![w] = contacts[k]] /\ Goto(w, "delete")
             ELSE /\ snap' = [snap EXCEPT ![w] =
                                [contacts[k] EXCEPT ![req[w].field] = req[w].value]]
                  /\ Goto(w, "write")
    BY <1>7 DEF Find
  <2>2. contacts[k] \in Row /\ contacts' = contacts /\ key'[w] = k /\ HoldsKey(w)'
    BY <1>7, <1>t, <2>1 DEF Typed, Find, HoldsKey
  <2>3. req[w] \in Request /\ req[w].op \in {"delete", "update"}
    BY <1>7 DEF Find, Serves, IInv
  <2>4. SameContact(snap'[w], contacts[k])
    <3>1. CASE req[w].op = "delete"
      BY <1>t, <2>1, <3>1 DEF Typed, SameContact
    <3>2. CASE req[w].op = "update"
      <4>1. snap'[w] = [contacts[k] EXCEPT ![req[w].field] = req[w].value]
        BY <1>t, <2>1, <3>2 DEF Typed
      <4> QED
        BY <2>2, <2>3, <3>2, <4>1, RequestFields, SetField
    <3> QED
      BY <2>3, <3>1, <3>2
  <2> QED
    BY <1>7, <2>2, <2>4, KeyGiven DEF Serve
<1>8. ASSUME NEW w \in Workers, Delete(w) PROVE KeyIsOneContact'
  <2>1. /\ DOMAIN contacts' = DOMAIN contacts \ {key[w]}
        /\ \A y \in DOMAIN contacts \ {key[w]} : contacts'[y] = contacts[y]
    BY <1>8, WithoutEffect, Zenon DEF Delete
  <2>2. ASSUME NEW v \in Workers, HoldsKey(v)'
        PROVE  HoldsKey(v) /\ key'[v] = key[v] /\ SameContact(snap'[v], snap[v])
    BY <1>8, <1>t, <2>2 DEF Delete, HoldsKey, SameContact, Typed
  <2>3. \A k \in DOMAIN contacts' : k \in DOMAIN contacts /\ SameContact(contacts'[k], contacts[k])
    BY <2>1 DEF SameContact
  <2> QED
    BY <2>2, <2>3, KeyStays DEF IInv
<1>9. CASE (\E d \in Devices : Login(d)) \/ Tick \/ UNCHANGED vars
  <2>1. UNCHANGED <<contacts, at, key, snap>>
    BY <1>9 DEF Login, Tick, vars, worker
  <2>2. UNCHANGED contacts /\ \A v \in Workers : HoldsKey(v)' => HoldsKey(v)
    BY <2>1 DEF HoldsKey
  <2> QED
    BY <2>1, <2>2, KeyStays DEF IInv, SameContact
<1> QED
  BY <1>1, <1>2, <1>3, <1>4, <1>5, <1>6, <1>7, <1>8, <1>9 DEF Next, Serve

\* An id stays told where its row stays complete, is updated or is deleted.
LEMMA ToldStays ==
    ASSUME NEW i, Told(i), deleted \subseteq deleted', updated \subseteq updated',
           \A k \in DOMAIN contacts : contacts[k].user_id = i =>
               \/ i \in deleted'
               \/ /\ k \in DOMAIN contacts' /\ contacts'[k].user_id = i
                  /\ contacts[k].ext => contacts'[k].ext \/ i \in updated'
    PROVE  Told(i)'
BY DEF Told

\* What was told stays true, unless it is deleted.
LEMMA ToldForEver ==
    ASSUME IInv, [Next]_vars, NEW i, Told(i)
    PROVE  Told(i)'
<1>t. Typed
  BY DEF IInv
<1>1. CASE UNCHANGED <<contacts, updated, deleted>>
  BY <1>1, ToldStays
<1>2. ASSUME NEW w \in Workers, Create(w) PROVE Told(i)'
  <2>1. UNCHANGED <<updated, deleted>>
    BY <1>2 DEF Create, replies
  <2>2. CASE contacts' = contacts
    BY <1>1, <2>1, <2>2
  <2>3. CASE contacts' = With(contacts, next_key, snap[w])
    <3>1. /\ DOMAIN contacts' = DOMAIN contacts \cup {next_key}
          /\ \A y \in DOMAIN contacts : y # next_key => contacts'[y] = contacts[y]
      BY <2>3, RowWritten
    <3>2. next_key \notin DOMAIN contacts
      BY <1>t DEF Typed
    <3> QED
      BY <2>1, <3>1, <3>2, ToldStays
  <2> QED
    BY <1>2, <2>2, <2>3 DEF Create
<1>3. ASSUME NEW w \in Workers, NEW row, HoldsKey(w), SameContact(row, snap[w]),
             contacts' = With(contacts, key[w], row),
             deleted' = deleted, updated \subseteq updated',
             row.ext \/ snap[w].user_id \in updated'
      PROVE  Told(i)'
  <2>1. /\ DOMAIN contacts' = DOMAIN contacts \cup {key[w]}
        /\ contacts'[key[w]] = row
        /\ \A y \in DOMAIN contacts : y # key[w] => contacts'[y] = contacts[y]
    BY <1>3, RowWritten
  <2>2. key[w] \in DOMAIN contacts => SameContact(row, contacts[key[w]])
    BY <1>3, SavedContact
  <2>3. ASSUME NEW k \in DOMAIN contacts, contacts[k].user_id = i
        PROVE  /\ k \in DOMAIN contacts' /\ contacts'[k].user_id = i
               /\ contacts[k].ext => contacts'[k].ext \/ i \in updated'
    <3>1. CASE k = key[w]
      BY <1>3, <2>1, <2>2, <2>3, <3>1 DEF SameContact
    <3>2. CASE k # key[w]
      BY <2>1, <2>3, <3>2
    <3> QED
      BY <3>1, <3>2
  <2> QED
    BY <1>3, <2>3, ToldStays
<1>4. ASSUME NEW w \in Workers, SaveExt(w) PROVE Told(i)'
  <2> DEFINE row == [snap[w] EXCEPT !.ext = TRUE]
  <2>1. HoldsKey(w) /\ SameContact(row, snap[w]) /\ row.ext
    BY <1>4, SetExt DEF SaveExt, HoldsKey, HoldsInstance, IInv, Serves
  <2>2. UNCHANGED <<updated, deleted>> /\ contacts' \in {contacts, With(contacts, key[w], row)}
    BY <1>4 DEF SaveExt, replies
  <2> HIDE DEF row
  <2> QED
    BY <1>1, <1>3, <2>1, <2>2
<1>5. ASSUME NEW w \in Workers, Write(w) PROVE Told(i)'
  <2>1. HoldsKey(w) /\ SameContact(snap[w], snap[w]) /\ snap[w].user_id = req[w].id
    BY <1>5 DEF Write, HoldsKey, SameContact, IInv, Serves
  <2>2. deleted' = deleted
    BY <1>5 DEF Write
  <2>3. \/ UNCHANGED <<contacts, updated>>
        \/ /\ contacts' = With(contacts, key[w], snap[w])
           /\ updated' = updated \cup {req[w].id}
    BY <1>5 DEF Write
  <2> QED
    BY <1>1, <1>3, <2>1, <2>2, <2>3
<1>6. ASSUME NEW w \in Workers, Delete(w) PROVE Told(i)'
  <2>1. /\ DOMAIN contacts' = DOMAIN contacts \ {key[w]}
        /\ \A y \in DOMAIN contacts \ {key[w]} : contacts'[y] = contacts[y]
    BY <1>6, WithoutEffect, Zenon DEF Delete
  <2>2. HoldsKey(w) /\ SameContact(snap[w], snap[w]) /\ snap[w].user_id = req[w].id
    BY <1>6 DEF Delete, HoldsKey, SameContact, IInv, Serves
  <2>3. key[w] \in DOMAIN contacts => contacts[key[w]].user_id = req[w].id
    BY <2>2, SavedContact DEF SameContact
  <2>4. updated' = updated /\ deleted' = deleted \cup {req[w].id}
    BY <1>6 DEF Delete
  <2>5. ASSUME NEW k \in DOMAIN contacts, contacts[k].user_id = i
        PROVE  i \in deleted' \/ (k \in DOMAIN contacts' /\ contacts'[k] = contacts[k])
    BY <2>1, <2>3, <2>4, <2>5
  <2> QED
    BY <2>4, <2>5, ToldStays
<1>7. ASSUME NEW w \in Workers,
             CheckPhone(w) \/ Stamp(w) \/ Publish(w) \/ ReplyAdded(w)
               \/ FindNothing(w) \/ Find(w) \/ Fail(w)
      PROVE  Told(i)'
  <2>1. UNCHANGED <<contacts, updated, deleted>>
    BY <1>7 DEF CheckPhone, Stamp, Publish, ReplyAdded, FindNothing, Find, Fail, replies
  <2> QED
    BY <1>1, <2>1
<1>8. CASE \/ \E w \in Workers, d \in Devices : \E r \in Requests(d) : Receive(w, r)
           \/ \E d \in Devices : Login(d)
           \/ Tick \/ UNCHANGED vars
  <2>1. UNCHANGED <<contacts, updated, deleted>>
    BY <1>8 DEF Receive, Login, Tick, vars, replies
  <2> QED
    BY <1>1, <2>1
<1> QED
  BY <1>2, <1>4, <1>5, <1>6, <1>7, <1>8 DEF Next, Serve

\* An id is announced after its row is complete.
LEMMA ToldStep == IInv /\ [Next]_vars => ToldIsThere'
<1> SUFFICES ASSUME IInv, [Next]_vars PROVE ToldIsThere'
  OBVIOUS
<1>t. Typed
  BY DEF IInv
<1> USE DEF Goto, Keep, Done
<1>1. ASSUME NEW w \in Workers, NEW i, i = snap[w].user_id, at[w] \in {"publish", "reply"}
      PROVE  Told(i)
  BY <1>1 DEF IInv, ToldIsThere
<1>2. ASSUME NEW i \in added' \cup published' PROVE Told(i)'
  <2>1. CASE i \in added \cup published
    BY <2>1, ToldForEver DEF IInv, ToldIsThere
  <2>2. CASE i \notin added \cup published
    <3>1. PICK w \in Workers : Publish(w) \/ ReplyAdded(w)
      BY <1>2, <2>2 DEF Next, Serve, Receive, CheckPhone, Stamp, Create, SaveExt, FindNothing, Find,
                        Delete, Write, Fail, Login, Tick, vars, replies
    <3>2. i = snap[w].user_id /\ at[w] \in {"publish", "reply"}
      BY <1>2, <2>2, <3>1 DEF Publish, ReplyAdded, replies
    <3> QED
      BY <1>1, <3>2, ToldForEver
  <2> QED
    BY <2>1, <2>2
<1>3. ASSUME NEW v \in Workers, at'[v] \in {"publish", "reply"}, NEW i, i = snap'[v].user_id
      PROVE  Told(i)'
  <2>1. CASE at[v] \in {"publish", "reply"} /\ snap'[v] = snap[v]
    BY <1>1, <1>3, <2>1, ToldForEver
  <2>2. ASSUME NEW w \in Workers, v # w,
               Serve(w) \/ Fail(w) \/ \E d \in Devices : \E r \in Requests(d) : Receive(w, r)
        PROVE  Told(i)'
    BY <1>3, <1>t, <2>1, <2>2, OnlyOneMoves
  <2>3. CASE SaveExt(v)
    <3> DEFINE row == [snap[v] EXCEPT !.ext = TRUE]
    <3>1. row.ext /\ SameContact(row, snap[v])
      BY <2>3, SetExt DEF SaveExt, HoldsInstance, IInv, Serves
    <3>2. contacts' = With(contacts, key[v], row) /\ snap' = snap
      BY <1>3, <1>t, <2>3 DEF SaveExt, Typed
    <3> HIDE DEF row
    <3>3. key[v] \in DOMAIN contacts' /\ contacts'[key[v]] = row
      BY <3>2, RowWritten
    <3> QED
      BY <1>3, <3>1, <3>2, <3>3 DEF Told, SameContact
  <2>4. CASE Publish(v) \/ ReplyAdded(v)
    BY <1>3, <1>t, <2>1, <2>4 DEF Publish, ReplyAdded, Typed
  <2>5. CASE \/ CheckPhone(v) \/ Stamp(v) \/ FindNothing(v) \/ Delete(v) \/ Write(v) \/ Fail(v)
             \/ \E d \in Devices : \E r \in Requests(d) : Receive(v, r)
    BY <1>3, <1>t, <2>5 DEF CheckPhone, Stamp, FindNothing, Delete, Write, Fail, Receive, Typed
  <2>6. CASE Create(v)
    BY <1>3, <1>t, <2>6 DEF Create, Typed
  <2>7. CASE Find(v)
    BY <1>3, <1>t, <2>7 DEF Find, Typed
  <2>8. CASE (\E d \in Devices : Login(d)) \/ Tick \/ UNCHANGED vars
    <3>1. UNCHANGED <<at, snap>>
      BY <2>8 DEF Login, Tick, vars, worker
    <3> QED
      BY <1>3, <2>1, <3>1
  <2> QED
    BY <2>2, <2>3, <2>4, <2>5, <2>6, <2>7, <2>8 DEF Next, Serve
<1> QED
  BY <1>2, <1>3 DEF ToldIsThere, Told

-----------------------------------------------------------------------------
(* The theorems.                                                           *)

\* The invariant holds in every state of the contact requests.
THEOREM Inductive == Spec => []IInv
<1>1. Init => IInv
  BY InitInv
<1>2. IInv /\ [Next]_vars => IInv'
  BY TypedStep, UniqueStep, KeysStep, ServesStep, KeyStep, ToldStep DEF IInv
<1> QED
  BY <1>1, <1>2, PTL DEF Spec

\* The requests keep to the types: an id is that of one row, a key that of one
\* insertion, and no more keys are given out than requests arrive.
THEOREM TypeCorrect == Spec => []TypeOK
<1>1. IInv => TypeOK
  <2> SUFFICES ASSUME IInv PROVE TypeOK
    OBVIOUS
  <2>1. Typed /\ UniqueIds
    BY DEF IInv
  <2>2. Cardinality(Adding) \in Nat /\ next_key + Cardinality(Adding) <= received + 1
    BY FS_CardinalityType DEF IInv, KeysForRequests
  <2>3. next_key \in 1..received + 1 /\ next_key - 1 <= MaxRequests
    BY <2>1, <2>2, ContactApiAssumption DEF Typed
  <2>4. \A w \in Workers : key[w] \in Keys \cup {None}
    <3> SUFFICES ASSUME NEW w \in Workers PROVE key[w] \in Keys \cup {None}
      OBVIOUS
    <3>1. next_key \in Nat /\ MaxRequests \in Nat
      BY <2>1, ContactApiAssumption DEF Typed
    <3>2. key[w] = None \/ key[w] \in 1..next_key - 1
      BY DEF IInv, Serves
    <3> QED
      BY <2>3, <3>1, <3>2 DEF Keys
  <2>5. key \in [Workers -> Keys \cup {None}]
    BY <2>1, <2>4 DEF Typed
  <2> QED
    BY <2>1, <2>3, <2>5 DEF TypeOK, Typed, UniqueIds
<1> QED
  BY <1>1, Inductive, PTL

\* Whatever fails or is killed between two statements, add_contact tells nobody of a
\* contact whose row is missing or not complete, unless another request deletes it or
\* writes it again.
THEOREM ToldAreComplete == Spec => []ToldIsComplete
<1>1. IInv => ToldIsComplete
  BY DEF IInv, ToldIsThere, Told, ToldIsComplete
<1> QED
  BY <1>1, Inductive, PTL

-----------------------------------------------------------------------------
(* Requests write rows of their own watch.                                 *)

\* Writing a row touches no other.
LEMMA TouchedIsWritten ==
    ASSUME NEW j, NEW row, contacts' = With(contacts, j, row), NEW k, Touches(k)
    PROVE  k = j /\ contacts'[k] = row
<1>1. /\ DOMAIN contacts' = DOMAIN contacts \cup {j}
      /\ contacts'[j] = row
      /\ \A y \in DOMAIN contacts : y # j => contacts'[y] = contacts[y]
  BY RowWritten
<1>2. CASE k # j
  <2>1. (k \in DOMAIN contacts) <=> (k \in DOMAIN contacts')
    BY <1>1, <1>2
  <2> QED
    BY <1>1, <1>2, <2>1 DEF Touches
<1> QED
  BY <1>1, <1>2

\* A worker that saves an instance of its row touches a row of its watch.
LEMMA SavedIsOwn ==
    ASSUME IInv, NEW w \in Workers, HoldsKey(w), NEW row, SameContact(row, snap[w]),
           contacts' = With(contacts, key[w], row), NEW k, Touches(k)
    PROVE  TouchesOwn(w, k)
<1>1. k = key[w] /\ contacts'[k] = row
  BY TouchedIsWritten
<1>2. row.device = req[w].device
  BY DEF IInv, Serves, HoldsKey, HoldsInstance, SameContact
<1>3. k \in DOMAIN contacts => contacts[k].device = row.device
  BY <1>1, SavedContact DEF SameContact
<1> QED
  BY <1>1, <1>2, <1>3 DEF TouchesOwn

\* Every step of a worker touches rows of its watch.
LEMMA WorkerTouchesOwn ==
    ASSUME IInv, NEW w \in Workers, Serve(w) \/ Fail(w), NEW k, Touches(k)
    PROVE  TouchesOwn(w, k)
<1>t. Typed /\ Serves(w)
  BY DEF IInv
<1>0. contacts' # contacts
  BY DEF Touches
<1>1. CASE Create(w)
  <2>1. contacts' = With(contacts, next_key, snap[w])
    BY <1>0, <1>1 DEF Create
  <2>2. k = next_key /\ contacts'[k] = snap[w]
    BY <2>1, TouchedIsWritten
  <2>3. k \notin DOMAIN contacts
    BY <1>t, <2>2 DEF Typed
  <2>4. snap[w].device = req[w].device
    BY <1>1, <1>t DEF Create, Serves, HoldsInstance
  <2> QED
    BY <2>2, <2>3, <2>4 DEF TouchesOwn
<1>2. CASE SaveExt(w)
  <2>1. HoldsKey(w) /\ SameContact([snap[w] EXCEPT !.ext = TRUE], snap[w])
    BY <1>2, <1>t, SetExt DEF SaveExt, HoldsKey, HoldsInstance, Serves
  <2>2. contacts' = With(contacts, key[w], [snap[w] EXCEPT !.ext = TRUE])
    BY <1>0, <1>2 DEF SaveExt
  <2> QED
    BY <2>1, <2>2, SavedIsOwn
<1>3. CASE Write(w)
  <2>1. HoldsKey(w) /\ SameContact(snap[w], snap[w])
    BY <1>3 DEF Write, HoldsKey, SameContact
  <2>2. contacts' = With(contacts, key[w], snap[w])
    BY <1>0, <1>3 DEF Write
  <2> QED
    BY <2>1, <2>2, SavedIsOwn
<1>4. CASE Delete(w)
  <2>1. /\ DOMAIN contacts' = DOMAIN contacts \ {key[w]}
        /\ \A y \in DOMAIN contacts \ {key[w]} : contacts'[y] = contacts[y]
    BY <1>4, WithoutEffect DEF Delete, Without
  <2>2. k = key[w] /\ k \in DOMAIN contacts /\ k \notin DOMAIN contacts'
    BY <2>1 DEF Touches
  <2>3. HoldsKey(w) /\ SameContact(snap[w], snap[w]) /\ snap[w].device = req[w].device
    BY <1>4, <1>t DEF Delete, HoldsKey, HoldsInstance, Serves, SameContact
  <2>4. contacts[k].device = req[w].device
    BY <2>2, <2>3, SavedContact DEF SameContact
  <2> QED
    BY <2>2, <2>4 DEF TouchesOwn
<1>5. CASE \/ CheckPhone(w) \/ Stamp(w) \/ Publish(w) \/ ReplyAdded(w)
           \/ FindNothing(w) \/ Find(w) \/ Fail(w)
  BY <1>0, <1>5 DEF CheckPhone, Stamp, Publish, ReplyAdded, FindNothing, Find, Fail
<1> QED
  BY <1>1, <1>2, <1>3, <1>4, <1>5 DEF Serve

\* A request changes rows of the watch whose token it came with and no others,
\* whatever the other workers insert, delete or put back between its statements.
THEOREM OwnRows == Spec => OwnContactsOnly
<1>1. IInv /\ [Next]_vars => [OwnOnly]_vars
  <2> SUFFICES ASSUME IInv, Next, NEW w \in Workers, NEW k \in Keys,
                      at'[w] # at[w], Touches(k)
               PROVE  TouchesOwn(w, k)
    BY DEF OwnOnly, TouchesOwn
  <2>t. Typed /\ contacts' # contacts
    BY DEF IInv, Touches
  <2>1. ASSUME NEW v \in Workers, Serve(v) \/ Fail(v)
        PROVE  TouchesOwn(w, k)
    <3>1. v = w
      BY <2>t, <2>1, OnlyOneMoves
    <3> QED
      BY <2>1, <3>1, WorkerTouchesOwn
  <2>2. ASSUME NEW v \in Workers, NEW d \in Devices, NEW r \in Requests(d), Receive(v, r)
        PROVE  TouchesOwn(w, k)
    BY <2>t, <2>2 DEF Receive
  <2>3. CASE (\E d \in Devices : Login(d)) \/ Tick
    BY <2>t, <2>3 DEF Login, Tick
  <2> QED
    BY <2>1, <2>2, <2>3 DEF Next
<1> QED
  BY <1>1, Inductive, PTL DEF Spec, OwnContactsOnly

-----------------------------------------------------------------------------
(* The requests implement the steps that ContactPush has for the workers.  *)

\* Where a deleted row can come from is what its key stands for, and a key is announced by
\* one worker.
FeedInv ==
    /\ \A k \in Keys : k >= next_key => removed[k] = None
    /\ \A k \in DOMAIN contacts : removed[k] \in {contacts[k].device, None}
    /\ \A w \in Workers : HoldsKey(w) =>
          /\ removed[key[w]] \in {snap[w].device, None}
          /\ key[w] \in DOMAIN contacts \/ removed[key[w]] # None
    /\ \A v, w \in Workers : Announces(v) /\ Announces(w) /\ key[v] = key[w] => v = w

Announcements == {Announcement(w) : w \in {v \in Workers : Announces(v)}}
feed == <<DeviceOf, removed, Announcements, next_key - 1>>

\* The keys are enough for the requests.
LEMMA KeysSuffice ==
    ASSUME IInv
    PROVE  /\ next_key \in Nat \ {0} /\ next_key - 1 <= MaxRequests
           /\ DOMAIN contacts \subseteq Keys /\ next_key \notin DOMAIN contacts
           /\ \A w \in Workers : HoldsKey(w) => key[w] \in Keys /\ key[w] < next_key
           /\ \A w \in Adding : next_key \in Keys
<1>1. Typed /\ IsFiniteSet(Adding) /\ next_key + Cardinality(Adding) <= received + 1
  BY DEF IInv, KeysForRequests
<1>2. Cardinality(Adding) \in Nat
  BY <1>1, FS_CardinalityType
<1>3. next_key \in Nat \ {0} /\ next_key - 1 <= MaxRequests /\ next_key - 1 \in Nat
  BY <1>1, <1>2, ContactApiAssumption DEF Typed
<1>4. DOMAIN contacts \subseteq Keys /\ next_key \notin DOMAIN contacts
  BY <1>1, <1>3, ContactApiAssumption DEF Typed, Keys
<1>5. ASSUME NEW w \in Workers, HoldsKey(w) PROVE key[w] \in Keys /\ key[w] < next_key
  <2>1. key[w] \in 1..next_key - 1
    BY <1>5 DEF IInv, Serves
  <2> QED
    BY <1>3, <2>1, ContactApiAssumption DEF Keys
<1>6. ASSUME NEW w \in Adding PROVE next_key \in Keys
  <2>1. Adding # {}
    BY <1>6
  <2>2. Cardinality(Adding) # 0
    BY <1>1, <2>1, FS_EmptySet
  <2> QED
    BY <1>1, <1>2, <1>3, <2>2, ContactApiAssumption DEF Typed, Keys
<1> QED
  BY <1>3, <1>4, <1>5, <1>6

\* The others wait while a worker moves.
Others(w) == \A v \in Workers : v # w => at'[v] = at[v] /\ key'[v] = key[v] /\ snap'[v] = snap[v]

\* How a worker that moves changes what is to be announced.
LEMMA AnnouncementsStep ==
    ASSUME FeedInv, NEW w \in Workers, Others(w)
    PROVE  /\ ~Announces(w) /\ ~Announces(w)' => Announcements' = Announcements
           /\ Announces(w) /\ Announces(w)' /\ key'[w] = key[w] /\ snap'[w] = snap[w]
                => Announcements' = Announcements
           /\ Announces(w) /\ ~Announces(w)' =>
                /\ Announcement(w) \in Announcements
                /\ Announcements' = Announcements \ {Announcement(w)}
           /\ ~Announces(w) /\ Announces(w)' =>
                Announcements' = Announcements \cup {[watch |-> snap'[w].device, contact |-> key'[w]]}
<1>1. \A n : n \in Announcements <=>
               \E v \in Workers : at[v] \in {"save", "publish"} /\ n = Announcement(v)
  BY DEF Announcements, Announces
<1>2. \A n : n \in Announcements' <=>
               \E v \in Workers : at'[v] \in {"save", "publish"}
                                   /\ n = [watch |-> snap'[v].device, contact |-> key'[v]]
  BY DEF Announcements, Announces, Announcement
<1>3. \A v \in Workers : Announcement(v) = [watch |-> snap[v].device, contact |-> key[v]]
  BY DEF Announcement
<1>4. \A n : n \in Announcements' <=>
               \/ \E v \in Workers : v # w /\ at[v] \in {"save", "publish"} /\ n = Announcement(v)
               \/ Announces(w)' /\ n = [watch |-> snap'[w].device, contact |-> key'[w]]
  BY <1>2, <1>3 DEF Announces, Others
<1>5. \A n : n \in Announcements <=>
               \/ \E v \in Workers : v # w /\ at[v] \in {"save", "publish"} /\ n = Announcement(v)
               \/ Announces(w) /\ n = Announcement(w)
  BY <1>1 DEF Announces
<1>6. ASSUME Announces(w), NEW v \in Workers, v # w, at[v] \in {"save", "publish"}
      PROVE  Announcement(v) # Announcement(w)
  <2>1. key[v] # key[w]
    BY <1>6 DEF FeedInv, Announces
  <2>2. Announcement(v).contact = key[v] /\ Announcement(w).contact = key[w]
    BY DEF Announcement
  <2> QED
    BY <2>1, <2>2
<1>7. ~Announces(w) /\ ~Announces(w)' => Announcements' = Announcements
  BY <1>4, <1>5
<1>8. Announces(w) /\ Announces(w)' /\ key'[w] = key[w] /\ snap'[w] = snap[w]
        => Announcements' = Announcements
  BY <1>3, <1>4, <1>5
<1>9. ASSUME Announces(w), ~Announces(w)'
      PROVE  /\ Announcement(w) \in Announcements
             /\ Announcements' = Announcements \ {Announcement(w)}
  BY <1>4, <1>5, <1>6, <1>9
<1>10. ~Announces(w) /\ Announces(w)' =>
         Announcements' = Announcements \cup {[watch |-> snap'[w].device, contact |-> key'[w]]}
  BY <1>4, <1>5
<1> QED
  BY <1>7, <1>8, <1>9, <1>10

\* A step that leaves the table alone: its worker reads a row, goes on with it, or forgets it.
LEMMA FeedQuiet ==
    ASSUME IInv, FeedInv, UNCHANGED <<contacts, removed, next_key>>, NEW w \in Workers, Others(w),
           HoldsKey(w)' => \/ HoldsKey(w) /\ key'[w] = key[w] /\ snap'[w] = snap[w]
                           \/ key'[w] \in DOMAIN contacts /\ snap'[w].device = contacts[key'[w]].device,
           Announces(w)' => Announces(w) /\ key'[w] = key[w] /\ snap'[w] = snap[w]
    PROVE  /\ FeedInv' /\ UNCHANGED DeviceOf
           /\ UNCHANGED feed \/ (\E n \in Announcements : Feed!Settle(n))
<1>1. ASSUME NEW v \in Workers, HoldsKey(v)'
      PROVE  /\ removed'[key'[v]] \in {snap'[v].device, None}
             /\ key'[v] \in DOMAIN contacts' \/ removed'[key'[v]] # None
  <2>1. CASE HoldsKey(v) /\ key'[v] = key[v] /\ snap'[v] = snap[v]
    BY <2>1 DEF FeedInv
  <2>2. CASE key'[v] \in DOMAIN contacts /\ snap'[v].device = contacts[key'[v]].device
    BY <2>2 DEF FeedInv
  <2> QED
    BY <1>1, <2>1, <2>2 DEF Others, HoldsKey
<1>2. \A v \in Workers : Announces(v)' => Announces(v) /\ key'[v] = key[v]
  BY DEF Others, Announces
<1>3. FeedInv'
  <2>1. \A v, u \in Workers : Announces(v)' /\ Announces(u)' /\ key'[v] = key'[u] => v = u
    BY <1>2 DEF FeedInv
  <2>2. \A k \in Keys : k >= next_key' => removed'[k] = None
    BY DEF FeedInv
  <2>3. \A k \in DOMAIN contacts' : removed'[k] \in {contacts'[k].device, None}
    BY DEF FeedInv
  <2> QED
    BY <1>1, <2>1, <2>2, <2>3 DEF FeedInv, HoldsKey, Announces
<1>4. DeviceOf' = DeviceOf
  BY DEF DeviceOf
<1>5. Announcements' = Announcements
        \/ (Announcement(w) \in Announcements /\ Announcements' = Announcements \ {Announcement(w)})
  BY AnnouncementsStep
<1>6. CASE Announcements' = Announcements
  BY <1>3, <1>4, <1>6 DEF feed
<1>7. CASE Announcement(w) \in Announcements /\ Announcements' = Announcements \ {Announcement(w)}
  <2>1. Feed!Settle(Announcement(w))
    BY <1>4, <1>7 DEF Feed!Settle, Announcements
  <2> QED
    BY <1>3, <1>4, <1>7, <2>1
<1> QED
  BY <1>5, <1>6, <1>7

\* A save writes the contact of its key: it is there, or a deletion took it away.
LEMMA FeedSave ==
    ASSUME IInv, FeedInv, NEW w \in Workers, HoldsKey(w), NEW row, SameContact(row, snap[w]),
           contacts' = With(contacts, key[w], row), UNCHANGED <<removed, next_key>>, Others(w),
           HoldsKey(w)' => key'[w] = key[w] /\ snap'[w] = snap[w],
           Announces(w)' <=> Announces(w)
    PROVE  FeedInv' /\ (UNCHANGED feed \/ \E k \in Keys : Feed!SaveAgain(k))
<1> DEFINE c == key[w]
<1>1. /\ DOMAIN contacts' = DOMAIN contacts \cup {c} /\ contacts'[c] = row
      /\ \A y \in DOMAIN contacts : y # c => contacts'[y] = contacts[y]
  BY RowWritten
<1>2. /\ c \in Keys /\ row.device = snap[w].device
      /\ c \in DOMAIN contacts => contacts[c].device = row.device
  BY KeysSuffice, SavedContact DEF SameContact
<1>3. /\ removed[c] \in {row.device, None}
      /\ c \in DOMAIN contacts \/ removed[c] # None
  BY <1>2 DEF FeedInv
<1>4. \A v \in Workers : HoldsKey(v)' => HoldsKey(v) /\ key'[v] = key[v] /\ snap'[v] = snap[v]
  BY DEF Others, HoldsKey
<1>5. \A v \in Workers : Announces(v)' => Announces(v) /\ key'[v] = key[v]
  BY <1>4 DEF Others, Announces, HoldsKey
<1>6. FeedInv'
  <2>1. \A k \in DOMAIN contacts' : removed'[k] \in {contacts'[k].device, None}
    BY <1>1, <1>3 DEF FeedInv
  <2>2. \A v \in Workers : HoldsKey(v)' =>
          /\ removed'[key'[v]] \in {snap'[v].device, None}
          /\ key'[v] \in DOMAIN contacts' \/ removed'[key'[v]] # None
    BY <1>1, <1>4 DEF FeedInv
  <2>3. \A v, u \in Workers : Announces(v)' /\ Announces(u)' /\ key'[v] = key'[u] => v = u
    BY <1>5 DEF FeedInv
  <2>4. \A k \in Keys : k >= next_key' => removed'[k] = None
    BY DEF FeedInv
  <2> QED
    BY <2>1, <2>2, <2>3, <2>4 DEF FeedInv, HoldsKey, Announces
<1>7. Announcements' = Announcements
  <2>1. Announces(w)' => HoldsKey(w)'
    BY DEF Announces, HoldsKey
  <2> QED
    BY <2>1, AnnouncementsStep
<1> HIDE DEF c
<1>8. \A k \in Keys : DeviceOf'[k] = IF k = c THEN row.device ELSE DeviceOf[k]
  BY <1>1 DEF DeviceOf
<1>9. CASE c \in DOMAIN contacts
  <2>1. \A k \in Keys : DeviceOf'[k] = DeviceOf[k]
    BY <1>2, <1>8, <1>9 DEF DeviceOf
  <2>2. DeviceOf' = DeviceOf
    BY <2>1 DEF DeviceOf
  <2> QED
    BY <1>6, <1>7, <2>2 DEF feed
<1>10. CASE c \notin DOMAIN contacts
  <2>1. DeviceOf[c] = None /\ removed[c] # None /\ removed[c] = row.device
    BY <1>2, <1>3, <1>10 DEF DeviceOf
  <2>2. DeviceOf' = [DeviceOf EXCEPT ![c] = removed[c]]
    BY <1>8, <2>1 DEF DeviceOf
  <2>3. Feed!SaveAgain(c)
    BY <1>7, <2>1, <2>2 DEF Feed!SaveAgain, Announcements
  <2> QED
    BY <1>2, <1>6, <2>3
<1> QED
  BY <1>9, <1>10

\* An insertion takes the next key, which no worker and no deletion has seen.
LEMMA FeedCreate ==
    ASSUME IInv, FeedInv, NEW w \in Workers, Create(w), snap[w].user_id \notin UserIds
    PROVE  FeedInv' /\ Feed!Insert(snap[w].device)
<1>t. Typed /\ Serves(w)
  BY DEF IInv
<1>1. /\ contacts' = With(contacts, next_key, snap[w]) /\ next_key' = next_key + 1
      /\ key' = [key EXCEPT ![w] = next_key] /\ snap' = snap /\ at' = [at EXCEPT ![w] = "save"]
      /\ removed' = removed /\ at[w] = "create"
  BY DEF Create, Goto
<1>2. next_key \in Nat \ {0} /\ next_key \in Keys /\ next_key - 1 < MaxRequests /\ next_key \notin DOMAIN contacts
  <2>1. w \in Adding
    BY <1>1 DEF Adding
  <2> QED
    BY <2>1, KeysSuffice, ContactApiAssumption DEF Keys
<1>3. /\ DOMAIN contacts' = DOMAIN contacts \cup {next_key} /\ contacts'[next_key] = snap[w]
      /\ \A y \in DOMAIN contacts : contacts'[y] = contacts[y]
  BY <1>1, <1>2, RowWritten
<1>4. /\ key'[w] = next_key /\ at'[w] = "save" /\ Others(w)
      /\ \A v \in Workers : v # w => key'[v] = key[v] /\ at'[v] = at[v]
  BY <1>1, <1>t DEF Typed, Others
<1>5. removed[next_key] = None
  BY <1>2 DEF FeedInv
<1>6. \A v \in Workers : HoldsKey(v) => key[v] # next_key /\ key[v] \in Keys
  BY <1>2, KeysSuffice
<1>7. FeedInv'
  <2>1. \A k \in DOMAIN contacts' : removed'[k] \in {contacts'[k].device, None}
    BY <1>1, <1>3, <1>5 DEF FeedInv
  <2>2. \A v \in Workers : HoldsKey(v)' =>
          /\ removed'[key'[v]] \in {snap'[v].device, None}
          /\ key'[v] \in DOMAIN contacts' \/ removed'[key'[v]] # None
    BY <1>1, <1>3, <1>4, <1>5 DEF FeedInv, HoldsKey
  <2>3. \A v, u \in Workers : Announces(v)' /\ Announces(u)' /\ key'[v] = key'[u] => v = u
    BY <1>4, <1>6 DEF FeedInv, Announces, HoldsKey
  <2>4. \A k \in Keys : k >= next_key' => removed'[k] = None
    BY <1>1, <1>2 DEF FeedInv, Keys
  <2> QED
    BY <2>1, <2>2, <2>3, <2>4 DEF FeedInv, HoldsKey, Announces
<1>8. Announcements' = Announcements \cup {[watch |-> snap[w].device, contact |-> next_key]}
  <2>1. ~Announces(w) /\ Announces(w)'
    BY <1>1, <1>4 DEF Announces
  <2> QED
    BY <1>1, <1>4, <2>1, AnnouncementsStep
<1>9. DeviceOf' = [DeviceOf EXCEPT ![next_key] = snap[w].device]
  BY <1>2, <1>3 DEF DeviceOf
<1>10. next_key' - 1 = next_key /\ next_key - 1 + 1 = next_key
  BY <1>1, <1>2
<1>11. Feed!Insert(snap[w].device)
  BY <1>1, <1>2, <1>8, <1>9, <1>10 DEF Feed!Insert, Announcements
<1> QED
  BY <1>7, <1>11

\* What is removed is the contact of the key, once.
LEMMA FeedDelete ==
    ASSUME IInv, FeedInv, NEW w \in Workers, Delete(w)
    PROVE  FeedInv' /\ (UNCHANGED feed \/ \E k \in Keys : Feed!Delete(k))
<1> DEFINE c == key[w]
           d == snap[w].device
<1>t. Typed /\ Serves(w)
  BY DEF IInv
<1>1. /\ DOMAIN contacts' = DOMAIN contacts \ {c}
      /\ \A y \in DOMAIN contacts' : contacts'[y] = contacts[y]
  BY WithoutEffect, Zenon DEF Delete
<1>2. /\ removed' = [k \in Keys |-> IF k = c THEN d ELSE removed[k]]
      /\ next_key' = next_key /\ at[w] = "delete" /\ at'[w] = "idle" /\ Others(w)
  BY <1>t DEF Delete, Done, Typed, Others
<1>3. HoldsKey(w) /\ c \in Keys /\ d \in Devices /\ d # None /\ c < next_key
      /\ next_key \in Nat
  BY <1>2, <1>t, KeysSuffice, ContactApiAssumption DEF HoldsKey, HoldsInstance, Serves, Row
<1>4. /\ removed[c] \in {d, None} /\ (c \in DOMAIN contacts \/ removed[c] # None)
      /\ c \in DOMAIN contacts => contacts[c].device = d
      /\ \A v \in Workers : HoldsKey(v) /\ key[v] = c => snap[v].device = d
  BY <1>3 DEF FeedInv, IInv, KeyIsOneContact, SameContact
<1> HIDE DEF c, d
<1>5. \A k \in Keys : removed'[k] = IF k = c THEN d ELSE removed[k]
  BY <1>2
<1>6. \A v \in Workers : HoldsKey(v)' => HoldsKey(v) /\ key'[v] = key[v] /\ snap'[v] = snap[v]
  BY <1>2 DEF Others, HoldsKey
<1>7. \A v \in Workers : HoldsKey(v) => key[v] \in Keys
  BY KeysSuffice
<1>8. FeedInv'
  <2>1. \A k \in DOMAIN contacts' : removed'[k] \in {contacts'[k].device, None}
    <3>1. \A k \in DOMAIN contacts' : k \in Keys /\ k # c
      BY <1>1, KeysSuffice
    <3> QED
      BY <1>1, <1>5, <3>1 DEF FeedInv
  <2>2. \A v \in Workers : HoldsKey(v)' =>
          /\ removed'[key'[v]] \in {snap'[v].device, None}
          /\ key'[v] \in DOMAIN contacts' \/ removed'[key'[v]] # None
    <3> SUFFICES ASSUME NEW v \in Workers, HoldsKey(v)'
                 PROVE  /\ removed'[key[v]] \in {snap[v].device, None}
                        /\ key[v] \in DOMAIN contacts' \/ removed'[key[v]] # None
      BY <1>6
    <3>1. CASE key[v] = c
      BY <1>3, <1>4, <1>5, <1>6, <3>1
    <3>2. CASE key[v] # c
      BY <1>1, <1>5, <1>6, <1>7, <3>2 DEF FeedInv
    <3> QED
      BY <3>1, <3>2
  <2>3. \A v, u \in Workers : Announces(v)' /\ Announces(u)' /\ key'[v] = key'[u] => v = u
    BY <1>2 DEF FeedInv, Announces, Others
  <2>4. \A k \in Keys : k >= next_key' => removed'[k] = None
    <3>1. \A k \in Keys : k >= next_key => k # c
      BY <1>3 DEF Keys
    <3> QED
      BY <1>2, <1>5, <3>1 DEF FeedInv
  <2> QED
    BY <2>1, <2>2, <2>3, <2>4 DEF FeedInv, HoldsKey, Announces
<1>9. Announcements' = Announcements
  BY <1>2, AnnouncementsStep DEF Announces
<1>10. DeviceOf' = [DeviceOf EXCEPT ![c] = None]
  BY <1>1, <1>3 DEF DeviceOf
<1>11. removed \in [Keys -> Devices \cup {None}]
  BY <1>t DEF Typed
<1>12. CASE c \in DOMAIN contacts
  <2>1. DeviceOf[c] = d
    BY <1>3, <1>4, <1>12 DEF DeviceOf
  <2>2. removed' = [removed EXCEPT ![c] = d]
    BY <1>2, <1>11
  <2>3. Feed!Delete(c)
    BY <1>2, <1>3, <1>9, <1>10, <2>1, <2>2 DEF Feed!Delete, Announcements
  <2> QED
    BY <1>3, <1>8, <2>3
<1>13. CASE c \notin DOMAIN contacts
  <2>1. removed' = removed
    BY <1>2, <1>4, <1>11, <1>13
  <2>2. DeviceOf[c] = None
    BY <1>3, <1>13 DEF DeviceOf
  <2>3. DeviceOf' = DeviceOf
    BY <1>10, <2>2 DEF DeviceOf
  <2> QED
    BY <1>2, <1>8, <1>9, <2>1, <2>3 DEF feed
<1> QED
  BY <1>12, <1>13

\* The steps of the feed, as far as a request takes them.
FeedSteps ==
    \/ UNCHANGED feed
    \/ \E n \in Announcements : Feed!Settle(n)
    \/ \E d \in Devices : Feed!Insert(d)
    \/ \E k \in Keys : Feed!Delete(k)
    \/ \E k \in Keys : Feed!SaveAgain(k)

\* An empty table, with nothing to announce.
LEMMA FeedInit == Init => FeedInv /\ Feed!Init
<1> SUFFICES ASSUME Init PROVE FeedInv /\ Feed!Init
  OBVIOUS
<1>1. /\ DOMAIN contacts = {} /\ next_key = 1 /\ removed = [k \in Keys |-> None]
      /\ \A w \in Workers : at[w] = "idle"
  BY DEF Init
<1>2. FeedInv
  BY <1>1 DEF FeedInv, HoldsKey, Announces
<1>3. {Announcement(w) : w \in {v \in Workers : Announces(v)}} = {}
  BY <1>1 DEF Announces
<1>4. DeviceOf = [k \in Keys |-> None]
  BY <1>1 DEF DeviceOf
<1> QED
  BY <1>1, <1>2, <1>3, <1>4 DEF Feed!Init, Feed!Contacts, Keys

\* Each step of a worker is a step of the feed, or none.
LEMMA FeedServe ==
    ASSUME IInv, FeedInv, NEW w \in Workers,
           Serve(w) \/ Fail(w) \/ \E d \in Devices : \E r \in Requests(d) : Receive(w, r)
    PROVE  FeedInv' /\ FeedSteps
<1>t. Typed /\ Serves(w)
  BY DEF IInv
<1>o. Others(w)
  BY <1>t, OnlyOneMoves DEF Others
<1> USE DEF Goto, Keep
<1>1. CASE \E d \in Devices : \E r \in Requests(d) : Receive(w, r)
  <2>1. UNCHANGED <<contacts, removed, next_key>> /\ at'[w] \in {"check", "find"}
    BY <1>1, <1>t DEF Receive, Typed
  <2> QED
    BY <1>o, <2>1, FeedQuiet DEF FeedSteps, HoldsKey, Announces
<1>2. CASE CheckPhone(w) \/ Stamp(w) \/ FindNothing(w) \/ Fail(w)
  <2>1. UNCHANGED <<contacts, removed, next_key>> /\ at'[w] \in {"idle", "stamp", "create"}
    BY <1>2, <1>t DEF CheckPhone, Stamp, FindNothing, Fail, Done, Typed
  <2> QED
    BY <1>o, <2>1, FeedQuiet DEF FeedSteps, HoldsKey, Announces
<1>3. CASE Publish(w) \/ ReplyAdded(w)
  <2>1. /\ UNCHANGED <<contacts, removed, next_key>>
        /\ \/ at[w] = "publish" /\ at'[w] = "reply" /\ key'[w] = key[w] /\ snap'[w] = snap[w]
           \/ at'[w] = "idle"
    BY <1>3, <1>t DEF Publish, ReplyAdded, Done, Typed
  <2> QED
    BY <1>o, <2>1, FeedQuiet DEF FeedSteps, HoldsKey, Announces
<1>4. CASE Find(w)
  <2>1. PICK k \in DOMAIN contacts :
          /\ key' = [key EXCEPT ![w] = k]
          /\ IF req[w].op = "delete"
             THEN snap' = [snap EXCEPT ![w] = contacts[k]] /\ Goto(w, "delete")
             ELSE /\ snap' = [snap EXCEPT ![w] =
                                [contacts[k] EXCEPT ![req[w].field] = req[w].value]]
                  /\ Goto(w, "write")
    BY <1>4 DEF Find
  <2>2. req[w] \in Request /\ req[w].op \in {"delete", "update"} /\ contacts[k] \in Row
    BY <1>4, <1>t DEF Find, Serves, Typed
  <2>3. SameContact(snap'[w], contacts[k]) /\ key'[w] = k /\ at'[w] \in {"delete", "write"}
    <3>1. CASE req[w].op = "delete"
      BY <1>t, <2>1, <3>1 DEF Typed, SameContact
    <3>2. CASE req[w].op = "update"
      <4>1. SameContact([contacts[k] EXCEPT ![req[w].field] = req[w].value], contacts[k])
        BY <2>2, <3>2, RequestFields, SetField
      <4> QED
        BY <1>t, <2>1, <3>2, <4>1 DEF Typed
    <3> QED
      BY <2>2, <3>1, <3>2
  <2>4. UNCHANGED <<contacts, removed, next_key>>
    BY <1>4 DEF Find
  <2> QED
    BY <1>o, <2>3, <2>4, FeedQuiet DEF FeedSteps, HoldsKey, Announces, SameContact
<1>5. CASE Create(w)
  <2>1. CASE snap[w].user_id \in UserIds
    <3>1. UNCHANGED <<contacts, removed, next_key>> /\ at'[w] = "idle"
      BY <1>5, <2>1, <1>t DEF Create, Done, Typed
    <3> QED
      BY <1>o, <3>1, FeedQuiet DEF FeedSteps, HoldsKey, Announces
  <2>2. CASE snap[w].user_id \notin UserIds
    <3>1. snap[w].device \in Devices
      BY <1>5, <1>t DEF Create, Serves, HoldsInstance, Row
    <3> QED
      BY <1>5, <2>2, <3>1, FeedCreate DEF FeedSteps
  <2> QED
    BY <2>1, <2>2
<1>6. CASE SaveExt(w)
  <2> DEFINE row == [snap[w] EXCEPT !.ext = TRUE]
  <2>1. CASE Saves(key[w], row)
    <3>1. /\ contacts' = With(contacts, key[w], row) /\ UNCHANGED <<removed, next_key>>
          /\ at[w] = "save" /\ at'[w] = "publish" /\ key'[w] = key[w] /\ snap'[w] = snap[w]
      BY <1>6, <2>1, <1>t DEF SaveExt, Typed
    <3>2. SameContact(row, snap[w])
      BY <3>1, <1>t, SetExt DEF Serves, HoldsInstance
    <3> HIDE DEF row
    <3>3. HoldsKey(w) /\ (Announces(w)' <=> Announces(w))
      BY <3>1 DEF HoldsKey, Announces
    <3> QED
      BY <1>o, <3>1, <3>2, <3>3, FeedSave DEF FeedSteps
  <2>2. CASE ~Saves(key[w], row)
    <3>1. UNCHANGED <<contacts, removed, next_key>> /\ at'[w] = "idle"
      BY <1>6, <2>2, <1>t DEF SaveExt, Done, Typed
    <3> QED
      BY <1>o, <3>1, FeedQuiet DEF FeedSteps, HoldsKey, Announces
  <2> QED
    BY <2>1, <2>2
<1>7. CASE Delete(w)
  BY <1>7, FeedDelete DEF FeedSteps
<1>8. CASE Write(w)
  <2>1. at[w] = "write" /\ at'[w] = "idle" /\ UNCHANGED <<removed, next_key>>
    BY <1>8, <1>t DEF Write, Done, Typed
  <2>2. CASE Saves(key[w], snap[w])
    <3>1. contacts' = With(contacts, key[w], snap[w])
      BY <1>8, <2>2 DEF Write
    <3>2. HoldsKey(w) /\ ~HoldsKey(w)' /\ (Announces(w)' <=> Announces(w))
      BY <2>1 DEF HoldsKey, Announces
    <3>3. SameContact(snap[w], snap[w])
      BY DEF SameContact
    <3> QED
      BY <1>o, <2>1, <3>1, <3>2, <3>3, FeedSave DEF FeedSteps
  <2>3. CASE ~Saves(key[w], snap[w])
    <3>1. contacts' = contacts
      BY <1>8, <2>3 DEF Write
    <3> QED
      BY <1>o, <2>1, <3>1, FeedQuiet DEF FeedSteps, HoldsKey, Announces
  <2> QED
    BY <2>2, <2>3
<1> QED
  BY <1>1, <1>2, <1>3, <1>4, <1>5, <1>6, <1>7, <1>8 DEF Serve

\* The refinement of the feed by the requests, step by step.
FeedNext == [Feed!Next]_feed

LEMMA FeedStep == IInv /\ FeedInv /\ [Next]_vars => FeedInv' /\ FeedNext
<1> SUFFICES ASSUME IInv, FeedInv, [Next]_vars PROVE FeedInv' /\ FeedNext
  OBVIOUS
<1>1. FeedInv' /\ FeedSteps
  <2>1. CASE \E w \in Workers :
               Serve(w) \/ Fail(w) \/ \E d \in Devices : \E r \in Requests(d) : Receive(w, r)
    BY <2>1, FeedServe
  <2>2. CASE (\E d \in Devices : Login(d)) \/ Tick \/ UNCHANGED vars
    <3>1. UNCHANGED <<contacts, removed, next_key, worker>>
      BY <2>2 DEF Login, Tick, vars
    <3>2. UNCHANGED <<contacts, removed, next_key, at, key, snap>>
      BY <3>1 DEF worker
    <3>3. FeedInv'
      BY <3>2 DEF FeedInv, HoldsKey, Announces
    <3>4. DeviceOf' = DeviceOf /\ Announcements' = Announcements
      BY <3>2 DEF DeviceOf, Announcements, Announcement, Announces
    <3> QED
      BY <3>2, <3>3, <3>4 DEF FeedSteps, feed
  <2> QED
    BY <2>1, <2>2 DEF Next
<1>2. CASE UNCHANGED feed
  BY <1>1, <1>2 DEF FeedNext
<1>3. CASE ~UNCHANGED feed
  <2>1. \/ \E n \in Announcements : Feed!Settle(n)
        \/ \E d \in Devices : Feed!Insert(d)
        \/ \E k \in Keys : Feed!Delete(k) \/ Feed!SaveAgain(k)
    BY <1>1, <1>3 DEF FeedSteps
  <2>2. Feed!Next
    BY <2>1 DEF Feed!Next, Feed!Contacts, Feed!Settle, Feed!Insert, Feed!Delete, Feed!SaveAgain,
                Announcements, Keys
  <2> QED
    BY <1>1, <2>2 DEF FeedNext
<1> QED
  BY <1>2, <1>3

\* The requests of views.py do to the table and to the announcements what ContactPush has
\* the HTTP workers do, and nothing else: contacts appear under new keys and are announced
\* at most once each, are deleted, and come back only when a request that read them before
\* saves them, for the watch they had.
THEOREM RequestsFeedThePush == Spec => ImplementsFeed
<1>1. Init => FeedInv /\ Feed!Init
  BY FeedInit
<1>2. IInv /\ FeedInv /\ [Next]_vars => FeedInv' /\ FeedNext
  BY FeedStep
<1>3. FeedNext => [Feed!Next]_<<DeviceOf, removed, {Announcement(w) : w \in {v \in Workers : Announces(v)}}, next_key - 1>>
  BY DEF FeedNext, feed, Announcements
<1> QED
  BY <1>1, <1>2, <1>3, Inductive, PTL DEF Spec, ImplementsFeed, Feed!Spec
=============================================================================
