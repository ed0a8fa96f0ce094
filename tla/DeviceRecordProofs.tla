------------------------- MODULE DeviceRecordProofs -------------------------
(***************************************************************************)
(* What every step keeps of the rows of watches and their copies in        *)
(* memory, for any number of watches, connections and jobs.                *)
(***************************************************************************)
EXTENDS DeviceRecord, TLAPS

-----------------------------------------------------------------------------
(* The invariant.                                                          *)

\* The database thread is between the read and the save of a login.
Reading == job # None /\ job.kind = "login"

Id(d) == [watch |-> d.watch, pk |-> d.pk, baby_id |-> d.baby_id]
AllIds == [watch: Watches, pk: Nat, baby_id: Nat]
Edits == [pk: Nat, user: Owners \cup {None}]

DeviceTyped ==
    /\ row \in [Watches -> Row \cup {None}]
    /\ instance \in [Conns -> Row \cup {None}]
    /\ edited \in [Watches -> Edits \cup {None}]
    /\ next_pk \in Nat \ {0} /\ now \in 0..MaxTime
    /\ Reading => job.device \in Row /\ job.conn \in Conns
    /\ told \subseteq AllIds
    /\ overtaken \subseteq Conns /\ outdated \subseteq Conns

\* Where a watch has been given a key and a number: in the table, in memory, in replies.
Named ==
    told \cup {Id(row[w]) : w \in {v \in Watches : row[v] # None}}
         \cup {Id(instance[c]) : c \in {b \in Conns : Logged(b)}}
         \cup (IF Reading THEN {Id(job.device)} ELSE {})

\* A key stands for one watch and one number for ever.
KeyIsOneWatch ==
    /\ \A a \in Named : a.pk \in 1..next_pk - 1
    /\ \A a, b \in Named : a.pk = b.pk => a = b

\* Every watch has its row, with a number of its own, which a login may put back.
RowsApart ==
    /\ \A w \in Watches : row[w] # None => row[w].watch = w
    /\ \A v, w \in Watches :
          row[v] # None /\ row[w] # None /\ row[v].baby_id = row[w].baby_id => v = w
    /\ Reading => \A w \in Watches :
          row[w] # None => /\ w = job.device.watch => row[w].pk = job.device.pk
                           /\ row[w].baby_id = job.device.baby_id => w = job.device.watch

\* What was told is in the table, unless the row was deleted.
ToldRows ==
    \A a \in told : a.pk \in deleted \/ (row[a.watch] # None /\ row[a.watch].pk = a.pk)

\* An edit is in the table, and in what a login is about to save, but for a race.
Lost(pk) == pk \in raced
EditsSaved ==
    /\ raced \cup deleted \subseteq 1..next_pk - 1
    /\ \A w \in Watches : edited[w] # None => edited[w].pk \in 1..next_pk - 1
    /\ EditKept
    /\ Reading => LET d == job.device IN
          edited[d.watch] # None /\ edited[d.watch].pk = d.pk =>
              Lost(d.pk) \/ d.user = edited[d.watch].user

\* A session's copy agrees with the row, and with what a login is about to save, but
\* for what happened since.
CopiesFresh ==
    /\ ReportsStored
    /\ \A c \in Conns \ outdated :
          Logged(c) /\ Exists(instance[c]) => row[instance[c].watch].user = instance[c].user
    /\ Reading => \A c \in Conns : Logged(c) /\ instance[c].pk = job.device.pk =>
          /\ c \notin overtaken => instance[c].charging = job.device.charging
          /\ c \notin outdated => instance[c].user = job.device.user

DInv == DeviceTyped /\ KeyIsOneWatch /\ RowsApart /\ ToldRows /\ EditsSaved /\ CopiesFresh

-----------------------------------------------------------------------------
(* Where keys and numbers are named.                                       *)

\* Every row and every copy is named.
LEMMA NamedCopies ==
    /\ told \subseteq Named
    /\ \A w \in Watches : row[w] # None => Id(row[w]) \in Named
    /\ \A c \in Conns : Logged(c) => Id(instance[c]) \in Named
    /\ Reading => Id(job.device) \in Named
BY DEF Named

\* What is named after a step, from each place where it may be.
LEMMA NamedAfter ==
    ASSUME NEW S, told' \subseteq S,
           \A w \in Watches : row'[w] # None => Id(row'[w]) \in S,
           \A c \in Conns : instance'[c] # None => Id(instance'[c]) \in S,
           Reading' => Id(job'.device) \in S
    PROVE  Named' \subseteq S
BY DEF Named, Logged, Id

\* Two that are named with one key are of one watch and one number.
LEMMA SameKey ==
    ASSUME KeyIsOneWatch, NEW a, NEW b, Id(a) \in Named, Id(b) \in Named, a.pk = b.pk
    PROVE  a.watch = b.watch /\ a.baby_id = b.baby_id
<1>1. Id(a) = Id(b)
  BY DEF KeyIsOneWatch, Id
<1> QED
  BY <1>1 DEF Id

\* Nothing new is named.
LEMMA KeyKept ==
    ASSUME KeyIsOneWatch, Named' \subseteq Named, next_pk' = next_pk
    PROVE  KeyIsOneWatch'
BY DEF KeyIsOneWatch

\* One more is named, by the next key.
LEMMA KeyGivenOnce ==
    ASSUME KeyIsOneWatch, next_pk \in Nat \ {0}, next_pk' = next_pk + 1,
           NEW d, d.pk = next_pk, Named' \subseteq Named \cup {Id(d)}
    PROVE  KeyIsOneWatch'
<1>1. Id(d).pk = next_pk
  BY DEF Id
<1>2. \A a \in Named : a.pk \in 1..next_pk - 1 /\ a.pk # next_pk
  BY DEF KeyIsOneWatch
<1>3. \A a \in Named' : a.pk \in 1..next_pk' - 1
  BY <1>1, <1>2
<1>4. ASSUME NEW a \in Named', NEW b \in Named', a.pk = b.pk PROVE a = b
  BY <1>1, <1>2, <1>4 DEF KeyIsOneWatch
<1> QED
  BY <1>3, <1>4 DEF KeyIsOneWatch

-----------------------------------------------------------------------------
(* Steps that leave the rows alone.                                        *)

\* The rows and what has been said of them stay, sessions may end, and the thread
\* goes on with the login it is at, or with something else.
Quiet ==
    /\ UNCHANGED <<row, next_pk, edited, raced, told, deleted>>
    /\ now' \in 0..MaxTime
    /\ instance' \in [Conns -> Row \cup {None}]
    /\ overtaken' \subseteq Conns /\ outdated' \subseteq Conns
    /\ \A c \in Conns : instance'[c] # None =>
          /\ instance'[c] = instance[c]
          /\ (c \in overtaken' <=> c \in overtaken) /\ (c \in outdated' <=> c \in outdated)
    /\ Reading' => Reading /\ job'.device = job.device /\ job'.conn = job.conn

\* They keep the invariant.
LEMMA QuietStep == DInv /\ Quiet => DInv'
<1> SUFFICES ASSUME DInv, Quiet PROVE DInv'
  OBVIOUS
<1>1. DeviceTyped'
  BY DEF DInv, DeviceTyped, Quiet
<1>2. KeyIsOneWatch'
  <2>1. Named' \subseteq Named
    BY NamedCopies, NamedAfter DEF Quiet, Logged
  <2> QED
    BY <2>1, KeyKept DEF DInv, Quiet
<1>3. RowsApart' /\ ToldRows'
  BY DEF DInv, RowsApart, ToldRows, Quiet
<1>4. EditsSaved'
  BY DEF DInv, EditsSaved, EditKept, Lost, Quiet
<1>5. CopiesFresh'
  BY DEF DInv, CopiesFresh, ReportsStored, Logged, Exists, Quiet
<1> QED
  BY <1>1, <1>2, <1>3, <1>4, <1>5 DEF DInv

\* A connection ends.
LEMMA CloseStep ==
    ASSUME DInv, NEW c \in Conns, Close(c), Reading' => job' = job
    PROVE  DInv'
<1>1. Quiet
  BY DEF DInv, DeviceTyped, Close, Quiet, Reading
<1> QED
  BY <1>1, QuietStep

\* Nothing happens to the rows and the sessions.
LEMMA SameStep ==
    ASSUME DInv, UNCHANGED device, Reading' => job' = job
    PROVE  DInv'
<1>1. Quiet
  BY DEF DInv, DeviceTyped, device, Quiet, Reading
<1> QED
  BY <1>1, QuietStep

-----------------------------------------------------------------------------
(* The login.                                                              *)

\* The thread is at a login.
LEMMA LoginIsJob ==
    ASSUME NEW c \in Conns, NEW d \in Row
    PROVE  [kind |-> "login", conn |-> c, device |-> d] # None /\ d # None
BY DeviceAssumption

\* It reads the row that is there.
LEMMA FoundStep ==
    ASSUME DInv, NEW c \in Conns, NEW w \in Watches, LoginRead(c, w), Found(c, w)
    PROVE  DInv'
<1>1. /\ row[w] # None /\ row[w] \in Row /\ row[w].watch = w
      /\ Reading' /\ job'.device = row[w] /\ job'.conn = c
      /\ ~Reading
      /\ UNCHANGED <<row, next_pk, now, instance, edited, raced, overtaken, outdated, told, deleted>>
  <2>1. job' = [kind |-> "login", conn |-> c, device |-> row[w]]
    BY DEF LoginRead, Found
  <2>0. row[w] \in Row
    BY DEF LoginRead, Found, DInv, DeviceTyped
  <2>2. Reading' /\ job'.device = row[w] /\ job'.conn = c
    BY <2>0, <2>1, LoginIsJob DEF Reading
  <2> QED
    BY <2>2 DEF LoginRead, Found, Idle, Reading, DInv, DeviceTyped, RowsApart
<1>2. DeviceTyped'
  BY <1>1 DEF DInv, DeviceTyped
<1>3. KeyIsOneWatch'
  <2>1. Named' \subseteq Named
    BY <1>1, NamedCopies, NamedAfter DEF Logged
  <2> QED
    BY <1>1, <2>1, KeyKept DEF DInv
<1>4. RowsApart' /\ ToldRows'
  BY <1>1 DEF DInv, RowsApart, ToldRows
<1>5. EditsSaved'
  BY <1>1 DEF DInv, EditsSaved, EditKept, Lost
<1>6. CopiesFresh'
  <2>1. ASSUME NEW b \in Conns, Logged(b), instance[b].pk = row[w].pk
        PROVE  Exists(instance[b]) /\ instance[b].watch = w
    BY <1>1, <2>1, NamedCopies, SameKey DEF DInv, Exists
  <2> QED
    BY <1>1, <2>1 DEF DInv, CopiesFresh, ReportsStored, Logged, Exists
<1> QED
  BY <1>2, <1>3, <1>4, <1>5, <1>6 DEF DInv

\* It makes a row, of a key and a number that no other has.
LEMMA CreatedStep ==
    ASSUME DInv, NEW c \in Conns, NEW w \in Watches, LoginRead(c, w), Created(c, w)
    PROVE  DInv'
<1> DEFINE d == [watch |-> w, pk |-> next_pk, baby_id |-> now, user |-> None, charging |-> "off"]
<1>1. d \in Row /\ d.watch = w /\ d.pk = next_pk /\ d.baby_id = now
  BY DeviceAssumption DEF DInv, DeviceTyped, Row
<1>2. /\ row[w] = None /\ row' = [row EXCEPT ![w] = d] /\ next_pk' = next_pk + 1
      /\ Reading' /\ job'.device = d /\ job'.conn = c
      /\ ~Reading
      /\ UNCHANGED <<now, instance, edited, raced, overtaken, outdated, told, deleted>>
  <2>1. job' = [kind |-> "login", conn |-> c, device |-> d]
    BY DEF LoginRead, Created
  <2>2. Reading' /\ job'.device = d /\ job'.conn = c
    BY <1>1, <2>1, LoginIsJob DEF Reading
  <2> QED
    BY <2>2 DEF LoginRead, Created, Idle, Reading
<1>3. \A v \in Watches : row[v] # None => row[v].baby_id # d.baby_id
  BY <1>1 DEF LoginRead, Created, Free
<1>t. DeviceTyped
  BY DEF DInv
<1> HIDE DEF Reading, d
<1>4. row'[w] = d /\ \A v \in Watches : v # w => row'[v] = row[v]
  BY <1>2, <1>t DEF DeviceTyped
<1>5. DeviceTyped'
  BY <1>1, <1>2, <1>t DEF DeviceTyped
<1>6. KeyIsOneWatch'
  <2>1. Named' \subseteq Named \cup {Id(d)}
    <3>1. \A v \in Watches : row'[v] # None => Id(row'[v]) \in Named \cup {Id(d)}
      <4>1. \A v \in Watches : v # w /\ row[v] # None => Id(row[v]) \in Named
        BY NamedCopies
      <4> QED
        BY <1>4, <4>1
    <3>2. \A b \in Conns : instance'[b] # None => Id(instance'[b]) \in Named \cup {Id(d)}
      BY <1>2, NamedCopies DEF Logged
    <3>3. told' \subseteq Named \cup {Id(d)} /\ Id(job'.device) \in Named \cup {Id(d)}
      BY <1>2, NamedCopies
    <3> HIDE <1>2, <1>4
    <3> QED
      BY <3>1, <3>2, <3>3, NamedAfter
  <2> QED
    BY <1>1, <1>2, <1>t, <2>1, KeyGivenOnce DEF DInv, DeviceTyped
<1>7. RowsApart'
  BY <1>1, <1>2, <1>3, <1>4 DEF DInv, RowsApart
<1>8. ToldRows'
  BY <1>2, <1>4, <1>t DEF DInv, ToldRows
<1>9. EditsSaved'
  <2>1. next_pk \in Nat \ {0} /\ 1..next_pk - 1 \subseteq 1..next_pk' - 1 /\ next_pk \notin 1..next_pk - 1
    BY <1>2, <1>t DEF DeviceTyped
  <2>2. \A v \in Watches : edited[v] # None => edited[v].pk # d.pk
    BY <1>1, <2>1 DEF DInv, EditsSaved
  <2> QED
    BY <1>1, <1>2, <1>4, <2>1, <2>2 DEF DInv, EditsSaved, EditKept, Lost
<1>10. CopiesFresh'
  <2>1. \A b \in Conns : Logged(b) => instance[b].pk # d.pk /\ instance[b] \in Row
    <3>1. next_pk \notin 1..next_pk - 1
      BY <1>t DEF DeviceTyped
    <3>2. \A b \in Conns : Logged(b) => Id(instance[b]).pk # d.pk
      BY <1>1, <3>1, NamedCopies DEF DInv, KeyIsOneWatch
    <3> QED
      BY <1>t, <3>2 DEF Id, DeviceTyped, Logged
  <2>2. \A b \in Conns : Logged(b) /\ Exists(instance[b])' =>
          instance[b].watch # w /\ Exists(instance[b])
    BY <1>2, <1>4, <2>1 DEF Exists, Row
  <2>3. \A b \in Conns : Logged(b) /\ Exists(instance[b])' =>
          row'[instance[b].watch] = row[instance[b].watch]
    BY <1>4, <2>1, <2>2 DEF Row
  <2> QED
    BY <1>2, <2>1, <2>2, <2>3 DEF DInv, CopiesFresh, ReportsStored, Logged
<1> QED
  BY <1>5, <1>6, <1>7, <1>8, <1>9, <1>10 DEF DInv

\* It saves what it read, over what happened in between.
LEMMA LoginSaveStep == DInv /\ LoginSave => DInv'
<1> SUFFICES ASSUME DInv, LoginSave PROVE DInv'
  OBVIOUS
<1> DEFINE d == job.device  c == job.conn  w == job.device.watch
<1>t. DeviceTyped
  BY DEF DInv
<1>1. Reading /\ ~Reading' /\ d \in Row /\ c \in Conns
  BY <1>t DEF LoginSave, Reading, DeviceTyped
<1>2. /\ w \in Watches /\ row' = [row EXCEPT ![w] = d] /\ instance' = [instance EXCEPT ![c] = d]
      /\ told' = told \cup {Id(d)}
      /\ overtaken' = overtaken \ {c} /\ outdated' = outdated \ {c}
      /\ UNCHANGED <<next_pk, now, edited, raced, deleted>>
  BY <1>1 DEF LoginSave, Upsert, Adopt, Id, Row
<1> HIDE DEF Reading
<1>4. /\ row'[w] = d /\ \A v \in Watches : v # w => row'[v] = row[v]
      /\ instance'[c] = d /\ \A b \in Conns : b # c => instance'[b] = instance[b]
  BY <1>1, <1>2, <1>t DEF DeviceTyped
<1>5. DeviceTyped'
  <2>1. Id(d) \in AllIds
    BY <1>1 DEF Id, AllIds, Row
  <2> QED
    BY <1>1, <1>2, <1>t, <2>1 DEF DeviceTyped
<1>6. KeyIsOneWatch'
  <2>1. Named' \subseteq Named
    BY <1>1, <1>2, <1>4, NamedCopies, NamedAfter DEF Logged
  <2> QED
    BY <1>2, <2>1, KeyKept DEF DInv
<1>7. RowsApart'
  BY <1>1, <1>2, <1>4 DEF DInv, RowsApart
<1>8. ToldRows'
  <2>1. Id(d).watch = w /\ Id(d).pk = d.pk
    BY DEF Id
  <2>2. \A a \in told : a.watch = w => a.pk \in deleted \/ a.pk = d.pk
    BY <1>1, <1>2 DEF DInv, ToldRows, RowsApart
  <2>3. d # None
    BY <1>1, LoginIsJob
  <2> QED
    BY <1>1, <1>2, <1>4, <2>1, <2>2, <2>3 DEF DInv, ToldRows
<1>9. EditsSaved'
  <2>1. \A v \in Watches : v # w => (row'[v] = row[v])
    BY <1>4
  <2>2. edited[w] # None /\ edited[w].pk = d.pk => d.pk \in raced \/ d.user = edited[w].user
    BY <1>1 DEF DInv, EditsSaved, Lost
  <2> QED
    BY <1>1, <1>2, <1>4, <2>1, <2>2 DEF DInv, EditsSaved, EditKept
<1>10. CopiesFresh'
  <2>1. ASSUME NEW b \in Conns, instance'[b] # None, Exists(instance[b])'
        PROVE  /\ b \notin overtaken' => row'[instance'[b].watch].charging = instance'[b].charging
               /\ b \notin outdated' => row'[instance'[b].watch].user = instance'[b].user
    <3>1. CASE b = c
      BY <1>4, <3>1
    <3>2. CASE b # c
      <4>1. /\ instance'[b] = instance[b] /\ Logged(b) /\ instance[b] \in Row
            /\ b \in overtaken <=> b \in overtaken'
            /\ b \in outdated <=> b \in outdated'
        BY <1>2, <1>4, <1>t, <2>1, <3>2 DEF Logged, DeviceTyped
      <4>2. CASE instance[b].watch = w
        <5>1. row'[w] = d /\ instance[b].pk = d.pk
          BY <1>4, <2>1, <4>1, <4>2 DEF Exists
        <5> QED
          BY <1>1, <4>1, <4>2, <5>1 DEF DInv, CopiesFresh
      <4>3. CASE instance[b].watch # w
        <5>1. row'[instance[b].watch] = row[instance[b].watch]
          BY <1>4, <4>1, <4>3 DEF Row
        <5>2. Exists(instance[b])
          BY <2>1, <4>1, <5>1 DEF Exists
        <5> QED
          BY <4>1, <5>1, <5>2 DEF DInv, CopiesFresh, ReportsStored
      <4> QED
        BY <4>2, <4>3
    <3> QED
      BY <3>1, <3>2
  <2> QED
    BY <1>1, <2>1 DEF CopiesFresh, ReportsStored, Logged, Exists
<1> QED
  BY <1>5, <1>6, <1>7, <1>8, <1>9, <1>10 DEF DInv

-----------------------------------------------------------------------------
(* The other writers.                                                      *)

\* Saving nothing that is kept here leaves the row as it is.
LEMMA NothingSaved ==
    ASSUME NEW d \in Row, NEW e \in Row
    PROVE  [f \in DOMAIN d |-> IF f \in PingColumns THEN d[f] ELSE e[f]] = e
BY DEF Row, PingColumns

\* A heartbeat changes nothing that is kept here.
LEMMA PingStep ==
    ASSUME DInv, NEW c \in Conns, Ping(c)
    PROVE  DInv'
<1>t. DeviceTyped /\ job' = job
  BY DEF DInv, Ping
<1>1. CASE ~Exists(instance[c]) /\ Close(c)
  BY <1>1, <1>t, CloseStep
<1>2. CASE /\ SaveFields(instance[c], PingColumns)
           /\ UNCHANGED <<next_pk, now, instance, edited, raced, overtaken, outdated, told,
                          deleted, edits>>
  <2> DEFINE d == instance[c]
  <2>1. d \in Row /\ d.watch \in Watches /\ row[d.watch] \in Row
    BY <1>2, <1>t DEF Ping, Logged, DeviceTyped, SaveFields, Exists, Row
  <2>2. row' = [row EXCEPT ![d.watch] = row[d.watch]]
    <3> DEFINE same == [f \in DOMAIN d |-> IF f \in PingColumns THEN d[f] ELSE row[d.watch][f]]
    <3>1. same = row[d.watch]
      BY <2>1, NothingSaved, Zenon
    <3>2. row' = [row EXCEPT ![d.watch] = same]
      BY <1>2 DEF SaveFields
    <3> HIDE DEF same
    <3> QED
      BY <3>1, <3>2
  <2>3. row' = row
    BY <1>t, <2>1, <2>2 DEF DeviceTyped
  <2> QED
    BY <1>2, <1>t, <2>3, SameStep DEF device
<1> QED
  BY <1>1, <1>2 DEF Ping

\* Steps that change only columns of one row which name nothing.
LEMMA RowKept ==
    ASSUME DInv, NEW w \in Watches, row[w] # None, NEW e \in Row, Id(e) = Id(row[w]),
           row' = [row EXCEPT ![w] = e], UNCHANGED <<next_pk, now, told, deleted, job>>,
           instance' \in [Conns -> Row \cup {None}],
           \A c \in Conns : instance'[c] # None =>
              instance[c] # None /\ Id(instance'[c]) = Id(instance[c])
    PROVE  KeyIsOneWatch' /\ RowsApart' /\ ToldRows'
<1>t. DeviceTyped
  BY DEF DInv
<1>1. row'[w] = e /\ \A v \in Watches : v # w => row'[v] = row[v]
  BY <1>t DEF DeviceTyped
<1>2. /\ e.watch = row[w].watch /\ e.pk = row[w].pk /\ e.baby_id = row[w].baby_id
      /\ e # None
  BY LoginIsJob, DeviceAssumption DEF Id
<1>3. Reading' <=> Reading
  BY DEF Reading
<1>4. KeyIsOneWatch'
  <2>1. \A v \in Watches : row'[v] # None => Id(row'[v]) \in Named
    BY <1>1, NamedCopies
  <2>2. \A c \in Conns : instance'[c] # None => Id(instance'[c]) \in Named
    BY NamedCopies DEF Logged
  <2>3. told' \subseteq Named /\ (Reading' => Id(job'.device) \in Named)
    BY <1>3, NamedCopies
  <2>4. Named' \subseteq Named
    BY <2>1, <2>2, <2>3, NamedAfter
  <2> QED
    BY <2>4, KeyKept DEF DInv
<1>5. RowsApart'
  BY <1>1, <1>2, <1>3 DEF DInv, RowsApart
<1>6. ToldRows'
  <2>1. \A a \in told : a.watch \in Watches
    BY <1>t DEF DeviceTyped, AllIds
  <2> QED
    BY <1>1, <1>2, <2>1 DEF DInv, ToldRows
<1> QED
  BY <1>4, <1>5, <1>6

\* A status message that is saved: the row and the copy get the state, and the other
\* sessions of the watch are overtaken.
LEMMA ReportStep ==
    ASSUME DInv, NEW c \in Conns, Logged(c), NEW state \in {"on", "off"}, Report(c, state),
           job' = job, ~Reading
    PROVE  DInv'
<1>t. DeviceTyped
  BY DEF DInv
<1>1. CASE ~Exists(instance[c]) /\ Close(c)
  BY <1>1, CloseStep
<1>2. CASE UNCHANGED device
  BY <1>2, SameStep
<1> DEFINE d == [instance[c] EXCEPT !.charging = state]
           w == d.watch
           e == [f \in DOMAIN d |-> IF f \in {"charging"} THEN d[f] ELSE row[w][f]]
<1>3. CASE /\ instance[c].charging # state
           /\ SaveFields(d, {"charging"})
           /\ Remember(c, state)
           /\ overtaken' = overtaken \cup (SessionsOf(d.pk) \ {c})
           /\ UNCHANGED <<next_pk, now, edited, raced, outdated, told, deleted, edits>>
  <2>1. /\ instance[c] \in Row /\ d \in Row /\ Id(d) = Id(instance[c])
        /\ d.watch = instance[c].watch /\ d.pk = instance[c].pk
        /\ d.user = instance[c].user /\ d.charging = state
    BY <1>t DEF Logged, DeviceTyped, Row, Id
  <2>2. /\ w \in Watches /\ row[w] # None /\ row[w] \in Row /\ row[w].pk = d.pk
        /\ row' = [row EXCEPT ![w] = e]
    BY <1>3, <1>t, <2>1 DEF SaveFields, Exists, Row, DeviceTyped
  <2>3. /\ e \in Row /\ Id(e) = Id(row[w]) /\ e.watch = row[w].watch /\ e.pk = row[w].pk
        /\ e.baby_id = row[w].baby_id /\ e.user = row[w].user /\ e.charging = state
    <3> HIDE DEF d, e
    <3>1. e = [f \in DOMAIN d |-> IF f \in {"charging"} THEN d[f] ELSE row[w][f]]
      BY DEF e
    <3> QED
      BY <2>1, <2>2, <3>1 DEF Row, Id
  <2>4. instance' = [instance EXCEPT ![c] = d]
    BY <1>3 DEF Remember
  <2> HIDE DEF d, e
  <2>5. /\ row'[w] = e /\ \A v \in Watches : v # w => row'[v] = row[v]
        /\ instance'[c] = d /\ \A b \in Conns : b # c => instance'[b] = instance[b]
    BY <1>t, <2>2, <2>4 DEF DeviceTyped
  <2>6. ~Reading'
    BY DEF Reading
  <2>7. DeviceTyped'
    BY <1>3, <1>t, <2>1, <2>2, <2>3, <2>4, <2>6 DEF DeviceTyped, SessionsOf
  <2>8. KeyIsOneWatch' /\ RowsApart' /\ ToldRows'
    <3>1. \A b \in Conns : instance'[b] # None =>
            instance[b] # None /\ Id(instance'[b]) = Id(instance[b])
      BY <2>1, <2>5 DEF Logged
    <3>2. UNCHANGED <<next_pk, now, told, deleted, job>> /\ instance' \in [Conns -> Row \cup {None}]
      BY <1>3, <2>7 DEF DeviceTyped
    <3> QED
      BY <2>2, <2>3, <3>1, <3>2, RowKept
  <2>9. EditsSaved'
    BY <1>3, <2>2, <2>3, <2>5, <2>6 DEF DInv, EditsSaved, EditKept
  <2>10. CopiesFresh'
    <3>1. ASSUME NEW b \in Conns, instance'[b] # None, Exists(instance[b])'
          PROVE  /\ b \notin overtaken' => row'[instance'[b].watch].charging = instance'[b].charging
                 /\ b \notin outdated' => row'[instance'[b].watch].user = instance'[b].user
      <4>1. CASE b = c
        <5>1. c \notin outdated => row[w].user = d.user
          BY <2>1, <2>2 DEF DInv, CopiesFresh, Exists
        <5> QED
          BY <1>3, <2>1, <2>3, <2>5, <4>1, <5>1
      <4>2. CASE b # c
        <5>1. instance'[b] = instance[b] /\ Logged(b) /\ instance[b] \in Row
          BY <1>t, <2>5, <3>1, <4>2 DEF Logged, DeviceTyped
        <5>2. CASE instance[b].watch = w
          <6>1. instance[b].pk = d.pk /\ Exists(instance[b])
            BY <2>2, <2>3, <2>5, <3>1, <5>1, <5>2 DEF Exists
          <6>2. b \in overtaken'
            BY <1>3, <4>2, <5>1, <6>1 DEF SessionsOf
          <6> QED
            BY <1>3, <2>3, <2>5, <5>1, <5>2, <6>1, <6>2 DEF DInv, CopiesFresh
        <5>3. CASE instance[b].watch # w
          <6>1. row'[instance[b].watch] = row[instance[b].watch]
            BY <2>5, <5>1, <5>3 DEF Row
          <6>2. Exists(instance[b])
            BY <3>1, <5>1, <6>1 DEF Exists
          <6> QED
            BY <1>3, <5>1, <6>1, <6>2 DEF DInv, CopiesFresh, ReportsStored
        <5> QED
          BY <5>2, <5>3
      <4> QED
        BY <4>1, <4>2
    <3> QED
      BY <2>6, <3>1 DEF CopiesFresh, ReportsStored, Logged, Exists
  <2> QED
    BY <2>7, <2>8, <2>9, <2>10 DEF DInv
<1> QED
  BY <1>1, <1>2, <1>3 DEF Report, Exists

\* The admin interface edits a row: the sessions of the watch have old copies.
LEMMA EditStep ==
    ASSUME DInv, NEW w \in Watches, NEW u \in Owners \cup {None}, AdminEdit(w, u)
    PROVE  DInv'
<1>t. DeviceTyped
  BY DEF DInv
<1> DEFINE e == [row[w] EXCEPT !.user = u]
<1>1. /\ row[w] # None /\ row[w] \in Row /\ row' = [row EXCEPT ![w] = e]
      /\ e \in Row /\ Id(e) = Id(row[w]) /\ e.pk = row[w].pk /\ e.watch = row[w].watch
      /\ e.user = u /\ e.charging = row[w].charging
  BY <1>t DEF AdminEdit, DeviceTyped, Row, Id
<1>2. /\ edited' = [edited EXCEPT ![w] = [pk |-> row[w].pk, user |-> u]]
      /\ raced' = IF Reading /\ job.device.pk = row[w].pk
                  THEN raced \cup {row[w].pk} ELSE raced \ {row[w].pk}
      /\ outdated' = outdated \cup SessionsOf(row[w].pk)
      /\ UNCHANGED <<next_pk, now, instance, job, overtaken, told, deleted>>
  BY DEF AdminEdit, Reading
<1>3. Reading' <=> Reading
  BY <1>2 DEF Reading
<1> HIDE DEF e
<1>4. /\ row'[w] = e /\ \A v \in Watches : v # w => row'[v] = row[v]
      /\ edited'[w].pk = e.pk /\ edited'[w].user = u
      /\ \A v \in Watches : v # w => edited'[v] = edited[v]
  BY <1>t, <1>1, <1>2 DEF DeviceTyped
<1>5. e.pk \in Nat /\ e.pk \in 1..next_pk - 1
  <2>1. Id(row[w]) \in Named
    BY <1>1, NamedCopies
  <2>2. Id(row[w]).pk = e.pk
    BY <1>1 DEF Id
  <2> QED
    BY <2>1, <2>2 DEF DInv, KeyIsOneWatch
<1>6. DeviceTyped'
  <2>1. [pk |-> row[w].pk, user |-> u] \in Edits
    BY <1>1 DEF Edits, Row
  <2> QED
    BY <1>t, <1>1, <1>2, <1>3, <2>1 DEF DeviceTyped, SessionsOf
<1>7. KeyIsOneWatch' /\ RowsApart' /\ ToldRows'
  BY <1>t, <1>1, <1>2, RowKept DEF DeviceTyped
<1>8. EditsSaved'
  <2>1. raced' \subseteq raced \cup {e.pk} /\ \A p \in raced : p # e.pk => p \in raced'
    BY <1>1, <1>2
  <2>2. \A v \in Watches : v # w /\ row[v] # None => row[v].pk # e.pk
    BY <1>1, NamedCopies, SameKey DEF DInv, RowsApart
  <2>3. EditKept'
    BY <1>1, <1>4, <2>1, <2>2 DEF DInv, EditsSaved, EditKept
  <2>4. ASSUME Reading, edited'[job.device.watch] # None,
               edited'[job.device.watch].pk = job.device.pk
        PROVE  Lost(job.device.pk)' \/ job.device.user = edited'[job.device.watch].user
    <3>1. job.device \in Row /\ job.device.watch \in Watches
      BY <1>t, <2>4 DEF DeviceTyped, Row
    <3>2. CASE job.device.watch = w
      BY <1>1, <1>2, <1>4, <2>4, <3>2 DEF Lost
    <3>3. CASE job.device.watch # w
      <4>1. job.device.pk # e.pk
        BY <1>1, <2>4, <3>3, NamedCopies, SameKey DEF DInv, RowsApart
      <4> QED
        BY <1>2, <1>4, <2>1, <2>4, <3>1, <3>3, <4>1 DEF DInv, EditsSaved, Lost
    <3> QED
      BY <3>2, <3>3
  <2> QED
    BY <1>2, <1>3, <1>4, <1>5, <2>1, <2>3, <2>4 DEF DInv, EditsSaved
<1>9. CopiesFresh'
  <2>1. \A b \in Conns : Logged(b) /\ instance[b].pk = e.pk => b \in outdated'
    BY <1>1, <1>2 DEF SessionsOf
  <2>2. \A v \in Watches : row'[v] # None => /\ row[v] # None /\ row'[v].pk = row[v].pk
                                             /\ row'[v].charging = row[v].charging
    BY <1>1, <1>4
  <2>3. ASSUME NEW b \in Conns, Logged(b), Exists(instance[b])'
        PROVE  /\ Exists(instance[b])
               /\ b \notin overtaken => row'[instance[b].watch].charging = instance[b].charging
               /\ b \notin outdated' => row'[instance[b].watch].user = instance[b].user
    <3>1. instance[b] \in Row /\ instance[b].watch \in Watches
      BY <1>t, <2>3 DEF DeviceTyped, Logged, Row
    <3>2. Exists(instance[b])
      BY <1>2, <2>2, <2>3, <3>1 DEF Exists
    <3>3. b \notin outdated' => b \notin outdated /\ instance[b].watch # w
      BY <1>1, <1>2, <2>1, <2>3, <3>2 DEF Exists
    <3> QED
      <4>1. b \notin overtaken => row[instance[b].watch].charging = instance[b].charging
        BY <2>3, <3>2 DEF DInv, CopiesFresh, ReportsStored
      <4>2. b \notin outdated => row[instance[b].watch].user = instance[b].user
        BY <2>3, <3>2 DEF DInv, CopiesFresh
      <4>3. row'[instance[b].watch] # None
        BY <1>2, <2>3 DEF Exists
      <4> QED
        BY <1>4, <2>2, <3>1, <3>2, <3>3, <4>1, <4>2, <4>3
  <2> QED
    BY <1>2, <1>3, <2>3 DEF DInv, CopiesFresh, ReportsStored, Logged, Exists
<1> QED
  BY <1>6, <1>7, <1>8, <1>9 DEF DInv

\* It deletes a row; what was told of it is told of a deleted row.
LEMMA DeleteStep ==
    ASSUME DInv, NEW w \in Watches, AdminDelete(w)
    PROVE  DInv'
<1>t. DeviceTyped
  BY DEF DInv
<1>1. /\ row[w] # None /\ row[w] \in Row /\ row' = [row EXCEPT ![w] = None]
      /\ deleted' = deleted \cup {row[w].pk}
      /\ UNCHANGED <<next_pk, now, instance, job, edited, raced, overtaken, outdated, told>>
  BY <1>t DEF AdminDelete, DeviceTyped
<1>2. Reading' <=> Reading
  BY <1>1 DEF Reading
<1>3. row'[w] = None /\ \A v \in Watches : v # w => row'[v] = row[v]
  BY <1>t, <1>1 DEF DeviceTyped
<1>4. DeviceTyped'
  BY <1>t, <1>1, <1>2 DEF DeviceTyped
<1>5. KeyIsOneWatch'
  <2>1. \A v \in Watches : row'[v] # None => Id(row'[v]) \in Named
    BY <1>3, NamedCopies
  <2>2. Named' \subseteq Named
    BY <1>1, <1>2, <2>1, NamedCopies, NamedAfter DEF Logged
  <2> QED
    BY <1>1, <2>2, KeyKept DEF DInv
<1>6. RowsApart'
  BY <1>1, <1>2, <1>3 DEF DInv, RowsApart
<1>7. ToldRows'
  BY <1>t, <1>1, <1>3 DEF DInv, ToldRows, DeviceTyped, AllIds
<1>8. EditsSaved'
  <2>1. row[w].pk \in 1..next_pk - 1
    <3>1. Id(row[w]) \in Named /\ Id(row[w]).pk = row[w].pk
      BY <1>1, NamedCopies DEF Id
    <3> QED
      BY <3>1 DEF DInv, KeyIsOneWatch
  <2> QED
    BY <1>1, <1>2, <1>3, <2>1 DEF DInv, EditsSaved, EditKept, Lost
<1>9. CopiesFresh'
  <2>1. ASSUME NEW b \in Conns, Logged(b), Exists(instance[b])'
        PROVE  Exists(instance[b]) /\ row'[instance[b].watch] = row[instance[b].watch]
    BY <1>t, <1>1, <1>3, <2>1 DEF DeviceTyped, Logged, Row, Exists
  <2> QED
    BY <1>1, <1>2, <2>1 DEF DInv, CopiesFresh, ReportsStored, Logged
<1> QED
  BY <1>4, <1>5, <1>6, <1>7, <1>8, <1>9 DEF DInv

-----------------------------------------------------------------------------
(* All steps.                                                              *)

\* The invariant holds before the first watch.
LEMMA DeviceInitInv == DeviceInit => DInv
<1> SUFFICES ASSUME DeviceInit PROVE DInv
  OBVIOUS
<1>1. /\ \A w \in Watches : row[w] = None /\ edited[w] = None
      /\ \A c \in Conns : ~Logged(c)
      /\ ~Reading /\ Named = {}
  BY DEF DeviceInit, Logged, Reading, Named
<1>2. DeviceTyped
  BY <1>1, DeviceAssumption DEF DeviceInit, DeviceTyped
<1> QED
  BY <1>1, <1>2 DEF DeviceInit, DInv, KeyIsOneWatch, RowsApart, ToldRows, EditsSaved, EditKept,
                    CopiesFresh, ReportsStored

\* The invariant is kept by every step of the watches and of the admin interface.
LEMMA DeviceStepInv == DInv /\ DeviceNext => DInv'
<1> SUFFICES ASSUME DInv, DeviceNext PROVE DInv'
  OBVIOUS
<1>1. ASSUME NEW c \in Conns, NEW w \in Watches, LoginRead(c, w) PROVE DInv'
  BY <1>1, FoundStep, CreatedStep DEF LoginRead
<1>2. ASSUME NEW c \in Conns, NEW w \in Watches, LoginRefused(c, w) PROVE DInv'
  BY <1>2, CloseStep DEF LoginRefused
<1>3. ASSUME NEW c \in Conns, Ping(c) PROVE DInv'
  BY <1>3, PingStep
<1>4. ASSUME NEW c \in Conns, Leave(c) PROVE DInv'
  BY <1>4, CloseStep DEF Leave
<1>5. ASSUME NEW c \in Conns, NEW state \in {"on", "off"}, Status(c, state) PROVE DInv'
  BY <1>5, ReportStep DEF Status, Idle, Reading
<1>6. ASSUME NEW w \in Watches, NEW u \in Owners \cup {None}, AdminEdit(w, u) PROVE DInv'
  BY <1>6, EditStep
<1>7. ASSUME NEW w \in Watches, AdminDelete(w) PROVE DInv'
  BY <1>7, DeleteStep
<1>8. ASSUME Tick PROVE DInv'
  <2>1. Quiet
    BY <1>8, DeviceAssumption DEF Tick, Quiet, DInv, DeviceTyped, Reading
  <2> QED
    BY <2>1, QuietStep
<1> QED
  BY <1>1, <1>2, <1>3, <1>4, <1>5, <1>6, <1>7, <1>8, LoginSaveStep DEF DeviceNext

\* Two watches that are in the table have two numbers, and what was told is theirs.
LEMMA NumbersOfRows == DInv => NumbersStable
<1> SUFFICES ASSUME DInv, NEW a \in told, NEW b \in told, a.pk \notin deleted, b.pk \notin deleted
             PROVE  (a.watch = b.watch) <=> (a.baby_id = b.baby_id)
  BY DEF NumbersStable
<1>1. ASSUME NEW x \in told, x.pk \notin deleted
      PROVE  /\ x.watch \in Watches /\ row[x.watch] # None
             /\ row[x.watch].watch = x.watch /\ row[x.watch].baby_id = x.baby_id
  <2>1. x.watch \in Watches /\ row[x.watch] # None /\ row[x.watch].pk = x.pk
    BY <1>1 DEF DInv, DeviceTyped, AllIds, ToldRows
  <2>2. Id(row[x.watch]) \in Named /\ x \in Named
    BY <2>1, NamedCopies
  <2>3. Id(row[x.watch]) = x
    BY <2>1, <2>2 DEF DInv, KeyIsOneWatch, Id
  <2> QED
    BY <2>1, <2>3 DEF Id
<1>2. a.watch = b.watch => a.baby_id = b.baby_id
  BY <1>1
<1>3. a.baby_id = b.baby_id => a.watch = b.watch
  BY <1>1 DEF DInv, RowsApart
<1> QED
  BY <1>2, <1>3
=============================================================================
