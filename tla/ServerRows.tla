------------------------------- MODULE ServerRows -------------------------------
(***************************************************************************)
(* The handlers of the server that write rows with versioned fields, over   *)
(* sockets and over HTTP.  Each request runs in a goroutine of its own; a   *)
(* step of a handler is one statement of the database, so that statements   *)
(* of different requests interleave.  A content is the request that wrote   *)
(* it.  The rows belong to one account.                                     *)
(***************************************************************************)
EXTENDS Integers, FiniteSets, Functions

CONSTANTS
  Requests,       \* the requests, each made once
  Sessions,       \* the tags of sessions; a row made again has another id
  Terminals, Artifacts, Accounts, Keys,
  Home,           \* the terminal of each session
  Versions,       \* the versions that requests name
  KeyVersions,    \* and those for keys; -1 is that of a key that is not there
  MaxDbErrors,    \* bound: statements that fail
  None            \* no content

Rows == Sessions \cup Terminals \cup Artifacts \cup Accounts \cup Keys

\* "head" is metadata (sessions, terminals), header, settings or value; "body"
\* is agentState, daemonState or body.
Parts == {"head", "body"}

Cells == Rows \X Parts

ASSUME RowsOK ==
  /\ Home \in [Sessions -> Terminals]
  /\ Versions \subseteq Nat
  /\ KeyVersions \subseteq Int
  /\ MaxDbErrors \in Nat
  /\ None \notin Requests \cup Rows
  /\ \A D \in SUBSET Cells : None \notin [D -> Int]
  /\ Sessions \cap (Terminals \cup Artifacts \cup Accounts \cup Keys) = {}
  /\ Terminals \cap (Artifacts \cup Accounts \cup Keys) = {}
  /\ Artifacts \cap (Accounts \cup Keys) = {}
  /\ Accounts \cap Keys = {}

VARIABLES
  db,       \* each versioned field: version and content
  born,     \* how often each row was created
  task,     \* the handler of each request
  told,     \* the answer to each request
  news,     \* the updates emitted to the account's sockets
  errors    \* statements that failed

vars == <<db, born, task, told, news, errors>>

content(ver, val) == [ver |-> ver, val |-> val]

absent == content(-1, None)

live(r) == db[<<r, "head">>].ver >= 0

\* The id of a session is drawn at its creation; the others are the client's.
id(r) == IF r \in Sessions THEN born[r] ELSE 0

\* A handler: the operation, the statement it is at, the row and its id, the
\* content, the versions it relies on, the parts it has yet to refresh, and
\* what it will publish.
idle == [op |-> "none", pc |-> "idle", row |-> None, id |-> 0, val |-> None,
         exp |-> <<>>, left |-> {}, wrote |-> {}]

whole(r) == {r} \X Parts

versionsOf(cs) == [c \in cs |-> db[c].ver]

contentsOf(cs) == {[cell |-> c, ver |-> db[c].ver, val |-> db[c].val] : c \in cs}

\* A row as its creation leaves it.
InitialRow(r) ==
  CASE r \in Sessions -> [p \in Parts |-> content(0, None)]
    [] r \in Terminals -> [head |-> content(1, None), body |-> content(0, None)]
    [] r \in Artifacts -> [p \in Parts |-> content(1, None)]
    [] OTHER -> [head |-> content(0, None), body |-> absent]

Init ==
  /\ \E there \in SUBSET Rows :
       /\ Accounts \subseteq there
       /\ \A s \in Sessions : s \in there => Home[s] \in there
       /\ db = [c \in Cells |-> IF c[1] \in there THEN InitialRow(c[1])[c[2]] ELSE absent]
       /\ born = [r \in Rows |-> IF r \in there THEN 1 ELSE 0]
  /\ task = [q \in Requests |-> idle]
  /\ told = [q \in Requests |-> "waiting"]
  /\ news = {}
  /\ errors = 0

----------------------------------------------------------------------------
\* Statements of the database

at(q, op, pc) == task[q].op = op /\ task[q].pc = pc

Works == UNCHANGED errors

Fails == errors < MaxDbErrors /\ errors' = errors + 1

GoTo(q, pc) == task' = [task EXCEPT ![q].pc = pc] /\ UNCHANGED told

Answer(q, a) == told' = [told EXCEPT ![q] = a] /\ task' = [task EXCEPT ![q].pc = "done"]

\* WHERE id = ? AND version = ?
Matches(q) ==
  /\ task[q].id = id(task[q].row)
  /\ \A c \in DOMAIN task[q].exp : db[c].ver = task[q].exp[c]

\* Mutant: the update carries the version that was replaced.
wantedAsNamed(q, cs) == {[cell |-> c, ver |-> task[q].exp[c], val |-> task[q].val] : c \in cs}

\* The fields as the request wants them, each at the next version.
wanted(q, cs) == {[cell |-> c, ver |-> task[q].exp[c] + 1, val |-> task[q].val] : c \in cs}

Write(q, cs) ==
  db' = [c \in Cells |-> IF c \in cs THEN content(task[q].exp[c] + 1, task[q].val) ELSE db[c]]

Insert(r, row) ==
  /\ db' = [c \in Cells |-> IF c[1] = r THEN row[c[2]] ELSE db[c]]
  /\ born' = [born EXCEPT ![r] = @ + 1]

Delete(rs) == db' = [c \in Cells |-> IF c[1] \in rs THEN absent ELSE db[c]]

Found(q) == live(task[q].row) /\ task[q].id = id(task[q].row)

Begin(q, op, pc, r, exp, val) ==
  /\ task[q].pc = "idle"
  /\ task' = [task EXCEPT ![q] = [op |-> op, pc |-> pc, row |-> r, id |-> id(r), val |-> val,
                                  exp |-> exp, left |-> {}, wrote |-> {}]]
  /\ UNCHANGED <<db, born, told, news, errors>>

\* UpdateAccountSeq, then the update is emitted; without a number it is not.
Emit(q, cs) ==
  \/ Works /\ news' = news \cup {[by |-> q, cells |-> cs]}
  \/ Fails /\ UNCHANGED news

----------------------------------------------------------------------------
\* Handlers that write the fields ps of one row.  Some compare the versions
\* when they check that the row is there, all when they write.

Read(q, early) ==
  /\ \/ Found(q) /\ (early => Matches(q)) /\ Works /\ GoTo(q, "write")
     \/ Found(q) /\ early /\ ~Matches(q) /\ Works /\ Answer(q, "mismatch")
     \/ ~Found(q) /\ Works /\ Answer(q, "error")
     \/ Fails /\ Answer(q, "error")
  /\ UNCHANGED <<db, born, news>>

\* Mutant: the version is checked when the row is read, not by the UPDATE.
CompareAndWriteUnguarded(q) ==
  /\ Write(q, DOMAIN task[q].exp) /\ Works /\ GoTo(q, "publish")
  /\ UNCHANGED <<born, news>>

CompareAndWrite(q) ==
  /\ \/ Matches(q) /\ Works /\ Write(q, DOMAIN task[q].exp) /\ GoTo(q, "publish")
     \/ ~Matches(q) /\ Works /\ UNCHANGED db /\ GoTo(q, "reread")
     \/ Fails /\ UNCHANGED db /\ GoTo(q, "reread")
  /\ UNCHANGED <<born, news>>

Reread(q) ==
  /\ \/ Found(q) /\ Works /\ Answer(q, "mismatch")
     \/ ~Found(q) /\ Works /\ Answer(q, "error")
     \/ Fails /\ Answer(q, "error")
  /\ UNCHANGED <<db, born, news>>

Publish(q) ==
  /\ Emit(q, wanted(q, DOMAIN task[q].exp))
  /\ Answer(q, "success")
  /\ UNCHANGED <<db, born>>

Update(q, op, rows, fields, early) ==
  \/ \E r \in rows, ps \in fields : \E exp \in [{r} \X ps -> Versions] :
       Begin(q, op, "read", r, exp, q)
  \/ at(q, op, "read") /\ Read(q, early)
  \/ at(q, op, "write") /\ CompareAndWrite(q)
  \/ at(q, op, "reread") /\ Reread(q)
  \/ at(q, op, "publish") /\ Publish(q)

UpdateMetadata(q) == Update(q, "update-metadata", Sessions, {{"head"}}, FALSE)

UpdateState(q) == Update(q, "update-state", Sessions, {{"body"}}, FALSE)

TerminalUpdateMetadata(q) == Update(q, "terminal-update-metadata", Terminals, {{"head"}}, TRUE)

TerminalUpdateState(q) == Update(q, "terminal-update-state", Terminals, {{"body"}}, TRUE)

\* Over a socket; the HTTP handlers of artifacts execute the same statements.
ArtifactUpdate(q) == Update(q, "artifact-update", Artifacts, (SUBSET Parts) \ {{}}, TRUE)

UpdateArtifact(q) == ArtifactUpdate(q)

\* The statement does not report whether it found the version.
UpdateSettings(q) ==
  \/ \E r \in Accounts : \E exp \in [{<<r, "head">>} -> Versions] :
       Begin(q, "settings", "write", r, exp, q)
  \/ /\ at(q, "settings", "write")
     /\ \/ Works /\ (IF Matches(q) THEN Write(q, DOMAIN task[q].exp) ELSE UNCHANGED db)
           /\ GoTo(q, "publish")
        \/ Fails /\ UNCHANGED db /\ GoTo(q, "reread")
     /\ UNCHANGED <<born, news>>
  \/ at(q, "settings", "reread") /\ Reread(q)
  \/ at(q, "settings", "publish") /\ Publish(q)

\* Mutant: setting a value to null deletes the row.
MutateKVDeletes(q) ==
  \/ \E ks \in (SUBSET Keys) \ {{}}, val \in {q, None} : \E exp \in [ks \X {"head"} -> KeyVersions] :
       Begin(q, "kv", "write", None, exp, val)
  \/ /\ at(q, "kv", "write") /\ Matches(q) /\ Works
     /\ IF task[q].val = None
          THEN Delete({c[1] : c \in DOMAIN task[q].exp})
          ELSE Write(q, DOMAIN task[q].exp)
     /\ GoTo(q, "publish")
     /\ UNCHANGED <<born, news>>
  \/ at(q, "kv", "publish") /\ Publish(q)

\* One transaction: all of the mutations or none.  A key that is not there has
\* version -1; a deleted one keeps its version.
MutateKV(q) ==
  \/ \E ks \in (SUBSET Keys) \ {{}}, val \in {q, None} : \E exp \in [ks \X {"head"} -> KeyVersions] :
       Begin(q, "kv", "write", None, exp, val)
  \/ /\ at(q, "kv", "write")
     /\ \/ Matches(q) /\ Works /\ Write(q, DOMAIN task[q].exp) /\ GoTo(q, "publish")
        \/ ~Matches(q) /\ Works /\ UNCHANGED db /\ Answer(q, "mismatch")
        \/ Fails /\ UNCHANGED db /\ Answer(q, "mismatch")
     /\ UNCHANGED <<born, news>>
  \/ at(q, "kv", "publish") /\ Publish(q)

----------------------------------------------------------------------------
\* Creating and deleting rows

\* INSERT: fails if the row exists.
InsertRow(q, row) ==
  /\ \/ /\ ~live(task[q].row) /\ Works
        /\ Insert(task[q].row, row)
        /\ GoTo(q, "fetch")
     \/ live(task[q].row) /\ Works /\ UNCHANGED <<db, born>> /\ Answer(q, "error")
     \/ Fails /\ UNCHANGED <<db, born>> /\ Answer(q, "error")
  /\ UNCHANGED news

\* What is published is read again.
Fetch(q) ==
  /\ \/ /\ live(task[q].row) /\ Works /\ UNCHANGED told
        /\ task' = [task EXCEPT ![q].pc = "publish", ![q].wrote = contentsOf(whole(task[q].row))]
     \/ ~live(task[q].row) /\ Works /\ Answer(q, "error")
     \/ Fails /\ Answer(q, "error")
  /\ UNCHANGED <<db, born, news>>

PublishWrote(q) ==
  /\ Emit(q, task[q].wrote)
  /\ Answer(q, "success")
  /\ UNCHANGED <<db, born>>

\* A row that exists is returned as it is.
CreateUnlessThere(q, op, rows, row) ==
  \/ \E r \in rows : Begin(q, op, "read", r, <<>>, q)
  \/ /\ at(q, op, "read")
     /\ \/ live(task[q].row) /\ Works /\ Answer(q, "success")
        \/ ~live(task[q].row) /\ Works /\ GoTo(q, "insert")
        \/ Fails /\ Answer(q, "error")
     /\ UNCHANGED <<db, born, news>>
  \/ at(q, op, "insert") /\ InsertRow(q, row)
  \/ at(q, op, "fetch") /\ Fetch(q)

ArtifactCreate(q) ==
  \/ CreateUnlessThere(q, "artifact-create", Artifacts, [p \in Parts |-> content(1, q)])
  \/ at(q, "artifact-create", "publish") /\ PublishWrote(q)

CreateArtifact(q) == ArtifactCreate(q)

\* Published twice: as new, and its metadata.
CreateTerminal(q) ==
  \/ \E body \in {content(0, None), content(1, q)} :
       CreateUnlessThere(q, "POST terminal", Terminals, [head |-> content(1, q), body |-> body])
  \/ at(q, "POST terminal", "publish") /\ Emit(q, task[q].wrote) /\ GoTo(q, "again") /\ UNCHANGED <<db, born>>
  \/ /\ at(q, "POST terminal", "again")
     /\ Emit(q, {w \in task[q].wrote : w.cell[2] = "head"})
     /\ Answer(q, "success")
     /\ UNCHANGED <<db, born>>

\* Reads, deletes and publishes the deletion, which carries no version.
DeleteRow(q, op, rows) ==
  \/ \E r \in rows : Begin(q, op, "read", r, <<>>, None)
  \/ at(q, op, "read") /\ Read(q, FALSE)
  \/ /\ at(q, op, "write")
     /\ \/ Works /\ Delete({r \in {task[q].row} : Found(q)}) /\ GoTo(q, "publish")
        \/ Fails /\ UNCHANGED db /\ Answer(q, "error")
     /\ UNCHANGED <<born, news>>
  \/ at(q, op, "publish") /\ Emit(q, {}) /\ Answer(q, "success") /\ UNCHANGED <<db, born>>

ArtifactDelete(q) == DeleteRow(q, "artifact-delete", Artifacts)

DeleteArtifact(q) == ArtifactDelete(q)

DeleteSession(q) == DeleteRow(q, "DELETE session", Sessions)

\* ON DELETE CASCADE takes the terminal's sessions along; nothing is published.
DeleteTerminal(q) ==
  \/ \E r \in Terminals : Begin(q, "DELETE terminal", "write", r, <<>>, None)
  \/ /\ at(q, "DELETE terminal", "write")
     /\ \/ /\ Works
           /\ Delete({task[q].row} \cup {s \in Sessions : Home[s] = task[q].row})
           /\ Answer(q, "success")
        \/ Fails /\ UNCHANGED db /\ Answer(q, "error")
     /\ UNCHANGED <<born, news>>

----------------------------------------------------------------------------
\* CreateSession: a session whose tag exists is brought up to date instead.

\* The part that is refreshed next: metadata before agentState.
part(q) == IF "head" \in task[q].left THEN "head" ELSE "body"

cell(q) == <<task[q].row, part(q)>>

LookUpTag(q) ==
  /\ \/ /\ live(task[q].row) /\ Works /\ UNCHANGED told
        /\ \E stale \in SUBSET Parts :
             task' = [task EXCEPT ![q].pc = "refresh", ![q].id = id(task[q].row), ![q].left = stale,
                                  ![q].exp = versionsOf(whole(task[q].row))]
     \/ ~live(task[q].row) /\ Works /\ GoTo(q, "insert")
     \/ Fails /\ Answer(q, "error")
  /\ UNCHANGED <<db, born, news>>

\* One UPDATE ... WHERE version = ?, at most twice for each part.
WriteStale(q) ==
  Found(q) /\ db[cell(q)].ver = task[q].exp[cell(q)] /\ Works /\ Write(q, {cell(q)})

Refresh(q) ==
  /\ task[q].left # {}
  /\ \/ /\ WriteStale(q)
        /\ task' = [task EXCEPT ![q].pc = "refresh", ![q].left = @ \ {part(q)},
                                ![q].wrote = @ \cup wanted(q, {cell(q)})]
     \/ /\ \/ (~Found(q) \/ db[cell(q)].ver # task[q].exp[cell(q)]) /\ Works
           \/ Fails
        /\ UNCHANGED db
        /\ IF task[q].pc = "refresh"
             THEN task' = [task EXCEPT ![q].pc = "refetch"]
             ELSE task' = [task EXCEPT ![q].pc = "refresh", ![q].left = @ \ {part(q)}]
  /\ UNCHANGED <<born, told, news>>

\* The retry takes the version of now, unless the content came by itself.
Refetch(q) ==
  /\ \/ /\ Found(q) /\ Works
        /\ task' = [task EXCEPT ![q].pc = "retry", ![q].exp[cell(q)] = db[cell(q)].ver]
     \/ /\ Works \/ Fails
        /\ task' = [task EXCEPT ![q].pc = "refresh", ![q].left = @ \ {part(q)}]
  /\ UNCHANGED <<db, born, told, news>>

\* The id is new, so that only the tag may be taken meanwhile.
InsertSession(q) ==
  \/ /\ at(q, "POST session", "insert")
     /\ \/ /\ ~live(task[q].row) /\ live(Home[task[q].row]) /\ Works /\ UNCHANGED told
           /\ Insert(task[q].row, [p \in Parts |-> content(0, q)])
           /\ task' = [task EXCEPT ![q].pc = "publish",
                                   ![q].wrote = {[cell |-> c, ver |-> 0, val |-> q] : c \in whole(task[q].row)}]
        \/ /\ \/ (live(task[q].row) \/ ~live(Home[task[q].row])) /\ Works
              \/ Fails
           /\ UNCHANGED <<db, born>> /\ Answer(q, "error")
     /\ UNCHANGED news
  \/ at(q, "POST session", "publish") /\ PublishWrote(q)

CreateSession(q) ==
  \/ \E s \in Sessions : Begin(q, "POST session", "terminal", s, <<>>, q)
  \/ /\ at(q, "POST session", "terminal")
     /\ \/ live(Home[task[q].row]) /\ Works /\ GoTo(q, "tag")
        \/ ~live(Home[task[q].row]) /\ Works /\ Answer(q, "error")
        \/ Fails /\ Answer(q, "error")
     /\ UNCHANGED <<db, born, news>>
  \/ at(q, "POST session", "tag") /\ LookUpTag(q)
  \/ at(q, "POST session", "refresh") /\ Refresh(q)
  \/ at(q, "POST session", "refetch") /\ Refetch(q)
  \/ at(q, "POST session", "retry") /\ Refresh(q)
  \/ /\ at(q, "POST session", "refresh") /\ task[q].left = {}
     /\ IF task[q].wrote = {} THEN Works /\ UNCHANGED news ELSE Emit(q, task[q].wrote)
     /\ Answer(q, "success")
     /\ UNCHANGED <<db, born>>
  \/ InsertSession(q)

----------------------------------------------------------------------------
Handle(q) ==
  \/ UpdateMetadata(q) \/ UpdateState(q)
  \/ TerminalUpdateMetadata(q) \/ TerminalUpdateState(q)
  \/ ArtifactUpdate(q) \/ UpdateArtifact(q)
  \/ UpdateSettings(q) \/ MutateKV(q)
  \/ ArtifactCreate(q) \/ CreateArtifact(q) \/ ArtifactDelete(q) \/ DeleteArtifact(q)
  \/ CreateTerminal(q) \/ DeleteTerminal(q)
  \/ CreateSession(q) \/ DeleteSession(q)

Next == \E q \in Requests : Handle(q)

Spec == Init /\ [][Next]_vars

----------------------------------------------------------------------------
Ops == {"update-metadata", "update-state", "terminal-update-metadata", "terminal-update-state",
        "artifact-update", "kv"}

\* The requests that name the versions they replace.  Those for the settings do
\* too, but are not told whether they did: nothing is promised of them.
names(q) == task[q].op \in Ops

Store == INSTANCE VersionedRows WITH
  Rewritten <- Sessions \cup Accounts,
  store <- db,
  asked <- [q \in Requests |-> IF names(q) THEN task[q].exp ELSE None],
  told <- [q \in Requests |->
             IF ~names(q) THEN "waiting"
             ELSE IF told[q] = "success" \/ task[q].pc = "publish" THEN "success"
             ELSE IF told[q] = "waiting" THEN "waiting" ELSE "refused"]

\* The handlers of UpdateState, UpdateMetadata and the like implement the
\* promise made to writers: success means that all fields of the request
\* replaced exactly the versions it named, at one moment.
StoreSpec == Store!Spec

\* A client that keeps the highest version it hears of ends with the row as it
\* is (EmitUpdateToUser after every handler), whatever order the updates come
\* in, provided that every handler got a number for its update and the row was
\* not deleted and made again under the same id.  The settings of an account are
\* published also when nothing was written, so that it is not true of them.
ReplicasConverge ==
  (errors = 0 /\ \A q \in Requests : task[q].pc \in {"idle", "done"}) =>
    \A c \in (Rows \ Accounts) \X Parts :
      LET heard == {w \in UNION {n.cells : n \in news} : w.cell = c}
      IN  live(c[1]) /\ born[c[1]] <= 1 /\ (db[c].val # None \/ db[c].ver > InitialRow(c[1])[c[2]].ver) =>
            /\ [cell |-> c, ver |-> db[c].ver, val |-> db[c].val] \in heard
            /\ \A w \in heard : w.ver < db[c].ver \/ w.val = db[c].val

\* The version of a key never goes back, also not when its value is deleted
\* (MutateKV: "preserves version history").
KeysKeepHistory == [][\A k \in Keys : db'[<<k, "head">>].ver >= db[<<k, "head">>].ver]_vars
=============================================================================
