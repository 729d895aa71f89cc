--------------------------- MODULE ServerRows_proofs ---------------------------
(***************************************************************************)
(* The handlers of ServerRows keep the promise of VersionedRows, and the    *)
(* versions of keys never go back, for any number of rows and of requests   *)
(* whose statements interleave and fail.                                    *)
(***************************************************************************)
EXTENDS ServerRows, TLAPS

----------------------------------------------------------------------------
(* The inductive invariant.                                                *)

Content == [ver : Int, val : Requests \cup {None}]

Expectation == UNION {[D -> Int] : D \in SUBSET Cells}

News == [cell : Cells, ver : Int, val : Requests \cup {None}]

OpNames ==
  Ops \cup {"none", "settings", "artifact-create", "artifact-delete", "POST terminal",
            "DELETE terminal", "POST session", "DELETE session"}

Pcs ==
  {"idle", "terminal", "tag", "read", "write", "reread", "insert", "fetch", "refresh", "refetch",
   "retry", "publish", "again", "done"}

Answers == {"waiting", "success", "mismatch", "error"}

Task ==
  [op : OpNames, pc : Pcs, row : Rows \cup {None}, id : Nat, val : Requests \cup {None},
   exp : Expectation, left : SUBSET Parts, wrote : SUBSET News]

TypeOK ==
  /\ db \in [Cells -> Content]
  /\ born \in [Rows -> Nat]
  /\ task \in [Requests -> Task]
  /\ told \in [Requests -> Answers]

Created == Sessions \cup Terminals \cup Artifacts

\* A row that can be created is there with all its fields, or with none.
Whole(r) ==
  \/ \A p \in Parts : db[<<r, p>>] = absent
  \/ \A p \in Parts : db[<<r, p>>].ver >= 0

Rowed(ops, rows, k) == k.op \in ops => k.row \in rows

\* What a handler relies on: its row is of its table, the versions it names are
\* those of fields that exist (but for keys), what it writes is its own.
HandlerOK(q, k) ==
  /\ k.pc = "idle" => k.op = "none"
  /\ Rowed({"artifact-create", "artifact-delete"}, Artifacts, k)
  /\ Rowed({"POST terminal", "DELETE terminal"}, Terminals, k)
  /\ Rowed({"POST session", "DELETE session"}, Sessions, k)
  /\ k.op \in Ops \cup {"settings", "POST session"} => k.val \in {q, None}
  /\ k.op \in {"settings", "POST session"} => k.val = q
  /\ k.op \in (Ops \cup {"settings"}) \ {"kv"} => \A c \in DOMAIN k.exp : k.exp[c] >= 0
  /\ k.op = "kv" => DOMAIN k.exp \subseteq Keys \X Parts
  /\ k.op = "settings" => \E r \in Accounts : DOMAIN k.exp = {<<r, "head">>}
  /\ k.op = "POST session" /\ k.pc \in {"refresh", "refetch", "retry"} => DOMAIN k.exp = whole(k.row)

\* A request is answered when its handler ends.
Open(q) == task[q].pc # "done" => told[q] = "waiting"

RowsInv ==
  /\ TypeOK
  /\ \A r \in Created : Whole(r)
  /\ \A q \in Requests : HandlerOK(q, task[q]) /\ Open(q)

----------------------------------------------------------------------------
(* What the readers of VersionedRows see of a handler.                     *)

AskedOf(k) == IF k.op \in Ops THEN k.exp ELSE None

VerdictOf(k, a) ==
  IF k.op \notin Ops THEN "waiting"
  ELSE IF a = "success" \/ k.pc = "publish" THEN "success"
  ELSE IF a = "waiting" THEN "waiting" ELSE "refused"

Asked == [q \in Requests |-> AskedOf(task[q])]

Verdict == [q \in Requests |-> VerdictOf(task[q], told[q])]

\* The step leaves the handler of q as k and its answer as a.
Moved(q, k, a) == task' = [task EXCEPT ![q] = k] /\ told' = [told EXCEPT ![q] = a]

KeysKept == \A k \in Keys : db'[<<k, "head">>].ver >= db[<<k, "head">>].ver

Good == RowsInv' /\ [Store!Next]_(Store!vars) /\ KeysKept

LEMMA Bars ==
  ASSUME NEW q \in Requests, NEW k \in Task, NEW a \in Answers, TypeOK, Moved(q, k, a)
  PROVE  /\ Asked' = [Asked EXCEPT ![q] = AskedOf(k)]
         /\ Verdict' = [Verdict EXCEPT ![q] = VerdictOf(k, a)]
BY DEF TypeOK, Moved, Asked, Verdict

\* Readers do not see a step that keeps what a request asked and its verdict.
LEMMA Unseen ==
  ASSUME NEW q \in Requests, NEW k \in Task, NEW a \in Answers, TypeOK, Moved(q, k, a),
         AskedOf(k) = AskedOf(task[q]), VerdictOf(k, a) = VerdictOf(task[q], told[q])
  PROVE  Asked' = Asked /\ Verdict' = Verdict
<1>1. /\ Asked' = [Asked EXCEPT ![q] = AskedOf(k)]
      /\ Verdict' = [Verdict EXCEPT ![q] = VerdictOf(k, a)]
  BY Bars
<1>2. Asked[q] = AskedOf(k) /\ Verdict[q] = VerdictOf(k, a)
  BY DEF Asked, Verdict
<1>3. /\ [Asked EXCEPT ![q] = Asked[q]] = Asked
      /\ [Verdict EXCEPT ![q] = Verdict[q]] = Verdict
  BY DEF Asked, Verdict
<1> QED BY <1>1, <1>2, <1>3

LEMMA StoreVars == (UNCHANGED Store!vars) <=> UNCHANGED <<db, Asked, Verdict>>
BY DEF Store!vars, Asked, Verdict, AskedOf, VerdictOf, names

LEMMA PcType ==
  ASSUME NEW k \in Task, NEW pc \in Pcs
  PROVE  [k EXCEPT !.pc = pc] \in Task
BY DEF Task

LEMMA GoToMoves ==
  ASSUME NEW q \in Requests, NEW pc \in Pcs, TypeOK, GoTo(q, pc)
  PROVE  /\ [task[q] EXCEPT !.pc = pc] \in Task
         /\ Moved(q, [task[q] EXCEPT !.pc = pc], told[q])
BY DEF TypeOK, Task, GoTo, Moved

LEMMA AnswerMoves ==
  ASSUME NEW q \in Requests, NEW a \in Answers, TypeOK, Answer(q, a)
  PROVE  /\ [task[q] EXCEPT !.pc = "done"] \in Task
         /\ Moved(q, [task[q] EXCEPT !.pc = "done"], a)
<1>1. "done" \in Pcs
  BY DEF Pcs
<1>2. [task[q] EXCEPT !.pc = "done"] \in Task
  BY <1>1, PcType DEF TypeOK
<1>3. task' = [task EXCEPT ![q] = [task[q] EXCEPT !.pc = "done"]]
  BY DEF TypeOK, Task, Answer
<1> QED BY <1>2, <1>3 DEF Answer, Moved

\* A handler that goes on in its operation remains one of its kind.
LEMMA PcKept ==
  ASSUME NEW q \in Requests, NEW k \in Task, NEW pc \in Pcs, HandlerOK(q, k),
         pc \notin {"idle", "refresh", "refetch", "retry"}
  PROVE  HandlerOK(q, [k EXCEPT !.pc = pc])
BY DEF HandlerOK, Task, Rowed

LEMMA Kept ==
  ASSUME NEW q \in Requests, NEW k \in Task, NEW a \in Answers, RowsInv, Moved(q, k, a),
         HandlerOK(q, k), k.pc # "done" => a = "waiting",
         db' \in [Cells -> Content], born' \in [Rows -> Nat], \A r \in Created : Whole(r)'
  PROVE  RowsInv'
<1>1. TypeOK'
  BY DEF RowsInv, TypeOK, Moved
<1>2. \A p \in Requests : HandlerOK(p, task[p])'
  <2> TAKE p \in Requests
  <2>1. CASE p = q
    BY <2>1 DEF RowsInv, TypeOK, Moved, HandlerOK
  <2>2. CASE p # q
    <3>1. task'[p] = task[p]
      BY <2>2 DEF RowsInv, TypeOK, Moved
    <3> QED BY <3>1 DEF RowsInv, HandlerOK
  <2> QED BY <2>1, <2>2
<1>3. \A p \in Requests : Open(p)'
  BY DEF RowsInv, TypeOK, Moved, Open
<1> QED BY <1>1, <1>2, <1>3 DEF RowsInv

\* A step that changes no field and nothing that its readers see.
LEMMA Stutters ==
  ASSUME NEW q \in Requests, NEW k \in Task, NEW a \in Answers, RowsInv, Moved(q, k, a),
         HandlerOK(q, k), k.pc # "done" => a = "waiting",
         UNCHANGED <<db, born>>,
         AskedOf(k) = AskedOf(task[q]), VerdictOf(k, a) = VerdictOf(task[q], told[q])
  PROVE  Good
<1>1. RowsInv'
  <2>1. \A r \in Created : Whole(r)'
    BY DEF RowsInv, Whole, absent, content
  <2> QED BY <2>1, Kept DEF RowsInv, TypeOK
<1>2. Asked' = Asked /\ Verdict' = Verdict
  BY Unseen DEF RowsInv
<1>3. UNCHANGED Store!vars
  BY <1>2, StoreVars
<1>4. KeysKept
  BY DEF KeysKept, RowsInv, TypeOK, Content, Cells, Rows, Parts
<1> QED BY <1>1, <1>3, <1>4 DEF Good

----------------------------------------------------------------------------
(* The shapes of the steps.                                                *)

LEMMA Advances ==
  ASSUME NEW q \in Requests, NEW pc \in Pcs, RowsInv, GoTo(q, pc), UNCHANGED <<db, born>>,
         pc \notin {"idle", "refresh", "refetch", "retry", "done"},
         task[q].pc # "done",
         names(q) => pc # "publish" /\ task[q].pc # "publish"
  PROVE  Good
<1> DEFINE k == [task[q] EXCEPT !.pc = pc]
<1>1. k \in Task /\ Moved(q, k, told[q])
  BY GoToMoves DEF RowsInv
<1>2. HandlerOK(q, k)
  BY PcKept DEF RowsInv, TypeOK
<1>3. k.pc = pc /\ k.op = task[q].op /\ k.exp = task[q].exp
  BY DEF RowsInv, TypeOK, Task
<1>4. told[q] = "waiting" /\ told[q] \in Answers
  BY DEF RowsInv, Open, TypeOK
<1>5. AskedOf(k) = AskedOf(task[q]) /\ VerdictOf(k, told[q]) = VerdictOf(task[q], told[q])
  BY <1>3 DEF AskedOf, VerdictOf, names
<1> HIDE DEF k
<1> QED BY <1>1, <1>2, <1>3, <1>4, <1>5, Stutters

\* A refusal, or an answer to a request that names no versions.
LEMMA Refuses ==
  ASSUME NEW q \in Requests, NEW a \in {"mismatch", "error"}, RowsInv, Answer(q, a),
         UNCHANGED <<db, born>>, task[q].pc \notin {"idle", "publish", "done"}
  PROVE  Good
<1> DEFINE k == [task[q] EXCEPT !.pc = "done"]
<1>0. a \in Answers /\ "done" \in Pcs
  BY DEF Answers, Pcs
<1>1. k \in Task /\ Moved(q, k, a)
  BY <1>0, AnswerMoves DEF RowsInv
<1>2. HandlerOK(q, k)
  BY <1>0, PcKept DEF RowsInv, TypeOK
<1>3. k.pc = "done" /\ k.op = task[q].op /\ k.exp = task[q].exp
  BY DEF RowsInv, TypeOK, Task
<1>4. told[q] = "waiting"
  BY DEF RowsInv, Open
<1> HIDE DEF k
<1>5. CASE ~names(q)
  <2>1. AskedOf(k) = AskedOf(task[q]) /\ VerdictOf(k, a) = VerdictOf(task[q], told[q])
    BY <1>3, <1>5 DEF AskedOf, VerdictOf, names
  <2> QED BY <1>0, <1>1, <1>2, <1>3, <2>1, Stutters
<1>6. CASE names(q)
  <2>1. RowsInv'
    <3>1. \A r \in Created : Whole(r)'
      BY DEF RowsInv, Whole, absent, content
    <3> QED BY <1>0, <1>1, <1>2, <1>3, <3>1, Kept DEF RowsInv, TypeOK
  <2>2. KeysKept
    BY DEF KeysKept, RowsInv, TypeOK, Content, Cells, Rows, Parts
  <2>3. Asked' = Asked /\ Asked[q] # None
    <3>1. Asked' = [Asked EXCEPT ![q] = AskedOf(k)]
      BY <1>0, <1>1, Bars DEF RowsInv
    <3>2. AskedOf(k) = Asked[q] /\ [Asked EXCEPT ![q] = Asked[q]] = Asked
      BY <1>3 DEF Asked, AskedOf
    <3>3. AskedOf(task[q]) \in Expectation
      BY <1>6 DEF AskedOf, names, RowsInv, TypeOK, Task
    <3> QED BY <3>1, <3>2, <3>3, RowsOK DEF Asked, Expectation
  <2>4. Verdict' = [Verdict EXCEPT ![q] = "refused"] /\ Verdict[q] = "waiting"
    <3>1. Verdict' = [Verdict EXCEPT ![q] = VerdictOf(k, a)]
      BY <1>0, <1>1, Bars DEF RowsInv
    <3>2. VerdictOf(k, a) = "refused"
      BY <1>3, <1>6 DEF VerdictOf, names
    <3>3. VerdictOf(task[q], told[q]) = "waiting"
      BY <1>4, <1>6 DEF VerdictOf, names
    <3> QED BY <3>1, <3>2, <3>3 DEF Verdict
  <2>5. Store!Refuse(q)
    BY <2>3, <2>4 DEF Store!Refuse, Asked, Verdict, AskedOf, VerdictOf, names
  <2> QED BY <2>1, <2>2, <2>5 DEF Good, Store!Next
<1> QED BY <1>5, <1>6

\* An answer that the request was granted, which the write itself showed.
LEMMA Confirms ==
  ASSUME NEW q \in Requests, RowsInv, Answer(q, "success"), UNCHANGED <<db, born>>,
         task[q].pc \notin {"idle", "done"}, names(q) => task[q].pc = "publish"
  PROVE  Good
<1> DEFINE k == [task[q] EXCEPT !.pc = "done"]
<1>0. "success" \in Answers /\ "done" \in Pcs
  BY DEF Answers, Pcs
<1>1. k \in Task /\ Moved(q, k, "success")
  BY <1>0, AnswerMoves DEF RowsInv
<1>2. HandlerOK(q, k)
  BY <1>0, PcKept DEF RowsInv, TypeOK
<1>3. k.pc = "done" /\ k.op = task[q].op /\ k.exp = task[q].exp
  BY DEF RowsInv, TypeOK, Task
<1> HIDE DEF k
<1>4. AskedOf(k) = AskedOf(task[q]) /\ VerdictOf(k, "success") = VerdictOf(task[q], told[q])
  BY <1>3 DEF AskedOf, VerdictOf, names
<1> QED BY <1>0, <1>1, <1>2, <1>3, <1>4, Stutters

\* A request arrives: if it names versions, the store is asked.
LEMMA Begins ==
  ASSUME NEW q \in Requests, NEW op \in OpNames, NEW pc \in Pcs, NEW r \in Rows \cup {None},
         NEW exp \in Expectation, NEW val \in Requests \cup {None}, RowsInv,
         Begin(q, op, pc, r, exp, val), pc \notin {"idle", "publish", "done"},
         HandlerOK(q, [op |-> op, pc |-> pc, row |-> r, id |-> id(r), val |-> val, exp |-> exp,
                       left |-> {}, wrote |-> {}])
  PROVE  Good
<1> DEFINE k == [op |-> op, pc |-> pc, row |-> r, id |-> id(r), val |-> val, exp |-> exp,
                 left |-> {}, wrote |-> {}]
<1>1. k \in Task
  <2>1. id(r) \in Nat
    BY DEF id, RowsInv, TypeOK, Rows
  <2> QED BY <2>1 DEF Task
<1>2. Moved(q, k, told[q]) /\ UNCHANGED <<db, born>> /\ task[q].pc = "idle"
  <2>1. told' = [told EXCEPT ![q] = told[q]]
    BY DEF Begin, RowsInv, TypeOK
  <2> QED BY <2>1 DEF Moved, Begin
<1>3. task[q].op = "none" /\ told[q] = "waiting" /\ told[q] \in Answers
  BY <1>2 DEF RowsInv, HandlerOK, Open, TypeOK
<1>4. ~names(q) /\ AskedOf(task[q]) = None /\ VerdictOf(task[q], told[q]) = "waiting"
  BY <1>3 DEF names, AskedOf, VerdictOf, Ops
<1>5. k.op = op /\ k.pc = pc /\ k.exp = exp /\ HandlerOK(q, k)
  OBVIOUS
<1> HIDE DEF k
<1>6. VerdictOf(k, told[q]) = VerdictOf(task[q], told[q])
  BY <1>3, <1>4, <1>5 DEF VerdictOf
<1>7. CASE op \notin Ops
  <2>1. AskedOf(k) = None
    BY <1>5, <1>7 DEF AskedOf
  <2> QED BY <1>1, <1>2, <1>3, <1>4, <1>5, <1>6, <2>1, Stutters
<1>8. CASE op \in Ops
  <2>1. RowsInv'
    <3>1. \A s \in Created : Whole(s)'
      BY <1>2 DEF RowsInv, Whole, absent, content
    <3> QED BY <1>1, <1>2, <1>3, <1>5, <3>1, Kept DEF RowsInv, TypeOK
  <2>2. KeysKept
    BY <1>2 DEF KeysKept, RowsInv, TypeOK, Content, Cells, Rows, Parts
  <2>3. /\ Asked[q] = None
        /\ \A other \in Requests \ {q} : Asked'[other] = Asked[other]
    <3>1. Asked' = [Asked EXCEPT ![q] = AskedOf(k)]
      BY <1>1, <1>2, <1>3, Bars DEF RowsInv
    <3> QED BY <1>4, <3>1 DEF Asked
  <2>4. Verdict' = Verdict
    <3>1. Verdict' = [Verdict EXCEPT ![q] = VerdictOf(k, told[q])]
      BY <1>1, <1>2, <1>3, Bars DEF RowsInv
    <3>2. [Verdict EXCEPT ![q] = Verdict[q]] = Verdict /\ Verdict[q] = VerdictOf(task[q], told[q])
      BY DEF Verdict
    <3> QED BY <1>6, <3>1, <3>2
  <2>5. Store!Ask(q)
    BY <1>2, <2>3, <2>4 DEF Store!Ask, Asked, Verdict, AskedOf, VerdictOf, names
  <2> QED BY <2>1, <2>2, <2>5 DEF Good, Store!Next
<1> QED BY <1>7, <1>8

----------------------------------------------------------------------------
(* The statements that change rows.                                        *)

LEMMA CreatedApart ==
  /\ Created \subseteq Rows /\ Created \cap (Accounts \cup Keys) = {}
  /\ (Sessions \cup Accounts) \cap Keys = {}
BY RowsOK DEF Created, Rows

LEMMA CellPair == \A c \in Cells : c = <<c[1], c[2]>> /\ c[1] \in Rows /\ c[2] \in Parts
BY DEF Cells

LEMMA ContentIs ==
  ASSUME NEW ver \in Int, NEW val \in Requests \cup {None}
  PROVE  /\ content(ver, val) \in Content
         /\ content(ver, val).ver = ver /\ content(ver, val).val = val
BY DEF content, Content

LEMMA WriteIs ==
  ASSUME NEW q \in Requests, NEW cs, TypeOK, Write(q, cs), cs \subseteq DOMAIN task[q].exp
  PROVE  /\ db' \in [Cells -> Content]
         /\ \A c \in cs : /\ c \in Cells
                         /\ db'[c].ver = task[q].exp[c] + 1
                         /\ db'[c].val = task[q].val
         /\ \A c \in Cells \ cs : db'[c] = db[c]
<1>1. task[q].exp \in Expectation /\ task[q].val \in Requests \cup {None}
  BY DEF TypeOK, Task
<1>2. \A c \in cs : c \in Cells /\ task[q].exp[c] \in Int
  BY <1>1 DEF Expectation
<1>3. \A c \in cs : db'[c] = content(task[q].exp[c] + 1, task[q].val)
  BY <1>2 DEF Write
<1>4. \A c \in Cells \ cs : db'[c] = db[c]
  BY DEF Write
<1>5. \A c \in cs : /\ db'[c] \in Content
                   /\ db'[c].ver = task[q].exp[c] + 1 /\ db'[c].val = task[q].val
  <2> TAKE c \in cs
  <2>1. task[q].exp[c] + 1 \in Int
    BY <1>2
  <2> QED BY <1>1, <1>3, <2>1, ContentIs
<1>6. \A c \in Cells : db'[c] \in Content
  BY <1>4, <1>5 DEF TypeOK
<1>7. db' \in [Cells -> Content]
  <2>1. db' = [c \in Cells |-> db'[c]]
    BY DEF Write
  <2> QED BY <1>6, <2>1
<1> QED BY <1>2, <1>4, <1>5, <1>7

LEMMA CellType == TypeOK => \A c \in Cells : db[c].ver \in Int /\ db[c].val \in Requests \cup {None}
BY DEF TypeOK, Content

\* All fields of the request take the next version at once.
LEMMA Succeeds ==
  ASSUME NEW q \in Requests, RowsInv, names(q), task[q].pc \notin {"idle", "publish", "done"},
         Matches(q), Write(q, DOMAIN task[q].exp), GoTo(q, "publish"), born' = born
  PROVE  Good
<1> DEFINE k == [task[q] EXCEPT !.pc = "publish"]
           cs == DOMAIN task[q].exp
<1>0. "publish" \in Pcs
  BY DEF Pcs
<1>1. k \in Task /\ Moved(q, k, told[q])
  BY <1>0, GoToMoves DEF RowsInv
<1>2. HandlerOK(q, k) /\ HandlerOK(q, task[q])
  BY <1>0, PcKept DEF RowsInv, TypeOK
<1>3. k.pc = "publish" /\ k.op = task[q].op /\ k.exp = task[q].exp
  BY DEF RowsInv, TypeOK, Task
<1>4. told[q] = "waiting" /\ told[q] \in Answers
  BY DEF RowsInv, Open, TypeOK
<1>5. task[q] \in Task /\ task[q].op \in Ops
  BY DEF RowsInv, TypeOK, names
<1>6. cs \subseteq Cells /\ task[q].exp \in [cs -> Int] /\ task[q].exp \in Expectation
  BY <1>5 DEF Task, Expectation
<1>7. task[q].val \in {q, None}
  BY <1>2, <1>5 DEF HandlerOK
<1>8. /\ \A c \in cs : /\ db[c].ver \in Int /\ db[c].ver = task[q].exp[c]
                      /\ db'[c].ver = db[c].ver + 1 /\ db'[c].val = task[q].val
      /\ \A c \in Cells \ cs : db'[c] = db[c]
  <2>1. \A c \in cs : db[c].ver = task[q].exp[c]
    BY DEF Matches
  <2> QED BY <1>6, <2>1, WriteIs, CellType DEF RowsInv
<1>9. db' \in [Cells -> Content]
  BY WriteIs DEF RowsInv
<1> HIDE DEF k, cs
<1>10. \A r \in Created : Whole(r)'
  <2> TAKE r \in Created
  <2>1. CASE \A p \in Parts : <<r, p>> \notin cs
    <3>1. \A p \in Parts : db'[<<r, p>>] = db[<<r, p>>]
      BY <1>8, <2>1, CreatedApart DEF Cells
    <3> QED BY <3>1 DEF RowsInv, Whole, absent, content
  <2>2. CASE \E p \in Parts : <<r, p>> \in cs
    <3>1. PICK p \in Parts : <<r, p>> \in cs
      BY <2>2
    <3>2. task[q].op # "kv"
      <4>1. task[q].op = "kv" => cs \subseteq Keys \X Parts
        BY <1>2 DEF HandlerOK, cs
      <4> QED BY <3>1, <4>1, CreatedApart
    <3>3. \A c \in cs : task[q].exp[c] >= 0
      BY <1>2, <1>5, <3>2 DEF HandlerOK, cs
    <3>4. db[<<r, p>>].ver >= 0
      BY <1>6, <1>8, <3>1, <3>3
    <3>5. \A o \in Parts : db[<<r, o>>].ver >= 0
      BY <3>4 DEF RowsInv, Whole, absent, content
    <3>6. \A o \in Parts : db'[<<r, o>>].ver >= 0
      <4> TAKE o \in Parts
      <4>1. <<r, o>> \in Cells
        BY CreatedApart DEF Cells
      <4> QED BY <1>8, <3>5, <4>1
    <3> QED BY <3>6 DEF Whole
  <2> QED BY <2>1, <2>2
<1>11. RowsInv'
  BY <1>1, <1>2, <1>3, <1>4, <1>9, <1>10, Kept DEF RowsInv, TypeOK
<1>12. KeysKept
  <2> SUFFICES ASSUME NEW r \in Keys PROVE db'[<<r, "head">>].ver >= db[<<r, "head">>].ver
    BY DEF KeysKept
  <2>1. <<r, "head">> \in Cells
    BY DEF Cells, Rows, Parts
  <2>2. db[<<r, "head">>].ver \in Int
    BY <2>1, CellType DEF RowsInv
  <2> QED BY <1>8, <2>1, <2>2
<1>13. Asked' = Asked /\ Asked[q] = task[q].exp
  <2>1. Asked' = [Asked EXCEPT ![q] = AskedOf(k)]
    BY <1>1, <1>4, Bars DEF RowsInv
  <2>2. AskedOf(k) = Asked[q] /\ [Asked EXCEPT ![q] = Asked[q]] = Asked
    BY <1>3 DEF Asked, AskedOf
  <2>3. Asked[q] = task[q].exp
    BY <1>5 DEF Asked, AskedOf
  <2> QED BY <2>1, <2>2, <2>3
<1>14. task[q].exp # None
  BY <1>6, RowsOK
<1>15. Verdict' = [Verdict EXCEPT ![q] = "success"] /\ Verdict[q] = "waiting"
  <2>1. Verdict' = [Verdict EXCEPT ![q] = VerdictOf(k, told[q])]
    BY <1>1, <1>4, Bars DEF RowsInv
  <2>2. VerdictOf(k, told[q]) = "success" /\ VerdictOf(task[q], told[q]) = "waiting"
    BY <1>3, <1>4, <1>5 DEF VerdictOf
  <2> QED BY <2>1, <2>2 DEF Verdict
<1>16. \A c \in Cells :
         IF c \in DOMAIN Asked[q]
           THEN /\ db'[c].ver = db[c].ver + 1
                /\ db'[c].val \in {q, None}
           ELSE db'[c] = db[c]
  BY <1>7, <1>8, <1>13 DEF cs
<1>17. \A c \in DOMAIN Asked[q] : db[c].ver = Asked[q][c]
  BY <1>13 DEF Matches
<1>18. Store!Succeed(q)
  BY <1>13, <1>14, <1>15, <1>16, <1>17
  DEF Store!Succeed, Store!Cells, Cells, Asked, Verdict, AskedOf, VerdictOf, names
<1> QED BY <1>11, <1>12, <1>18 DEF Good, Store!Next

\* Of a request that names no versions, readers see nothing but the rows.
LEMMA Unnamed ==
  ASSUME NEW q \in Requests, NEW k \in Task, NEW a \in Answers, RowsInv, Moved(q, k, a),
         ~names(q), k.op = task[q].op
  PROVE  Asked' = Asked /\ Verdict' = Verdict
<1>1. AskedOf(k) = AskedOf(task[q]) /\ VerdictOf(k, a) = VerdictOf(task[q], told[q])
  BY DEF AskedOf, VerdictOf, names
<1> QED BY <1>1, Unseen DEF RowsInv

\* The server rewrites a field that is there.
LEMMA Rewrites ==
  ASSUME NEW q \in Requests, NEW k \in Task, NEW a \in Answers, NEW c \in Cells, RowsInv,
         Moved(q, k, a), HandlerOK(q, k), k.pc # "done" => a = "waiting",
         ~names(q), k.op = task[q].op, born' = born,
         c[1] \in Sessions \cup Accounts, c \in DOMAIN task[q].exp, task[q].val = q,
         db[c].ver >= 0, db[c].ver = task[q].exp[c], Write(q, {c})
  PROVE  Good
<1>1. /\ db' \in [Cells -> Content]
      /\ db[c].ver \in Int /\ db'[c].ver = db[c].ver + 1 /\ db'[c].val = q
      /\ \A d \in Cells \ {c} : db'[d] = db[d]
  <2>1. {c} \subseteq DOMAIN task[q].exp
    OBVIOUS
  <2> QED BY <2>1, WriteIs, CellType DEF RowsInv
<1>2. \A r \in Created : Whole(r)'
  <2> TAKE r \in Created
  <2>1. CASE c[1] # r
    <3>1. \A p \in Parts : db'[<<r, p>>] = db[<<r, p>>]
      BY <1>1, <2>1, CreatedApart DEF Cells
    <3> QED BY <3>1 DEF RowsInv, Whole, absent, content
  <2>2. CASE c[1] = r
    <3>1. \A p \in Parts : <<r, p>> \in Cells /\ db[<<r, p>>].ver >= 0
      <4>1. c = <<r, c[2]>> /\ c[2] \in Parts
        BY <2>2, CellPair
      <4> QED BY <4>1, CreatedApart DEF RowsInv, Whole, absent, content, Cells
    <3>2. \A p \in Parts : db'[<<r, p>>].ver >= 0
      BY <1>1, <3>1
    <3> QED BY <3>2 DEF Whole
  <2> QED BY <2>1, <2>2
<1>3. RowsInv'
  BY <1>1, <1>2, Kept DEF RowsInv, TypeOK
<1>4. KeysKept
  <2> SUFFICES ASSUME NEW r \in Keys PROVE db'[<<r, "head">>].ver >= db[<<r, "head">>].ver
    BY DEF KeysKept
  <2>1. <<r, "head">> \in Cells \ {c}
    BY CreatedApart DEF Cells, Rows, Parts
  <2> QED BY <1>1, <2>1, CellType DEF RowsInv
<1>5. Asked' = Asked /\ Verdict' = Verdict
  BY Unnamed
<1>6. db' = [db EXCEPT ![c] = [ver |-> db[c].ver + 1, val |-> q]]
  <2>1. db'[c] = [ver |-> db[c].ver + 1, val |-> q]
    <3>1. db'[c] \in Content
      BY <1>1
    <3>2. db'[c] = [ver |-> db'[c].ver, val |-> db'[c].val]
      BY <3>1 DEF Content
    <3> QED BY <1>1, <3>2
  <2> QED BY <1>1, <2>1 DEF RowsInv, TypeOK
<1>7. db[c] # [ver |-> -1, val |-> None]
  BY <1>1
<1>8. Store!Rewrite(c, q)
  BY <1>5, <1>6, <1>7 DEF Store!Rewrite, Store!Absent, Asked, Verdict, AskedOf, VerdictOf, names
<1>9. c \in Store!Cells
  BY DEF Store!Cells, Cells
<1> QED BY <1>3, <1>4, <1>8, <1>9 DEF Good, Store!Next

\* A row appears with all its fields.
LEMMA Inserts ==
  ASSUME NEW q \in Requests, NEW k \in Task, NEW a \in Answers, NEW r \in Created, NEW row, RowsInv,
         Moved(q, k, a), HandlerOK(q, k), k.pc # "done" => a = "waiting",
         ~names(q), k.op = task[q].op, ~live(r), Insert(r, row),
         \A p \in Parts : \E v \in {0, 1}, w \in {q, None} : row[p] = content(v, w)
  PROVE  Good
<1>1. \A p \in Parts : /\ row[p] \in Content
                       /\ row[p].ver \in {0, 1} /\ row[p].val \in {q, None}
  <2> TAKE p \in Parts
  <2>1. PICK v \in {0, 1}, w \in {q, None} : row[p] = content(v, w)
    OBVIOUS
  <2> QED BY <2>1, ContentIs
<1>2. /\ \A p \in Parts : <<r, p>> \in Cells /\ db'[<<r, p>>] = row[p]
      /\ \A c \in Cells : c[1] = r => c[2] \in Parts /\ db'[c] = row[c[2]]
      /\ \A c \in Cells : c[1] # r => db'[c] = db[c]
  BY CreatedApart, CellPair DEF Insert, Cells
<1>3. db' \in [Cells -> Content]
  <2>1. \A c \in Cells : db'[c] \in Content
    BY <1>1, <1>2 DEF RowsInv, TypeOK
  <2>2. db' = [c \in Cells |-> db'[c]]
    BY DEF Insert
  <2> QED BY <2>1, <2>2
<1>4. \A s \in Created : Whole(s)'
  <2> TAKE s \in Created
  <2>1. CASE s = r
    <3>1. \A p \in Parts : db'[<<s, p>>].ver >= 0
      BY <1>1, <1>2, <2>1
    <3> QED BY <3>1 DEF Whole
  <2>2. CASE s # r
    <3>1. \A p \in Parts : db'[<<s, p>>] = db[<<s, p>>]
      BY <1>2, <2>2, CreatedApart DEF Cells
    <3> QED BY <3>1 DEF RowsInv, Whole, absent, content
  <2> QED BY <2>1, <2>2
<1>5. born' \in [Rows -> Nat]
  BY CreatedApart DEF Insert, RowsInv, TypeOK
<1>6. RowsInv'
  BY <1>3, <1>4, <1>5, Kept
<1>7. KeysKept
  <2> SUFFICES ASSUME NEW s \in Keys PROVE db'[<<s, "head">>].ver >= db[<<s, "head">>].ver
    BY DEF KeysKept
  <2>1. <<s, "head">> \in Cells /\ s # r
    BY CreatedApart DEF Cells, Rows, Parts
  <2> QED BY <1>2, <2>1, CellType DEF RowsInv
<1>8. Asked' = Asked /\ Verdict' = Verdict
  BY Unnamed
<1>9. \A p \in Parts : db[<<r, p>>] = [ver |-> -1, val |-> None]
  <2>1. ~(db[<<r, "head">>].ver >= 0) /\ "head" \in Parts
    BY DEF live, Parts
  <2> QED BY <2>1 DEF RowsInv, Whole, absent, content
<1>10. Store!Create(r, q)
  BY <1>1, <1>2, <1>8, <1>9
  DEF Store!Create, Store!Absent, Store!Cells, Cells, Asked, Verdict, AskedOf, VerdictOf, names
<1> QED BY <1>6, <1>7, <1>10, CreatedApart DEF Good, Store!Next

\* Rows disappear with all their fields.
LEMMA Deletes ==
  ASSUME NEW q \in Requests, NEW k \in Task, NEW a \in Answers, NEW rs \in SUBSET Created, RowsInv,
         Moved(q, k, a), HandlerOK(q, k), k.pc # "done" => a = "waiting",
         ~names(q), k.op = task[q].op, Delete(rs), born' = born
  PROVE  Good
<1>1. \A c \in Cells : /\ c[1] \in rs => db'[c] = absent
                       /\ c[1] \notin rs => db'[c] = db[c]
  BY DEF Delete
<1>2. db' \in [Cells -> Content]
  <2>1. absent \in Content
    BY ContentIs DEF absent
  <2>2. \A c \in Cells : db'[c] \in Content
    BY <1>1, <2>1 DEF RowsInv, TypeOK
  <2>3. db' = [c \in Cells |-> db'[c]]
    BY DEF Delete
  <2> QED BY <2>2, <2>3
<1>3. \A s \in Created : Whole(s)'
  <2> TAKE s \in Created
  <2>1. \A p \in Parts : <<s, p>> \in Cells
    BY CreatedApart DEF Cells
  <2>2. CASE s \in rs
    BY <1>1, <2>1, <2>2 DEF Whole, absent, content
  <2>3. CASE s \notin rs
    <3>1. \A p \in Parts : db'[<<s, p>>] = db[<<s, p>>]
      BY <1>1, <2>1, <2>3
    <3> QED BY <3>1 DEF RowsInv, Whole, absent, content
  <2> QED BY <2>2, <2>3
<1>4. RowsInv'
  BY <1>2, <1>3, Kept DEF RowsInv, TypeOK
<1>5. KeysKept
  <2> SUFFICES ASSUME NEW s \in Keys PROVE db'[<<s, "head">>].ver >= db[<<s, "head">>].ver
    BY DEF KeysKept
  <2>1. <<s, "head">> \in Cells /\ s \notin rs
    BY CreatedApart DEF Cells, Rows, Parts
  <2> QED BY <1>1, <2>1, CellType DEF RowsInv
<1>6. Asked' = Asked /\ Verdict' = Verdict
  BY Unnamed
<1>7. Store!Remove
  BY <1>1, <1>6
  DEF Store!Remove, Store!Absent, Store!Cells, Cells, absent, content,
      Asked, Verdict, AskedOf, VerdictOf, names
<1> QED BY <1>4, <1>5, <1>7 DEF Good, Store!Next

----------------------------------------------------------------------------
(* The handlers that write the fields of a row.                            *)

LEMMA PcNames == Pcs = {"idle", "terminal", "tag", "read", "write", "reread", "insert", "fetch",
                        "refresh", "refetch", "retry", "publish", "again", "done"}
BY DEF Pcs

LEMMA ReadKept ==
  ASSUME NEW q \in Requests, NEW early, RowsInv, task[q].pc = "read", Read(q, early)
  PROVE  Good
<1>1. CASE GoTo(q, "write") /\ UNCHANGED <<db, born>>
  BY <1>1, PcNames, Advances
<1>2. CASE (Answer(q, "mismatch") \/ Answer(q, "error")) /\ UNCHANGED <<db, born>>
  BY <1>2, Refuses
<1> QED BY <1>1, <1>2 DEF Read

LEMMA CompareAndWriteKept ==
  ASSUME NEW q \in Requests, RowsInv, task[q].pc = "write", names(q), CompareAndWrite(q)
  PROVE  Good
<1>1. CASE Matches(q) /\ Write(q, DOMAIN task[q].exp) /\ GoTo(q, "publish") /\ born' = born
  BY <1>1, Succeeds
<1>2. CASE GoTo(q, "reread") /\ UNCHANGED <<db, born>>
  BY <1>2, PcNames, Advances
<1> QED BY <1>1, <1>2 DEF CompareAndWrite

LEMMA RereadKept ==
  ASSUME NEW q \in Requests, RowsInv, task[q].pc = "reread", Reread(q)
  PROVE  Good
<1>1. (Answer(q, "mismatch") \/ Answer(q, "error")) /\ UNCHANGED <<db, born>>
  BY DEF Reread
<1> QED BY <1>1, Refuses

LEMMA PublishKept ==
  ASSUME NEW q \in Requests, RowsInv, task[q].pc = "publish", Publish(q)
  PROVE  Good
BY Confirms DEF Publish

LEMMA ExpectationIs ==
  ASSUME NEW cs \in SUBSET Cells, NEW vs \in SUBSET Int, NEW exp \in [cs -> vs]
  PROVE  exp \in Expectation /\ DOMAIN exp = cs /\ \A c \in cs : exp[c] \in vs
<1>1. exp \in [cs -> Int]
  OBVIOUS
<1> QED BY <1>1 DEF Expectation

\* The expectation of a request that has none.
LEMMA NoExpectation == <<>> \in Expectation /\ DOMAIN <<>> = {}
<1>1. <<>> \in [{} -> Int]
  OBVIOUS
<1> QED BY <1>1 DEF Expectation

LEMMA UpdateKept ==
  ASSUME NEW q \in Requests, NEW op \in Ops \ {"kv"}, NEW rows \in SUBSET Rows,
         NEW fields \in SUBSET SUBSET Parts, NEW early, RowsInv, Update(q, op, rows, fields, early)
  PROVE  Good
<1>1. ASSUME NEW r \in rows, NEW ps \in fields, NEW exp \in [{r} \X ps -> Versions],
             Begin(q, op, "read", r, exp, q)
      PROVE  Good
  <2>1. {r} \X ps \in SUBSET Cells /\ Versions \in SUBSET Int
    BY RowsOK DEF Cells
  <2>2. exp \in Expectation /\ \A c \in DOMAIN exp : exp[c] >= 0
    BY <2>1, ExpectationIs, RowsOK
  <2>3. HandlerOK(q, [op |-> op, pc |-> "read", row |-> r, id |-> id(r), val |-> q, exp |-> exp,
                      left |-> {}, wrote |-> {}])
    BY <2>2 DEF HandlerOK, Rowed, Ops
  <2> QED BY <1>1, <2>2, <2>3, PcNames, Begins DEF OpNames
<1>2. CASE at(q, op, "read") /\ Read(q, early)
  BY <1>2, ReadKept DEF at
<1>3. CASE at(q, op, "write") /\ CompareAndWrite(q)
  BY <1>3, CompareAndWriteKept DEF at, names
<1>4. CASE at(q, op, "reread") /\ Reread(q)
  BY <1>4, RereadKept DEF at
<1>5. CASE at(q, op, "publish") /\ Publish(q)
  BY <1>5, PublishKept DEF at
<1> QED BY <1>1, <1>2, <1>3, <1>4, <1>5 DEF Update

\* The settings: the same statement, whose result is not looked at.
LEMMA SettingsKept ==
  ASSUME NEW q \in Requests, RowsInv, UpdateSettings(q)
  PROVE  Good
<1>1. ASSUME NEW r \in Accounts, NEW exp \in [{<<r, "head">>} -> Versions],
             Begin(q, "settings", "write", r, exp, q)
      PROVE  Good
  <2>1. {<<r, "head">>} \in SUBSET Cells /\ Versions \in SUBSET Int
    BY RowsOK DEF Cells, Rows, Parts
  <2>2. exp \in Expectation /\ DOMAIN exp = {<<r, "head">>} /\ \A c \in DOMAIN exp : exp[c] >= 0
    <3> DEFINE cs == {<<r, "head">>}
    <3>1. exp \in [cs -> Versions] /\ cs \in SUBSET Cells
      BY <2>1
    <3> HIDE DEF cs
    <3>2. exp \in Expectation /\ DOMAIN exp = cs /\ \A c \in cs : exp[c] \in Versions
      BY <2>1, <3>1, ExpectationIs
    <3>3. \A v \in Versions : v >= 0
      BY RowsOK
    <3>4. \A c \in DOMAIN exp : exp[c] >= 0
      BY <3>2, <3>3, Zenon
    <3> QED BY <3>2, <3>4 DEF cs
  <2>3. HandlerOK(q, [op |-> "settings", pc |-> "write", row |-> r, id |-> id(r), val |-> q,
                      exp |-> exp, left |-> {}, wrote |-> {}])
    BY <2>2 DEF HandlerOK, Rowed, Ops
  <2> QED BY <1>1, <2>2, <2>3, PcNames, Begins DEF OpNames, Rows
<1>2. ASSUME at(q, "settings", "write"), Matches(q), Write(q, DOMAIN task[q].exp),
             GoTo(q, "publish"), born' = born
      PROVE  Good
  <2> DEFINE k == [task[q] EXCEPT !.pc = "publish"]
  <2>1. k \in Task /\ Moved(q, k, told[q])
    BY <1>2, PcNames, GoToMoves DEF RowsInv
  <2>2. HandlerOK(q, k) /\ HandlerOK(q, task[q])
    BY PcNames, PcKept DEF RowsInv, TypeOK
  <2>3. k.pc = "publish" /\ k.op = "settings" /\ task[q].op = "settings" /\ ~names(q)
    BY <1>2 DEF at, RowsInv, TypeOK, Task, names, Ops
  <2>4. told[q] = "waiting" /\ told[q] \in Answers
    BY <1>2 DEF at, RowsInv, Open, TypeOK
  <2> HIDE DEF k
  <2>5. PICK r \in Accounts : DOMAIN task[q].exp = {<<r, "head">>}
    BY <2>2, <2>3 DEF HandlerOK
  <2>6. <<r, "head">> \in Cells /\ task[q].val = q
    BY <2>2, <2>3 DEF HandlerOK, Cells, Rows, Parts
  <2>7. db[<<r, "head">>].ver = task[q].exp[<<r, "head">>] /\ db[<<r, "head">>].ver >= 0
    BY <1>2, <2>2, <2>3, <2>5 DEF HandlerOK, Matches, Ops
  <2>8. Write(q, {<<r, "head">>}) /\ <<r, "head">> \in DOMAIN task[q].exp
    BY <1>2, <2>5
  <2>9. <<r, "head">>[1] \in Sessions \cup Accounts
    OBVIOUS
  <2> QED BY <1>2, <2>1, <2>2, <2>3, <2>4, <2>6, <2>7, <2>8, <2>9, Rewrites
<1>3. ASSUME at(q, "settings", "write"), UNCHANGED <<db, born>>,
             GoTo(q, "publish") \/ GoTo(q, "reread")
      PROVE  Good
  <2>1. task[q].pc = "write" /\ ~names(q)
    BY <1>3 DEF at, names, Ops
  <2> QED BY <1>3, <2>1, PcNames, Advances
<1>4. CASE at(q, "settings", "reread") /\ Reread(q)
  BY <1>4, RereadKept DEF at
<1>5. CASE at(q, "settings", "publish") /\ Publish(q)
  BY <1>5, PublishKept DEF at
<1> QED BY <1>1, <1>2, <1>3, <1>4, <1>5 DEF UpdateSettings

\* All of the mutations or none.
LEMMA MutateKVKept ==
  ASSUME NEW q \in Requests, RowsInv, MutateKV(q)
  PROVE  Good
<1>1. ASSUME NEW ks \in SUBSET Keys, NEW val \in {q, None}, NEW exp \in [ks \X {"head"} -> KeyVersions],
             Begin(q, "kv", "write", None, exp, val)
      PROVE  Good
  <2>1. ks \X {"head"} \in SUBSET Cells /\ KeyVersions \in SUBSET Int
    BY RowsOK DEF Cells, Rows, Parts
  <2>2. exp \in Expectation /\ DOMAIN exp = ks \X {"head"}
    BY <2>1, ExpectationIs
  <2>3. DOMAIN exp \subseteq Keys \X Parts
    BY <2>2 DEF Parts
  <2>4. HandlerOK(q, [op |-> "kv", pc |-> "write", row |-> None, id |-> id(None), val |-> val,
                      exp |-> exp, left |-> {}, wrote |-> {}])
    BY <2>3 DEF HandlerOK, Rowed, Ops
  <2> QED BY <1>1, <2>2, <2>4, PcNames, Begins DEF OpNames, Ops
<1>2. ASSUME at(q, "kv", "write"), Matches(q), Write(q, DOMAIN task[q].exp), GoTo(q, "publish"),
             born' = born
      PROVE  Good
  BY <1>2, Succeeds DEF at, names, Ops
<1>3. ASSUME at(q, "kv", "write"), UNCHANGED <<db, born>>, Answer(q, "mismatch")
      PROVE  Good
  BY <1>3, Refuses DEF at
<1>4. CASE at(q, "kv", "publish") /\ Publish(q)
  BY <1>4, PublishKept DEF at
<1> QED BY ZenonT(60), <1>1, <1>2, <1>3, <1>4 DEF MutateKV

----------------------------------------------------------------------------
(* The handlers that create and delete rows.                               *)

\* What becomes of a handler that goes on with the same row and versions.
LEMMA HandlerKept ==
  ASSUME NEW q \in Requests, NEW k \in Task, NEW l \in Task, HandlerOK(q, k), l.pc # "idle",
         l.op = k.op, l.row = k.row, l.val = k.val, l.exp = k.exp,
         l.pc \in {"refresh", "refetch", "retry"} => k.pc \in {"refresh", "refetch", "retry"}
  PROVE  HandlerOK(q, l)
BY DEF HandlerOK, Rowed

\* INSERT, by a handler that fetches the row afterwards.
LEMMA InsertRowKept ==
  ASSUME NEW q \in Requests, NEW row, RowsInv, task[q].pc = "insert", ~names(q),
         task[q].row \in Created, InsertRow(q, row),
         \A p \in Parts : \E v \in {0, 1}, w \in {q, None} : row[p] = content(v, w)
  PROVE  Good
<1>1. ASSUME ~live(task[q].row), Insert(task[q].row, row), GoTo(q, "fetch")
      PROVE  Good
  <2> DEFINE k == [task[q] EXCEPT !.pc = "fetch"]
  <2>1. k \in Task /\ Moved(q, k, told[q])
    BY <1>1, PcNames, GoToMoves DEF RowsInv
  <2>2. HandlerOK(q, k)
    BY PcNames, PcKept DEF RowsInv, TypeOK
  <2>3. k.pc = "fetch" /\ k.op = task[q].op
    BY DEF RowsInv, TypeOK, Task
  <2>4. told[q] = "waiting" /\ told[q] \in Answers
    BY DEF RowsInv, Open, TypeOK
  <2> HIDE DEF k
  <2> QED BY <1>1, <2>1, <2>2, <2>3, <2>4, Inserts
<1>2. ASSUME UNCHANGED <<db, born>>, Answer(q, "error")
      PROVE  Good
  BY <1>2, Refuses
<1> QED BY <1>1, <1>2 DEF InsertRow

\* The row as it is read: updates are made of contents.
LEMMA ContentsType ==
  ASSUME TypeOK, NEW r \in Created
  PROVE  contentsOf(whole(r)) \in SUBSET News
<1>1. \A c \in whole(r) : c \in Cells
  BY CreatedApart DEF whole, Cells
<1> QED BY <1>1, CellType DEF contentsOf, News

LEMMA FetchKept ==
  ASSUME NEW q \in Requests, RowsInv, task[q].pc = "fetch", ~names(q), task[q].row \in Created,
         Fetch(q)
  PROVE  Good
<1>1. ASSUME UNCHANGED <<told, db, born>>,
             task' = [task EXCEPT ![q].pc = "publish", ![q].wrote = contentsOf(whole(task[q].row))]
      PROVE  Good
  <2> DEFINE w == contentsOf(whole(task[q].row))
             k == [task[q] EXCEPT !.pc = "publish", !.wrote = w]
  <2>1. w \in SUBSET News
    BY ContentsType DEF RowsInv
  <2> HIDE DEF w
  <2>2. task[q] \in Task /\ task' = [task EXCEPT ![q].pc = "publish", ![q].wrote = w]
    BY <1>1 DEF RowsInv, TypeOK, w
  <2>3. k \in Task /\ Moved(q, k, told[q])
    BY <1>1, <2>1, <2>2, PcNames DEF Moved, Task, RowsInv, TypeOK
  <2>4. k.pc = "publish" /\ k.op = task[q].op /\ k.row = task[q].row /\ k.val = task[q].val
        /\ k.exp = task[q].exp
    BY <2>2 DEF Task
  <2>5. told[q] = "waiting" /\ told[q] \in Answers
    BY DEF RowsInv, Open, TypeOK
  <2> HIDE DEF k
  <2>6. HandlerOK(q, k)
    BY <2>2, <2>3, <2>4, HandlerKept DEF RowsInv
  <2>7. AskedOf(k) = AskedOf(task[q]) /\ VerdictOf(k, told[q]) = VerdictOf(task[q], told[q])
    BY <2>4 DEF AskedOf, VerdictOf, names
  <2> QED BY <1>1, <2>3, <2>4, <2>5, <2>6, <2>7, Stutters
<1>2. ASSUME UNCHANGED <<db, born>>, Answer(q, "error")
      PROVE  Good
  BY <1>2, Refuses
<1> QED BY <1>1, <1>2 DEF Fetch

LEMMA CreateKept ==
  ASSUME NEW q \in Requests, NEW op, NEW rows, NEW row,
         \/ op = "artifact-create" /\ rows = Artifacts
         \/ op = "POST terminal" /\ rows = Terminals,
         RowsInv, CreateUnlessThere(q, op, rows, row),
         \A p \in Parts : \E v \in {0, 1}, w \in {q, None} : row[p] = content(v, w)
  PROVE  Good
<1>0. /\ op \in {"artifact-create", "POST terminal"} /\ op \in OpNames
      /\ rows \in SUBSET Created /\ rows \in SUBSET Rows
  BY CreatedApart DEF Created, OpNames
<1>1. ASSUME NEW r \in rows, Begin(q, op, "read", r, <<>>, q)
      PROVE  Good
  <2>1. HandlerOK(q, [op |-> op, pc |-> "read", row |-> r, id |-> id(r), val |-> q, exp |-> <<>>,
                      left |-> {}, wrote |-> {}])
    BY <1>0 DEF HandlerOK, Rowed, Ops
  <2> QED BY <1>0, <1>1, <2>1, NoExpectation, PcNames, Begins
<1>2. task[q].op = op => ~names(q) /\ task[q].row \in Created
  <2>1. HandlerOK(q, task[q])
    BY DEF RowsInv
  <2> QED BY <1>0, <2>1 DEF names, Ops, HandlerOK, Rowed, Created
<1>3. CASE at(q, op, "read") /\ Answer(q, "success") /\ UNCHANGED <<db, born>>
  BY <1>2, <1>3, Confirms DEF at
<1>4. CASE at(q, op, "read") /\ GoTo(q, "insert") /\ UNCHANGED <<db, born>>
  BY <1>2, <1>4, PcNames, Advances DEF at
<1>5. CASE at(q, op, "read") /\ Answer(q, "error") /\ UNCHANGED <<db, born>>
  BY <1>5, Refuses DEF at
<1>6. CASE at(q, op, "insert") /\ InsertRow(q, row)
  BY <1>2, <1>6, InsertRowKept DEF at
<1>7. CASE at(q, op, "fetch") /\ Fetch(q)
  BY <1>2, <1>7, FetchKept DEF at
<1> QED BY <1>1, <1>3, <1>4, <1>5, <1>6, <1>7 DEF CreateUnlessThere

\* A handler that names no versions and has published ends, or goes on to
\* publish again.
LEMMA PublishedKept ==
  ASSUME NEW q \in Requests, RowsInv, task[q].pc \in {"refresh", "publish", "again", "read"}, ~names(q),
         UNCHANGED <<db, born>>, Answer(q, "success") \/ GoTo(q, "again")
  PROVE  Good
<1>1. CASE Answer(q, "success")
  BY <1>1, Confirms
<1>2. CASE GoTo(q, "again")
  BY <1>2, PcNames, Advances
<1> QED BY <1>1, <1>2

LEMMA ArtifactCreateKept ==
  ASSUME NEW q \in Requests, RowsInv, ArtifactCreate(q)
  PROVE  Good
<1>1. CASE CreateUnlessThere(q, "artifact-create", Artifacts, [p \in Parts |-> content(1, q)])
  <2> DEFINE row == [p \in Parts |-> content(1, q)]
  <2>1. \A p \in Parts : \E v \in {0, 1}, w \in {q, None} : row[p] = content(v, w)
    OBVIOUS
  <2>3. CreateUnlessThere(q, "artifact-create", Artifacts, row)
    BY <1>1
  <2> HIDE DEF row
  <2> QED BY <2>1, <2>3, CreateKept
<1>2. CASE at(q, "artifact-create", "publish") /\ PublishWrote(q)
  BY <1>2, PublishedKept DEF PublishWrote, at, names, Ops
<1> QED BY <1>1, <1>2 DEF ArtifactCreate

LEMMA CreateTerminalKept ==
  ASSUME NEW q \in Requests, RowsInv, CreateTerminal(q)
  PROVE  Good
<1>1. ASSUME NEW body \in {content(0, None), content(1, q)},
             CreateUnlessThere(q, "POST terminal", Terminals, [head |-> content(1, q), body |-> body])
      PROVE  Good
  <2> DEFINE row == [head |-> content(1, q), body |-> body]
  <2>1. \A p \in Parts : \E v \in {0, 1}, w \in {q, None} : row[p] = content(v, w)
    <3>1. row["head"] = content(1, q) /\ row["body"] = body
      OBVIOUS
    <3> HIDE DEF row
    <3> QED BY <3>1 DEF Parts
  <2>3. CreateUnlessThere(q, "POST terminal", Terminals, row)
    BY <1>1
  <2> HIDE DEF row
  <2> QED BY <2>1, <2>3, CreateKept
<1>2. CASE at(q, "POST terminal", "publish") /\ GoTo(q, "again") /\ UNCHANGED <<db, born>>
  BY <1>2, PublishedKept DEF at, names, Ops
<1>3. CASE at(q, "POST terminal", "again") /\ Answer(q, "success") /\ UNCHANGED <<db, born>>
  BY <1>3, PublishedKept DEF at, names, Ops
<1> QED BY <1>1, <1>2, <1>3 DEF CreateTerminal

LEMMA DeleteKept ==
  ASSUME NEW q \in Requests, NEW op, NEW rows,
         \/ op = "artifact-delete" /\ rows = Artifacts
         \/ op = "DELETE session" /\ rows = Sessions,
         RowsInv, DeleteRow(q, op, rows)
  PROVE  Good
<1>0. /\ op \in {"artifact-delete", "DELETE session"} /\ op \in OpNames
      /\ rows \in SUBSET Created /\ rows \in SUBSET Rows
  BY CreatedApart DEF Created, OpNames
<1>1. ASSUME NEW r \in rows, Begin(q, op, "read", r, <<>>, None)
      PROVE  Good
  <2>1. HandlerOK(q, [op |-> op, pc |-> "read", row |-> r, id |-> id(r), val |-> None, exp |-> <<>>,
                      left |-> {}, wrote |-> {}])
    BY <1>0 DEF HandlerOK, Rowed, Ops
  <2> QED BY <1>0, <1>1, <2>1, NoExpectation, PcNames, Begins
<1>2. task[q].op = op => ~names(q) /\ task[q].row \in Created
  <2>1. HandlerOK(q, task[q])
    BY DEF RowsInv
  <2> QED BY <1>0, <2>1 DEF names, Ops, HandlerOK, Rowed, Created
<1>3. CASE at(q, op, "read") /\ Read(q, FALSE)
  BY <1>3, ReadKept DEF at
<1>4. ASSUME at(q, op, "write"), Delete({r \in {task[q].row} : Found(q)}),
             GoTo(q, "publish"), born' = born
      PROVE  Good
  <2> DEFINE k == [task[q] EXCEPT !.pc = "publish"]
             rs == {r \in {task[q].row} : Found(q)}
  <2>1. k \in Task /\ Moved(q, k, told[q])
    BY <1>4, PcNames, GoToMoves DEF RowsInv
  <2>2. HandlerOK(q, k)
    BY PcNames, PcKept DEF RowsInv, TypeOK
  <2>3. k.pc = "publish" /\ k.op = task[q].op
    BY DEF RowsInv, TypeOK, Task
  <2>4. told[q] = "waiting" /\ told[q] \in Answers
    BY <1>4 DEF at, RowsInv, Open, TypeOK
  <2>5. rs \in SUBSET Created /\ Delete(rs) /\ ~names(q)
    BY <1>2, <1>4 DEF at
  <2> HIDE DEF k, rs
  <2> QED BY <1>4, <2>1, <2>2, <2>3, <2>4, <2>5, Deletes
<1>5. CASE at(q, op, "write") /\ Answer(q, "error") /\ UNCHANGED <<db, born>>
  BY <1>5, Refuses DEF at
<1>6. CASE at(q, op, "publish") /\ Answer(q, "success") /\ UNCHANGED <<db, born>>
  BY <1>2, <1>6, PublishedKept DEF at
<1> QED BY <1>1, <1>3, <1>4, <1>5, <1>6 DEF DeleteRow

LEMMA DeleteTerminalKept ==
  ASSUME NEW q \in Requests, RowsInv, DeleteTerminal(q)
  PROVE  Good
<1>1. ASSUME NEW r \in Terminals, Begin(q, "DELETE terminal", "write", r, <<>>, None)
      PROVE  Good
  <2>1. HandlerOK(q, [op |-> "DELETE terminal", pc |-> "write", row |-> r, id |-> id(r), val |-> None,
                      exp |-> <<>>, left |-> {}, wrote |-> {}])
    BY DEF HandlerOK, Rowed, Ops
  <2> QED BY <1>1, <2>1, NoExpectation, PcNames, Begins DEF OpNames, Rows
<1>2. ASSUME at(q, "DELETE terminal", "write"), born' = born, Answer(q, "success"),
             Delete({task[q].row} \cup {s \in Sessions : Home[s] = task[q].row})
      PROVE  Good
  <2> DEFINE k == [task[q] EXCEPT !.pc = "done"]
             rs == {task[q].row} \cup {s \in Sessions : Home[s] = task[q].row}
  <2>0. "success" \in Answers
    BY DEF Answers
  <2>1. k \in Task /\ Moved(q, k, "success")
    BY <1>2, <2>0, AnswerMoves DEF RowsInv
  <2>2. HandlerOK(q, k)
    BY PcNames, PcKept DEF RowsInv, TypeOK
  <2>3. k.pc = "done" /\ k.op = task[q].op
    BY DEF RowsInv, TypeOK, Task
  <2>4. rs \in SUBSET Created /\ Delete(rs) /\ ~names(q)
    BY <1>2 DEF at, names, Ops, Created, RowsInv, HandlerOK, Rowed
  <2> HIDE DEF k, rs
  <2> QED BY <1>2, <2>0, <2>1, <2>2, <2>3, <2>4, Deletes
<1>3. CASE at(q, "DELETE terminal", "write") /\ Answer(q, "error") /\ UNCHANGED <<db, born>>
  BY <1>3, Refuses DEF at
<1> QED BY <1>1, <1>2, <1>3 DEF DeleteTerminal

----------------------------------------------------------------------------
(* CreateSession.                                                          *)

\* A step of the refresh that changes no field.
LEMMA RefreshingKept ==
  ASSUME NEW q \in Requests, NEW k \in Task, RowsInv,
         task[q].op = "POST session", task[q].pc \in {"tag", "refresh", "refetch", "retry"},
         k.op = task[q].op, k.row = task[q].row, k.val = task[q].val, DOMAIN k.exp = whole(k.row),
         k.pc \in {"refresh", "refetch", "retry"}, Moved(q, k, told[q]), UNCHANGED <<db, born>>
  PROVE  Good
<1>1. HandlerOK(q, k)
  BY DEF HandlerOK, Rowed, Ops, RowsInv
<1>2. told[q] = "waiting" /\ told[q] \in Answers
  BY DEF RowsInv, Open, TypeOK
<1>3. AskedOf(k) = AskedOf(task[q]) /\ VerdictOf(k, told[q]) = VerdictOf(task[q], told[q])
  BY DEF AskedOf, VerdictOf, Ops
<1> QED BY <1>1, <1>2, <1>3, Stutters

\* What a handler of CreateSession is about.
LEMMA SessionTask ==
  ASSUME NEW q \in Requests, RowsInv, task[q].op = "POST session"
  PROVE  /\ task[q] \in Task /\ ~names(q) /\ task[q].val = q
         /\ task[q].row \in Sessions /\ task[q].row \in Created /\ id(task[q].row) \in Nat
         /\ whole(task[q].row) \subseteq Cells
         /\ task[q].pc \in {"refresh", "refetch", "retry"} => DOMAIN task[q].exp = whole(task[q].row)
<1>1. HandlerOK(q, task[q]) /\ TypeOK
  BY DEF RowsInv
<1>2. task[q] \in Task /\ task[q].val = q /\ task[q].row \in Sessions
  BY <1>1 DEF HandlerOK, Rowed, TypeOK
<1>3. ~names(q)
  BY DEF names, Ops
<1>4. task[q].row \in Created /\ id(task[q].row) \in Nat
  BY <1>1, <1>2, CreatedApart DEF Created, id, TypeOK
<1>5. whole(task[q].row) \subseteq Cells
  BY <1>4, CreatedApart DEF whole, Cells
<1>6. task[q].pc \in {"refresh", "refetch", "retry"} => DOMAIN task[q].exp = whole(task[q].row)
  BY <1>1 DEF HandlerOK
<1> QED BY <1>2, <1>3, <1>4, <1>5, <1>6

\* The records that a handler of CreateSession goes through.
LEMMA RefreshTask ==
  ASSUME NEW k \in Task, NEW pc \in Pcs, NEW left \in SUBSET Parts
  PROVE  /\ [k EXCEPT !.pc = pc, !.left = left] \in Task
         /\ \A i \in Nat, e \in Expectation :
              [k EXCEPT !.pc = pc, !.id = i, !.left = left, !.exp = e] \in Task
         /\ \A e \in Expectation : [k EXCEPT !.pc = pc, !.exp = e] \in Task
         /\ \A w \in SUBSET News : [k EXCEPT !.pc = pc, !.left = left, !.wrote = w] \in Task
BY DEF Task

LEMMA LookUpTagKept ==
  ASSUME NEW q \in Requests, RowsInv, at(q, "POST session", "tag"), LookUpTag(q)
  PROVE  Good
<1>0. task[q].op = "POST session" /\ task[q].pc = "tag" /\ ~names(q)
  BY SessionTask DEF at
<1>1. ASSUME UNCHANGED <<told, db, born>>, NEW stale \in SUBSET Parts,
             task' = [task EXCEPT ![q].pc = "refresh", ![q].id = id(task[q].row), ![q].left = stale,
                                  ![q].exp = versionsOf(whole(task[q].row))]
      PROVE  Good
  <2> DEFINE i == id(task[q].row)
             e == versionsOf(whole(task[q].row))
             k == [task[q] EXCEPT !.pc = "refresh", !.id = i, !.left = stale, !.exp = e]
  <2>1. i \in Nat
    BY <1>0, SessionTask
  <2>2. e \in Expectation /\ DOMAIN e = whole(task[q].row)
    <3>1. whole(task[q].row) \in SUBSET Cells
      BY <1>0, SessionTask
    <3>2. e \in [whole(task[q].row) -> Int]
      BY <3>1, CellType DEF versionsOf, RowsInv
    <3> QED BY <3>1, <3>2 DEF Expectation
  <2> HIDE DEF i, e
  <2>3. task' = [task EXCEPT ![q].pc = "refresh", ![q].id = i, ![q].left = stale, ![q].exp = e]
    BY <1>1 DEF i, e
  <2>4. k \in Task /\ Moved(q, k, told[q])
    <3>1. "refresh" \in Pcs /\ task[q] \in Task
      BY PcNames DEF RowsInv, TypeOK
    <3>2. k \in Task
      BY <1>1, <2>1, <2>2, <3>1, RefreshTask
    <3>3. task' = [task EXCEPT ![q] = k] /\ told' = [told EXCEPT ![q] = told[q]]
      BY <1>1, <2>3 DEF RowsInv, TypeOK
    <3> QED BY <3>2, <3>3 DEF Moved
  <2>5. k.op = task[q].op /\ k.row = task[q].row /\ k.val = task[q].val /\ k.exp = e /\ k.pc = "refresh"
    BY DEF RowsInv, TypeOK, Task
  <2> HIDE DEF k
  <2>6. DOMAIN k.exp = whole(k.row)
    BY <2>2, <2>5
  <2>7. k.pc \in {"refresh", "refetch", "retry"} /\ UNCHANGED <<db, born>>
    BY <1>1, <2>5
  <2>8. task[q].op = "POST session" /\ task[q].pc \in {"tag", "refresh", "refetch", "retry"}
    BY <1>0
  <2> QED BY <2>4, <2>5, <2>6, <2>7, <2>8, RefreshingKept
<1>2. CASE GoTo(q, "insert") /\ UNCHANGED <<db, born>>
  BY <1>0, <1>2, PcNames, Advances
<1>3. CASE Answer(q, "error") /\ UNCHANGED <<db, born>>
  BY <1>0, <1>3, Refuses
<1> QED BY <1>1, <1>2, <1>3 DEF LookUpTag

LEMMA ExpectedInt == \A e \in Expectation : \A c \in DOMAIN e : e[c] \in Int
BY DEF Expectation

LEMMA NextInt == \A v \in Int : v + 1 \in Int
OBVIOUS

LEMMA UpdateIs ==
  ASSUME NEW c \in Cells, NEW ver \in Int, NEW val \in Requests \cup {None}
  PROVE  [cell |-> c, ver |-> ver, val |-> val] \in News
BY DEF News

LEMMA RefreshKept ==
  ASSUME NEW q \in Requests, RowsInv, task[q].op = "POST session", task[q].pc \in {"refresh", "retry"},
         Refresh(q)
  PROVE  Good
<1> DEFINE c == cell(q)
<1>1. /\ c \in Cells /\ c[1] = task[q].row /\ c \in DOMAIN task[q].exp
      /\ part(q) \in Parts
  BY SessionTask DEF cell, part, whole, Parts
<1>2. task[q] \in Task /\ ~names(q) /\ task[q].val = q /\ c[1] \in Sessions
      /\ DOMAIN task[q].exp = whole(task[q].row) /\ task[q].exp \in Expectation
  BY <1>1, SessionTask DEF Task
<1>3. told[q] = "waiting" /\ told[q] \in Answers
  BY DEF RowsInv, Open, TypeOK
<1> HIDE DEF c
<1>4. ASSUME WriteStale(q), UNCHANGED <<born, told>>,
             task' = [task EXCEPT ![q].pc = "refresh", ![q].left = @ \ {part(q)},
                                  ![q].wrote = @ \cup wanted(q, {cell(q)})]
      PROVE  Good
  <2> DEFINE l == task[q].left \ {part(q)}
             w == task[q].wrote \cup wanted(q, {cell(q)})
             k == [task[q] EXCEPT !.pc = "refresh", !.left = l, !.wrote = w]
  <2>1. w \in SUBSET News /\ l \in SUBSET Parts
    <3>1. task[q].wrote \in SUBSET News /\ task[q].left \in SUBSET Parts
      BY <1>2 DEF Task
    <3>2. task[q].exp[c] + 1 \in Int
      <4>1. task[q].exp[c] \in Int
        BY <1>1, <1>2, ExpectedInt, Zenon
      <4> QED BY <4>1, NextInt
    <3>3. [cell |-> c, ver |-> task[q].exp[c] + 1, val |-> task[q].val] \in News
      BY <1>1, <1>2, <3>2, UpdateIs
    <3>4. wanted(q, {cell(q)}) \in SUBSET News
      BY <3>3 DEF wanted, c
    <3> QED BY <3>1, <3>4
  <2> HIDE DEF l, w
  <2>2. task' = [task EXCEPT ![q].pc = "refresh", ![q].left = l, ![q].wrote = w]
    BY <1>4 DEF l, w
  <2>3. k \in Task /\ Moved(q, k, told[q])
    <3>1. "refresh" \in Pcs /\ task[q] \in Task
      BY PcNames DEF RowsInv, TypeOK
    <3>2. k \in Task
      BY <2>1, <3>1, RefreshTask
    <3>3. task' = [task EXCEPT ![q] = k] /\ told' = [told EXCEPT ![q] = told[q]]
      BY <1>4, <2>2 DEF RowsInv, TypeOK
    <3> QED BY <3>2, <3>3 DEF Moved
  <2>4. k.op = task[q].op /\ k.row = task[q].row /\ k.val = task[q].val /\ k.exp = task[q].exp
        /\ k.pc = "refresh"
    BY DEF RowsInv, TypeOK, Task
  <2> HIDE DEF k
  <2>5. HandlerOK(q, k)
    BY <1>2, <2>3, <2>4, HandlerKept DEF RowsInv
  <2>6. db[c].ver >= 0
    <3>1. db[<<task[q].row, "head">>].ver >= 0 /\ task[q].row \in Created
      BY <1>4, SessionTask DEF WriteStale, Found, live
    <3>2. \A p \in Parts : db[<<task[q].row, p>>].ver >= 0
      BY <3>1 DEF RowsInv, Whole, absent, content, Parts
    <3> QED BY <1>1, <3>2 DEF c, cell
  <2>7. db[c].ver = task[q].exp[c] /\ Write(q, {c})
    BY <1>4 DEF WriteStale, c
  <2> QED BY <1>1, <1>2, <1>3, <1>4, <2>3, <2>4, <2>5, <2>6, <2>7, Rewrites
<1>5. ASSUME UNCHANGED <<db, born, told>>, task' = [task EXCEPT ![q].pc = "refetch"]
      PROVE  Good
  <2> DEFINE k == [task[q] EXCEPT !.pc = "refetch"]
  <2>1. k \in Task /\ Moved(q, k, told[q])
    BY ZenonT(60), <1>5, PcNames DEF Moved, Task, RowsInv, TypeOK
  <2>2. k.op = task[q].op /\ k.row = task[q].row /\ k.val = task[q].val /\ k.exp = task[q].exp
        /\ k.pc = "refetch"
    BY DEF RowsInv, TypeOK, Task
  <2> HIDE DEF k
  <2> QED BY <1>2, <1>5, <2>1, <2>2, RefreshingKept
<1>6. ASSUME UNCHANGED <<db, born, told>>,
             task' = [task EXCEPT ![q].pc = "refresh", ![q].left = @ \ {part(q)}]
      PROVE  Good
  <2> DEFINE k == [task[q] EXCEPT !.pc = "refresh", !.left = @ \ {part(q)}]
  <2>1. k \in Task /\ Moved(q, k, told[q])
    BY ZenonT(60), <1>6, PcNames DEF Moved, Task, RowsInv, TypeOK
  <2>2. k.op = task[q].op /\ k.row = task[q].row /\ k.val = task[q].val /\ k.exp = task[q].exp
        /\ k.pc = "refresh"
    BY DEF RowsInv, TypeOK, Task
  <2> HIDE DEF k
  <2> QED BY <1>2, <1>6, <2>1, <2>2, RefreshingKept
<1> QED BY <1>4, <1>5, <1>6 DEF Refresh

LEMMA RefetchKept ==
  ASSUME NEW q \in Requests, RowsInv, task[q].op = "POST session", task[q].pc = "refetch", Refetch(q)
  PROVE  Good
<1>1. /\ task[q] \in Task /\ cell(q) \in Cells
      /\ task[q].exp \in Expectation /\ DOMAIN task[q].exp = whole(task[q].row)
  <2>1. cell(q) \in whole(task[q].row)
    BY DEF cell, part, whole, Parts
  <2>2. task[q] \in Task /\ whole(task[q].row) \subseteq Cells /\ DOMAIN task[q].exp = whole(task[q].row)
    BY SessionTask
  <2> QED BY <2>1, <2>2 DEF Task
<1>2. task[q].pc \in {"tag", "refresh", "refetch", "retry"}
  OBVIOUS
<1>3. ASSUME UNCHANGED <<db, born, told>>,
             task' = [task EXCEPT ![q].pc = "retry", ![q].exp[cell(q)] = db[cell(q)].ver]
      PROVE  Good
  <2> DEFINE e == [task[q].exp EXCEPT ![cell(q)] = db[cell(q)].ver]
             k == [task[q] EXCEPT !.pc = "retry", !.exp = e]
  <2>1. e \in Expectation /\ DOMAIN e = whole(task[q].row)
    <3>1. db[cell(q)].ver \in Int
      BY <1>1, CellType DEF RowsInv
    <3>2. PICK D \in SUBSET Cells : task[q].exp \in [D -> Int]
      BY <1>1 DEF Expectation
    <3>3. e \in [D -> Int]
      BY <3>1, <3>2
    <3> QED BY <1>1, <3>2, <3>3 DEF Expectation
  <2>2. task' = [task EXCEPT ![q].pc = "retry", ![q].exp = e]
    BY <1>3
  <2> HIDE DEF e
  <2>3. k \in Task /\ Moved(q, k, told[q])
    <3>1. "retry" \in Pcs
      BY PcNames
    <3>2. k \in Task
      BY <1>1, <2>1, <3>1, RefreshTask
    <3>3. task' = [task EXCEPT ![q] = k] /\ told' = [told EXCEPT ![q] = told[q]]
      BY <1>3, <2>2 DEF RowsInv, TypeOK
    <3> QED BY <3>2, <3>3 DEF Moved
  <2>4. k.op = task[q].op /\ k.row = task[q].row /\ k.val = task[q].val /\ k.exp = e /\ k.pc = "retry"
    BY <1>1 DEF Task
  <2> HIDE DEF k
  <2>5. DOMAIN k.exp = whole(k.row)
    BY <2>1, <2>4
  <2>6. k.pc \in {"refresh", "refetch", "retry"} /\ UNCHANGED <<db, born>>
    BY <1>3, <2>4
  <2> QED BY <1>2, <2>3, <2>4, <2>5, <2>6, RefreshingKept
<1>4. ASSUME UNCHANGED <<db, born, told>>,
             task' = [task EXCEPT ![q].pc = "refresh", ![q].left = @ \ {part(q)}]
      PROVE  Good
  <2> DEFINE k == [task[q] EXCEPT !.pc = "refresh", !.left = @ \ {part(q)}]
  <2>1. k \in Task /\ Moved(q, k, told[q])
    BY ZenonT(60), <1>4, PcNames DEF Moved, Task, RowsInv, TypeOK
  <2>2. k.op = task[q].op /\ k.row = task[q].row /\ k.val = task[q].val /\ k.exp = task[q].exp
        /\ k.pc = "refresh"
    BY <1>1 DEF Task
  <2> HIDE DEF k
  <2>3. DOMAIN k.exp = whole(k.row)
    BY <1>1, <2>2
  <2> QED BY <1>2, <1>4, <2>1, <2>2, <2>3, RefreshingKept
<1> QED BY <1>3, <1>4 DEF Refetch

LEMMA InsertSessionKept ==
  ASSUME NEW q \in Requests, RowsInv, InsertSession(q)
  PROVE  Good
<1>1. ASSUME at(q, "POST session", "insert"), UNCHANGED told, ~live(task[q].row),
             Insert(task[q].row, [p \in Parts |-> content(0, q)]),
             task' = [task EXCEPT ![q].pc = "publish",
                                  ![q].wrote = {[cell |-> c, ver |-> 0, val |-> q] :
                                                 c \in whole(task[q].row)}]
      PROVE  Good
  <2> DEFINE w == {[cell |-> c, ver |-> 0, val |-> q] : c \in whole(task[q].row)}
             k == [task[q] EXCEPT !.pc = "publish", !.wrote = w]
             row == [p \in Parts |-> content(0, q)]
  <2>1. /\ task[q] \in Task /\ task[q].row \in Created /\ ~names(q)
        /\ whole(task[q].row) \subseteq Cells
    BY <1>1, SessionTask DEF at
  <2>2. w \in SUBSET News
    BY <2>1, UpdateIs
  <2>3. \A p \in Parts : \E v \in {0, 1}, x \in {q, None} : row[p] = content(v, x)
    OBVIOUS
  <2>4. Insert(task[q].row, row)
    BY <1>1
  <2> HIDE DEF w, row
  <2>5. task' = [task EXCEPT ![q].pc = "publish", ![q].wrote = w]
    BY <1>1 DEF w
  <2>6. k \in Task /\ Moved(q, k, told[q])
    BY <1>1, <2>1, <2>2, <2>5, PcNames DEF Moved, Task, RowsInv, TypeOK
  <2>7. k.pc = "publish" /\ k.op = task[q].op /\ k.row = task[q].row /\ k.val = task[q].val
        /\ k.exp = task[q].exp
    BY <2>1 DEF Task
  <2> HIDE DEF k
  <2>8. HandlerOK(q, k)
    BY <2>1, <2>6, <2>7, HandlerKept DEF RowsInv
  <2>9. told[q] = "waiting" /\ told[q] \in Answers
    BY <1>1 DEF at, RowsInv, Open, TypeOK
  <2> QED BY <1>1, <2>1, <2>3, <2>4, <2>6, <2>7, <2>8, <2>9, Inserts
<1>2. CASE at(q, "POST session", "insert") /\ UNCHANGED <<db, born>> /\ Answer(q, "error")
  BY <1>2, Refuses DEF at
<1>3. CASE at(q, "POST session", "publish") /\ PublishWrote(q)
  BY <1>3, PublishedKept DEF PublishWrote, at, names, Ops
<1> QED BY <1>1, <1>2, <1>3 DEF InsertSession

LEMMA CreateSessionKept ==
  ASSUME NEW q \in Requests, RowsInv, CreateSession(q)
  PROVE  Good
<1>1. ASSUME NEW s \in Sessions, Begin(q, "POST session", "terminal", s, <<>>, q)
      PROVE  Good
  <2>1. HandlerOK(q, [op |-> "POST session", pc |-> "terminal", row |-> s, id |-> id(s), val |-> q,
                      exp |-> <<>>, left |-> {}, wrote |-> {}])
    BY DEF HandlerOK, Rowed, Ops
  <2> QED BY <1>1, <2>1, NoExpectation, PcNames, Begins DEF OpNames, Rows
<1>2. CASE at(q, "POST session", "terminal") /\ GoTo(q, "tag") /\ UNCHANGED <<db, born>>
  BY <1>2, PcNames, Advances DEF at, names, Ops
<1>3. CASE at(q, "POST session", "terminal") /\ Answer(q, "error") /\ UNCHANGED <<db, born>>
  BY <1>3, Refuses DEF at
<1>4. CASE at(q, "POST session", "tag") /\ LookUpTag(q)
  BY <1>4, LookUpTagKept
<1>5. CASE (at(q, "POST session", "refresh") \/ at(q, "POST session", "retry")) /\ Refresh(q)
  BY <1>5, RefreshKept DEF at
<1>6. CASE at(q, "POST session", "refetch") /\ Refetch(q)
  BY <1>6, RefetchKept DEF at
<1>7. CASE at(q, "POST session", "refresh") /\ Answer(q, "success") /\ UNCHANGED <<db, born>>
  BY <1>7, PublishedKept DEF at, names, Ops
<1>8. CASE InsertSession(q)
  BY <1>8, InsertSessionKept
<1> QED BY <1>1, <1>2, <1>3, <1>4, <1>5, <1>6, <1>7, <1>8 DEF CreateSession

----------------------------------------------------------------------------
(* The theorems.                                                           *)

LEMMA HandleKept ==
  ASSUME NEW q \in Requests, RowsInv, Handle(q)
  PROVE  Good
<1>1. CASE UpdateMetadata(q) \/ UpdateState(q)
  <2>1. /\ Sessions \in SUBSET Rows
        /\ {{"head"}} \in SUBSET SUBSET Parts /\ {{"body"}} \in SUBSET SUBSET Parts
    BY DEF Rows, Parts
  <2> QED BY <1>1, <2>1, UpdateKept DEF UpdateMetadata, UpdateState, Ops
<1>2. CASE TerminalUpdateMetadata(q) \/ TerminalUpdateState(q)
  <2>1. /\ Terminals \in SUBSET Rows
        /\ {{"head"}} \in SUBSET SUBSET Parts /\ {{"body"}} \in SUBSET SUBSET Parts
    BY DEF Rows, Parts
  <2> QED BY <1>2, <2>1, UpdateKept DEF TerminalUpdateMetadata, TerminalUpdateState, Ops
<1>3. CASE ArtifactUpdate(q) \/ UpdateArtifact(q)
  <2>1. Artifacts \in SUBSET Rows /\ (SUBSET Parts) \ {{}} \in SUBSET SUBSET Parts
    BY DEF Rows
  <2> QED BY <1>3, <2>1, UpdateKept DEF ArtifactUpdate, UpdateArtifact, Ops
<1>4. CASE UpdateSettings(q) \/ MutateKV(q)
  BY <1>4, SettingsKept, MutateKVKept
<1>5. CASE ArtifactCreate(q) \/ CreateArtifact(q)
  BY <1>5, ArtifactCreateKept DEF CreateArtifact
<1>6. CASE ArtifactDelete(q) \/ DeleteArtifact(q) \/ DeleteSession(q)
  BY <1>6, DeleteKept DEF ArtifactDelete, DeleteArtifact, DeleteSession
<1>7. CASE CreateTerminal(q) \/ DeleteTerminal(q)
  BY <1>7, CreateTerminalKept, DeleteTerminalKept
<1>8. CASE CreateSession(q)
  BY <1>8, CreateSessionKept
<1> QED BY <1>1, <1>2, <1>3, <1>4, <1>5, <1>6, <1>7, <1>8 DEF Handle

LEMMA RowsStep == RowsInv /\ [Next]_vars => Good
<1> SUFFICES ASSUME RowsInv, [Next]_vars PROVE Good
  OBVIOUS
<1>1. CASE Next
  BY <1>1, HandleKept DEF Next
<1>2. CASE UNCHANGED vars
  <2>1. UNCHANGED <<db, born, task, told>>
    BY <1>2 DEF vars
  <2>2. RowsInv'
    BY <2>1 DEF RowsInv, TypeOK, Whole, absent, content, HandlerOK, Open
  <2>3. UNCHANGED Store!vars
    BY <2>1, StoreVars DEF Asked, Verdict
  <2>4. KeysKept
    BY <2>1, CellType DEF KeysKept, RowsInv, Cells, Rows, Parts
  <2> QED BY <2>2, <2>3, <2>4 DEF Good
<1> QED BY <1>1, <1>2

LEMMA RowsInit == Init => RowsInv /\ Store!Init
<1> SUFFICES ASSUME Init PROVE RowsInv /\ Store!Init
  OBVIOUS
<1>1. PICK there \in SUBSET Rows :
        /\ db = [c \in Cells |-> IF c[1] \in there THEN InitialRow(c[1])[c[2]] ELSE absent]
        /\ born = [r \in Rows |-> IF r \in there THEN 1 ELSE 0]
  BY DEF Init
<1>2. \A r \in Rows, p \in Parts :
        \/ InitialRow(r)[p] = content(0, None)
        \/ InitialRow(r)[p] = content(1, None)
        \/ InitialRow(r)[p] = absent /\ r \notin Created
  <2> TAKE r \in Rows, p \in Parts
  <2>1. CASE r \in Sessions
    <3>1. InitialRow(r) = [o \in Parts |-> content(0, None)]
      BY <2>1, RowsOK DEF InitialRow
    <3> QED BY <3>1
  <2>2. CASE r \in Terminals
    BY <2>2, RowsOK DEF InitialRow, Parts
  <2>3. CASE r \in Artifacts
    <3>1. InitialRow(r) = [o \in Parts |-> content(1, None)]
      BY <2>3, RowsOK DEF InitialRow
    <3> QED BY <3>1
  <2>4. CASE r \notin Created
    BY <2>4 DEF InitialRow, Parts, Created
  <2> QED BY <2>1, <2>2, <2>3, <2>4 DEF Created
<1>3. /\ content(0, None) \in Content /\ content(0, None).ver = 0
      /\ content(1, None) \in Content /\ content(1, None).ver = 1
      /\ absent \in Content /\ absent.ver = -1 /\ absent = [ver |-> -1, val |-> None]
  BY ContentIs DEF absent, content
<1>4. \A c \in Cells : /\ db[c] \in Content
                       /\ db[c] = absent \/ db[c].ver \in {0, 1}
  BY <1>1, <1>2, <1>3, CellPair
<1>5. \A r \in Created : Whole(r)
  <2> TAKE r \in Created
  <2>1. \A p \in Parts : <<r, p>> \in Cells /\ r \in Rows
    BY CreatedApart DEF Cells
  <2>2. CASE r \in there
    BY <1>1, <1>2, <1>3, <2>1, <2>2 DEF Whole
  <2>3. CASE r \notin there
    BY <1>1, <2>1, <2>3 DEF Whole
  <2> QED BY <2>2, <2>3
<1>6. TypeOK
  <2>1. db \in [Cells -> Content] /\ born \in [Rows -> Nat]
    BY <1>1, <1>4
  <2>2. idle \in Task
    BY NoExpectation DEF idle, Task, OpNames, Pcs
  <2> QED BY <2>1, <2>2 DEF TypeOK, Init, Answers
<1>7. \A q \in Requests : HandlerOK(q, task[q]) /\ Open(q)
  BY DEF Init, HandlerOK, Open, idle, Rowed, Ops
<1>8. /\ Asked = [q \in Requests |-> None]
      /\ Verdict = [q \in Requests |-> "waiting"]
  BY DEF Init, Asked, Verdict, AskedOf, VerdictOf, idle, Ops
<1>9. Store!Init
  BY <1>3, <1>4, <1>8
  DEF Store!Init, Store!Absent, Store!Cells, Cells, Asked, Verdict, AskedOf, VerdictOf, names
<1> QED BY <1>5, <1>6, <1>7, <1>9 DEF RowsInv

\* The handlers keep the promise made to writers (UpdateState, UpdateMetadata
\* and the like): a request is told to have succeeded only if all its fields
\* replaced exactly the versions it named, at one moment, whatever statements
\* of other requests come between its own, and whichever of them fail.
THEOREM RowsImplementStore == Spec => StoreSpec
<1>1. RowsInv /\ [Next]_vars => RowsInv' /\ [Store!Next]_(Store!vars)
  BY RowsStep DEF Good
<1> QED BY <1>1, RowsInit, PTL DEF Spec, StoreSpec, Store!Spec

\* No handler takes the version of a key back, MutateKV's deletion of its value
\* included.
THEOREM KeyHistory == Spec => KeysKeepHistory
<1>1. RowsInv /\ [Next]_vars =>
        RowsInv' /\ [\A k \in Keys : db'[<<k, "head">>].ver >= db[<<k, "head">>].ver]_vars
  BY RowsStep DEF Good, KeysKept
<1> QED BY <1>1, RowsInit, PTL DEF Spec, KeysKeepHistory

----------------------------------------------------------------------------
(* What clients hear.  The second invariant follows the contents of the     *)
(* fields to the updates: those that have been emitted, and those that a    *)
(* handler holds and will emit before it ends.                              *)

Heard == UNION {n.cells : n \in news}

\* The updates that a handler has still to emit.
owed(k) ==
  IF k.op \in Ops
    THEN IF k.pc = "publish"
           THEN {[cell |-> c, ver |-> k.exp[c] + 1, val |-> k.val] : c \in DOMAIN k.exp}
           ELSE {}
    ELSE IF k.pc = "done" THEN {} ELSE k.wrote

Said == Heard \cup UNION {owed(task[q]) : q \in Requests}

Scope == (Rows \ Accounts) \X Parts

now(c) == [cell |-> c, ver |-> db[c].ver, val |-> db[c].val]

\* A handler is about to read the row that it will publish.
fetched(r) == \E q \in Requests : task[q].pc = "fetch" /\ task[q].row = r

\* The row has not been deleted, or made again under its id.
settled(r) == r \in Keys \/ (live(r) /\ born[r] <= 1)

Changed(c) == db[c].val # None \/ db[c].ver > InitialRow(c[1])[c[2]].ver

Current(c) == errors = 0 /\ settled(c[1]) /\ Changed(c) => now(c) \in Said \/ fetched(c[1])

Newest(c) ==
  settled(c[1]) =>
    \A w \in Said : w.cell = c => w.ver < db[c].ver \/ (w.ver = db[c].ver /\ w.val = db[c].val)

\* Nobody speaks of a row before it is there.
Unborn(r) ==
  /\ live(r) => born[r] >= 1
  /\ born[r] = 0 => \A w \in Said : w.cell[1] # r

\* The handlers that gather what they will publish, and when.
Gathers(k) ==
  k.wrote # {} =>
    /\ k.op \in {"artifact-create", "POST terminal", "POST session"}
    /\ k.pc \in {"publish", "again", "refresh", "refetch", "retry", "done"}

Repeats(k) == errors = 0 /\ k.pc = "again" => k.wrote \subseteq Heard

HeardInv ==
  /\ errors \in Nat
  /\ Heard \subseteq News
  /\ \A q \in Requests : Gathers(task[q]) /\ Repeats(task[q])
  /\ \A c \in Scope : Current(c) /\ Newest(c)
  /\ \A r \in Created : Unborn(r)

\* The step leaves the handler of q as k and emits the updates in E.
Speaks(q, k, E) == task' = [task EXCEPT ![q] = k] /\ Heard' = Heard \cup E

LEMMA OwedType ==
  ASSUME NEW k \in Task
  PROVE  owed(k) \subseteq News
<1>1. k.wrote \subseteq News /\ k.val \in Requests \cup {None} /\ k.exp \in Expectation
  BY DEF Task
<1>2. \A c \in DOMAIN k.exp : c \in Cells /\ k.exp[c] + 1 \in Int
  BY <1>1 DEF Expectation
<1>3. \A c \in DOMAIN k.exp : [cell |-> c, ver |-> k.exp[c] + 1, val |-> k.val] \in News
  BY <1>1, <1>2, UpdateIs
<1> QED BY <1>1, <1>3 DEF owed

LEMMA SaidMoves ==
  ASSUME NEW q \in Requests, NEW k, NEW E, TypeOK, Speaks(q, k, E)
  PROVE  /\ Said' \subseteq Said \cup E \cup owed(k)
         /\ Heard \cup E \cup owed(k) \subseteq Said'
         /\ \A w \in Said : w \in Said' \/ w \in owed(task[q])
         /\ \A r : fetched(r) => fetched(r)' \/ (task[q].pc = "fetch" /\ task[q].row = r)
         /\ \A r : k.pc = "fetch" /\ k.row = r => fetched(r)'
<1>1. /\ \A p \in Requests : task'[p] = IF p = q THEN k ELSE task[p]
      /\ Heard' = Heard \cup E
  BY DEF Speaks, TypeOK
<1>2. \A p \in Requests : owed(task[p])' = IF p = q THEN owed(k) ELSE owed(task[p])
  <2>1. \A p \in Requests : owed(task[p])' = owed(task'[p])
    BY DEF owed
  <2> QED BY <1>1, <2>1, Zenon
<1>3. Said' = Heard' \cup UNION {owed(task[p])' : p \in Requests}
  BY DEF Said
<1> HIDE DEF Speaks
<1>4. Said' \subseteq Said \cup E \cup owed(k)
  BY <1>1, <1>2, <1>3 DEF Said
<1>5. Heard \cup E \cup owed(k) \subseteq Said'
  BY <1>1, <1>2, <1>3
<1>6. \A w \in Said : w \in Said' \/ w \in owed(task[q])
  BY <1>1, <1>2, <1>3 DEF Said
<1>7. /\ \A r : fetched(r) => fetched(r)' \/ (task[q].pc = "fetch" /\ task[q].row = r)
      /\ \A r : k.pc = "fetch" /\ k.row = r => fetched(r)'
  BY <1>1, Zenon DEF fetched
<1> QED BY <1>4, <1>5, <1>6, <1>7

\* A cell after a step: as before, with a later version that is told of, or
\* of a row that has just been made.
Told(c) ==
  settled(c[1])' =>
    \/ settled(c[1]) /\ db'[c] = db[c]
    \/ settled(c[1]) /\ db'[c].ver > db[c].ver /\ now(c)' \in Said'
    \/ c[1] \in Created /\ born[c[1]] = 0 /\ (now(c)' \in Said' \/ fetched(c[1])')

\* What is said anew is true.
True(w) ==
  \/ w \in Said
  \/ w.cell[1] \in Accounts
  \/ w = now(w.cell)' /\ (live(w.cell[1])' \/ w.cell[1] \in Keys)

LEMMA SpeaksWell ==
  ASSUME NEW q \in Requests, NEW k \in Task, NEW E \in SUBSET News,
         RowsInv, HeardInv, RowsInv', Speaks(q, k, E),
         \A w \in E \cup owed(k) : True(w),
         \A c \in Scope : Told(c),
         \A r \in Created : born'[r] >= born[r] /\ (live(r)' => live(r) \/ born'[r] >= 1),
         Works \/ Fails,
         errors' = 0 =>
           /\ owed(task[q]) \subseteq Heard \cup E \cup owed(k)
           /\ \A r : task[q].pc = "fetch" /\ task[q].row = r =>
                \A p \in Parts : settled(r)' => now(<<r, p>>)' \in Said'
           /\ k.pc = "again" => k.wrote \subseteq Heard \cup E,
         Gathers(k)
  PROVE  HeardInv'
<1>1. errors' \in Nat /\ (errors' = 0 => errors = 0)
  BY DEF Works, Fails, HeardInv
<1>2. TypeOK /\ TypeOK' /\ Heard' = Heard \cup E
  BY DEF RowsInv, Speaks
<1>3. Heard' \subseteq News
  BY <1>2 DEF HeardInv
<1>4. \A p \in Requests : task'[p] = IF p = q THEN k ELSE task[p]
  BY <1>2 DEF Speaks, TypeOK
<1>5. \A p \in Requests : (Gathers(task[p]) /\ Repeats(task[p]))'
  <2> TAKE p \in Requests
  <2>1. CASE p = q
    BY <1>1, <1>2, <1>4, <2>1 DEF Gathers, Repeats
  <2>2. CASE p # q
    <3>1. task'[p] = task[p] /\ Gathers(task[p]) /\ Repeats(task[p])
      BY <1>4, <2>2 DEF HeardInv
    <3> QED BY <1>1, <1>2, <3>1 DEF Gathers, Repeats
  <2> QED BY <2>1, <2>2
<1>6. Said \subseteq News
  <2>1. \A p \in Requests : owed(task[p]) \subseteq News
    BY <1>2, OwedType DEF TypeOK
  <2> QED BY <2>1 DEF Said, HeardInv
<1>7. \A w \in Said' : w \in Said \/ True(w)
  BY <1>2, SaidMoves
<1>8. ASSUME NEW c \in Scope
      PROVE  (Current(c) /\ Newest(c))'
  <2>0. Current(c) /\ Newest(c) /\ c[1] \notin Accounts /\ c[1] \in Rows /\ c[2] \in Parts
        /\ c = <<c[1], c[2]>> /\ c \in Cells
    BY <1>8 DEF HeardInv, Scope, Cells
  <2>1. db[c].ver \in Int /\ db'[c].ver \in Int
    BY <1>2, <2>0 DEF TypeOK, Content
  <2>2. ASSUME settled(c[1])', errors' = 0, Changed(c)'
        PROVE  now(c)' \in Said' \/ fetched(c[1])'
    <3>1. CASE settled(c[1]) /\ db'[c] = db[c]
      <4>1. now(c)' = now(c) /\ (now(c) \in Said \/ fetched(c[1]))
        BY <1>1, <2>0, <2>2, <3>1 DEF Current, Changed, now
      <4>2. CASE now(c) \in Said
        BY <1>2, <2>2, <4>1, <4>2, SaidMoves
      <4>3. CASE fetched(c[1])
        <5>1. CASE task[q].pc = "fetch" /\ task[q].row = c[1]
          <6> DEFINE r == c[1]
                     p == c[2]
          <6>1. now(<<r, p>>)' \in Said'
            BY <2>0, <2>2, <5>1
          <6> QED BY <2>0, <6>1
        <5> QED BY <1>2, <4>3, <5>1, SaidMoves
      <4> QED BY <4>1, <4>2, <4>3
    <3> QED BY <2>2, <3>1 DEF Told
  <2>3. ASSUME settled(c[1])', NEW w \in Said', w.cell = c
        PROVE  w.ver < db'[c].ver \/ (w.ver = db'[c].ver /\ w.val = db'[c].val)
    <3>1. CASE w \in Said
      <4>1. w.ver \in Int
        BY <1>6, <3>1 DEF News
      <4>2. CASE settled(c[1])
        <5>1. w.ver < db[c].ver \/ (w.ver = db[c].ver /\ w.val = db[c].val)
          <6>1. \A x \in Said : x.cell = c =>
                  x.ver < db[c].ver \/ (x.ver = db[c].ver /\ x.val = db[c].val)
            BY <2>0, <4>2, Zenon DEF Newest
          <6> QED BY <2>3, <3>1, <6>1, Zenon
        <5>2. db'[c] = db[c] \/ db'[c].ver > db[c].ver
              \/ (c[1] \in Created /\ born[c[1]] = 0)
          BY <2>3, Zenon DEF Told
        <5>3. ~(c[1] \in Created /\ born[c[1]] = 0)
          BY <2>3, <3>1 DEF HeardInv, Unborn
        <5> QED BY <2>1, <4>1, <5>1, <5>2, <5>3
      <4>3. CASE ~settled(c[1])
        <5>1. c[1] \in Created /\ born[c[1]] = 0
          BY <2>3, <4>3 DEF Told
        <5> QED BY <2>3, <3>1, <5>1 DEF HeardInv, Unborn
      <4> QED BY <4>2, <4>3
    <3>2. CASE w \notin Said
      <4>1. w = now(c)'
        BY <1>7, <2>0, <2>3, <3>2 DEF True
      <4> QED BY <4>1 DEF now
    <3> QED BY <3>1, <3>2
  <2> QED BY <2>2, <2>3 DEF Current, Newest
<1>9. ASSUME NEW r \in Created
      PROVE  Unborn(r)'
  <2>1. born[r] \in Nat /\ born'[r] \in Nat /\ r \notin Accounts /\ r \notin Keys /\ Unborn(r)
    BY <1>2, CreatedApart DEF TypeOK, HeardInv
  <2>2. live(r)' => born'[r] >= 1
    BY <2>1 DEF Unborn
  <2>3. ASSUME born'[r] = 0, NEW w \in Said', w.cell[1] = r
        PROVE  FALSE
    <3>1. w \notin Said
      BY <2>1, <2>3 DEF Unborn
    <3>2. live(r)'
      BY <1>7, <2>1, <2>3, <3>1 DEF True
    <3> QED BY <2>2, <2>3, <3>2
  <2> QED BY <2>2, <2>3 DEF Unborn
<1> QED BY <1>1, <1>3, <1>5, <1>8, <1>9 DEF HeardInv

\* A step that changes no field.
LEMMA Unwritten ==
  ASSUME NEW q \in Requests, NEW k \in Task, NEW E \in SUBSET News,
         RowsInv, HeardInv, RowsInv', Speaks(q, k, E), UNCHANGED <<db, born>>,
         \A w \in E \cup owed(k) :
           \/ w \in Said
           \/ w.cell[1] \in Accounts
           \/ w = now(w.cell) /\ (live(w.cell[1]) \/ w.cell[1] \in Keys),
         Works \/ Fails,
         errors' = 0 =>
           /\ owed(task[q]) \subseteq Heard \cup E \cup owed(k)
           /\ \A r : task[q].pc = "fetch" /\ task[q].row = r =>
                \A p \in Parts : settled(r) => now(<<r, p>>) \in E \cup owed(k)
           /\ k.pc = "again" => k.wrote \subseteq Heard \cup E,
         Gathers(k)
  PROVE  HeardInv'
<1>1. /\ \A r : live(r)' = live(r) /\ settled(r)' = settled(r)
      /\ \A c : now(c)' = now(c)
  BY DEF live, settled, now
<1>2. \A w \in E \cup owed(k) : True(w)
  BY <1>1 DEF True
<1>3. \A c \in Scope : Told(c)
  BY <1>1 DEF Told
<1>4. \A r \in Created : born'[r] >= born[r] /\ (live(r)' => live(r) \/ born'[r] >= 1)
  BY <1>1, CreatedApart DEF RowsInv, TypeOK
<1>5. E \cup owed(k) \subseteq Said'
  BY SaidMoves DEF RowsInv
<1>6. errors' = 0 =>
        \A r : task[q].pc = "fetch" /\ task[q].row = r =>
          \A p \in Parts : settled(r)' => now(<<r, p>>)' \in Said'
  BY <1>1, <1>5
<1> QED BY <1>2, <1>3, <1>4, <1>6, SpeaksWell

\* The handler of a step.
LEMMA NextTask ==
  ASSUME NEW q \in Requests, NEW k, TypeOK, TypeOK', task' = [task EXCEPT ![q] = k]
  PROVE  k \in Task
BY DEF TypeOK

LEMMA PcIs ==
  ASSUME NEW k \in Task, NEW pc
  PROVE  LET l == [k EXCEPT !.pc = pc]
         IN  /\ l.pc = pc /\ l.op = k.op /\ l.row = k.row /\ l.id = k.id /\ l.val = k.val
             /\ l.exp = k.exp /\ l.left = k.left /\ l.wrote = k.wrote
BY DEF Task

\* A step that has nothing to tell.
LEMMA Quiet ==
  ASSUME NEW q \in Requests, NEW k \in Task, RowsInv, HeardInv, RowsInv',
         task' = [task EXCEPT ![q] = k], UNCHANGED <<db, born, news>>, Works \/ Fails,
         owed(task[q]) = owed(k), Gathers(k), k.pc # "again",
         task[q].pc = "fetch" /\ errors' = 0 => ~settled(task[q].row)
  PROVE  HeardInv'
<1>1. Speaks(q, k, {})
  BY DEF Speaks, Heard
<1>2. \A w \in {} \cup owed(k) : w \in Said
  BY DEF Said
<1> QED BY <1>1, <1>2, Unwritten

\* Early on a handler has nothing to tell.
Early == {"idle", "terminal", "tag", "read", "write", "reread", "insert", "fetch"}

LEMMA EarlyOn ==
  ASSUME NEW q \in Requests, HeardInv, task[q].pc \in Early
  PROVE  task[q].wrote = {} /\ owed(task[q]) = {}
BY DEF HeardInv, Gathers, Early, owed

LEMMA GoesOn ==
  ASSUME NEW q \in Requests, NEW pc \in {"tag", "read", "write", "reread", "insert"},
         RowsInv, HeardInv, RowsInv', GoTo(q, pc), UNCHANGED <<db, born, news>>, Works \/ Fails,
         task[q].pc \in Early \ {"fetch"}
  PROVE  HeardInv'
<1> DEFINE k == [task[q] EXCEPT !.pc = pc]
<1>1. k \in Task /\ task' = [task EXCEPT ![q] = k]
  BY ZenonT(60), PcNames, GoToMoves DEF RowsInv, Moved
<1>2. k.pc = pc /\ k.op = task[q].op /\ k.wrote = task[q].wrote
  BY PcIs DEF RowsInv, TypeOK
<1> HIDE DEF k
<1>3. k.wrote = {} /\ owed(task[q]) = {}
  BY <1>2, EarlyOn
<1>4. owed(k) = {} /\ Gathers(k)
  BY <1>2, <1>3 DEF owed, Gathers
<1> QED BY <1>1, <1>2, <1>3, <1>4, Quiet

LEMMA Stops ==
  ASSUME NEW q \in Requests, NEW a \in {"success", "mismatch", "error"},
         RowsInv, HeardInv, RowsInv', Answer(q, a), UNCHANGED <<db, born, news>>, Works \/ Fails,
         task[q].pc \in Early,
         task[q].pc = "fetch" /\ errors' = 0 => ~settled(task[q].row)
  PROVE  HeardInv'
<1> DEFINE k == [task[q] EXCEPT !.pc = "done"]
<1>1. k \in Task /\ task' = [task EXCEPT ![q] = k]
  BY AnswerMoves DEF RowsInv, Moved, Answers
<1>2. k.pc = "done" /\ k.op = task[q].op /\ k.wrote = task[q].wrote
  BY PcIs DEF RowsInv, TypeOK
<1> HIDE DEF k
<1>3. k.wrote = {} /\ owed(task[q]) = {}
  BY <1>2, EarlyOn
<1>4. owed(k) = {} /\ Gathers(k)
  BY <1>2, <1>3 DEF owed, Gathers
<1> QED BY <1>1, <1>2, <1>3, <1>4, Quiet

LEMMA Arrives ==
  ASSUME NEW q \in Requests, NEW op, NEW pc \in Early, NEW r, NEW exp, NEW val,
         RowsInv, HeardInv, RowsInv', Begin(q, op, pc, r, exp, val)
  PROVE  HeardInv'
<1> DEFINE k == [op |-> op, pc |-> pc, row |-> r, id |-> id(r), val |-> val, exp |-> exp,
                 left |-> {}, wrote |-> {}]
<1>1. /\ task' = [task EXCEPT ![q] = k] /\ UNCHANGED <<db, born, news>> /\ Works
      /\ task[q].pc = "idle"
  BY DEF Begin, Works
<1>2. k.pc = pc /\ k.op = op /\ k.wrote = {}
  OBVIOUS
<1> HIDE DEF k
<1>3. k \in Task
  BY <1>1, NextTask DEF RowsInv
<1>4. owed(task[q]) = {}
  BY <1>1, EarlyOn DEF Early
<1>5. owed(k) = {} /\ Gathers(k)
  BY <1>2 DEF owed, Gathers, Early
<1> QED BY <1>1, <1>2, <1>3, <1>4, <1>5, Quiet DEF Early

\* A number for the update is drawn, or not.
LEMMA Emission ==
  ASSUME NEW q, NEW cs, HeardInv, Emit(q, cs)
  PROVE  /\ Works \/ Fails
         /\ \E E \in SUBSET cs : Heard' = Heard \cup E /\ (errors' = 0 => E = cs)
<1>1. CASE Works /\ news' = news \cup {[by |-> q, cells |-> cs]}
  <2>1. [by |-> q, cells |-> cs].cells = cs
    OBVIOUS
  <2>2. Heard' = Heard \cup cs
    BY <1>1, <2>1 DEF Heard
  <2> QED BY <1>1, <2>2
<1>2. CASE Fails /\ news' = news
  <2>1. Heard' = Heard \cup {} /\ errors' # 0 /\ {} \in SUBSET cs
    BY <1>2 DEF Heard, Fails, HeardInv
  <2> QED BY <1>2, <2>1, Zenon
<1> QED BY <1>1, <1>2 DEF Emit

\* A handler emits what it owes, and ends.
LEMMA Ends ==
  ASSUME NEW q \in Requests, NEW cs, RowsInv, HeardInv, RowsInv', Emit(q, cs), Answer(q, "success"),
         UNCHANGED <<db, born>>, task[q].pc # "fetch", errors' = 0 => owed(task[q]) \subseteq cs \cup Heard,
         cs \subseteq News, \A w \in cs : w \in Said \/ w.cell[1] \in Accounts
  PROVE  HeardInv'
<1> DEFINE k == [task[q] EXCEPT !.pc = "done"]
<1>1. k \in Task /\ task' = [task EXCEPT ![q] = k]
  BY AnswerMoves DEF RowsInv, Moved, Answers
<1>2. k.pc = "done" /\ k.op = task[q].op /\ k.wrote = task[q].wrote
  BY PcIs DEF RowsInv, TypeOK
<1> HIDE DEF k
<1>3. owed(k) = {} /\ Gathers(k)
  BY <1>2 DEF owed, Gathers, HeardInv
<1>4. PICK E \in SUBSET cs : Heard' = Heard \cup E /\ (errors' = 0 => E = cs)
  BY Emission
<1>5. Works \/ Fails
  BY Emission
<1>6. Speaks(q, k, E)
  BY <1>1, <1>4 DEF Speaks
<1>7. /\ E \in SUBSET News /\ \A w \in E \cup owed(k) : w \in Said \/ w.cell[1] \in Accounts
      /\ errors' = 0 => owed(task[q]) \subseteq Heard \cup E \cup owed(k)
  BY <1>3, <1>4
<1> QED BY <1>1, <1>2, <1>3, <1>5, <1>6, <1>7, Unwritten

\* Fields take the next version, and the handler will tell.
LEMMA Writes ==
  ASSUME NEW q \in Requests, NEW k \in Task, NEW cs, cs \subseteq DOMAIN task[q].exp,
         RowsInv, HeardInv, RowsInv', task' = [task EXCEPT ![q] = k], Write(q, cs),
         UNCHANGED <<born, news>>, Works,
         \A c \in cs : db[c].ver = task[q].exp[c] /\ (c[1] \in Created => db[c].ver >= 0),
         owed(task[q]) \subseteq owed(k),
         \A w \in owed(k) : w \in Said \/ \E c \in cs : w = now(c)',
         \A c \in cs : c[1] \in Accounts \/ now(c)' \in owed(k),
         task[q].pc # "fetch", k.pc # "again", Gathers(k)
  PROVE  HeardInv'
<1>1. /\ cs \subseteq Cells /\ \A c \in cs : db'[c].ver = db[c].ver + 1
      /\ \A c \in Cells \ cs : db'[c] = db[c]
      /\ \A c \in Cells : db[c].ver \in Int
  BY WriteIs, CellType DEF RowsInv
<1>2. ASSUME NEW r \in Created
      PROVE  live(r)' = live(r)
  <2>1. <<r, "head">> \in Cells /\ <<r, "head">>[1] = r
    BY CreatedApart DEF Cells, Parts
  <2>2. live(r) = (db[<<r, "head">>].ver >= 0)
    BY Zenon DEF live
  <2>3. live(r)' = (db'[<<r, "head">>].ver >= 0)
    BY Zenon DEF live
  <2>4. CASE <<r, "head">> \in cs
    BY <1>1, <2>1, <2>2, <2>3, <2>4
  <2>5. CASE <<r, "head">> \notin cs
    BY <1>1, <2>1, <2>2, <2>3, <2>5
  <2> QED BY <2>4, <2>5
<1>3. ASSUME NEW c \in cs
      PROVE  c[1] \in Accounts \/ live(c[1])' \/ c[1] \in Keys
  <2>1. c \in Cells /\ c = <<c[1], c[2]>> /\ c[1] \in Rows /\ c[2] \in Parts
    BY <1>1, CellPair
  <2>2. ASSUME c[1] \in Created PROVE live(c[1])
    <3>1. Whole(c[1]) /\ db[<<c[1], c[2]>>].ver >= 0
      BY <2>1, <2>2 DEF RowsInv
    <3>2. absent.ver = -1
      BY DEF absent, content
    <3>3. \A p \in Parts : db[<<c[1], p>>].ver >= 0
      BY <2>1, <3>1, <3>2 DEF Whole
    <3> QED BY <3>3 DEF live, Parts
  <2> QED BY <1>2, <2>1, <2>2 DEF Rows, Created
<1>4. ASSUME NEW w \in owed(k)
      PROVE  True(w)
  <2>1. ASSUME NEW c \in cs, w = now(c)'
        PROVE  True(w)
    <3>1. w.cell = c
      BY <2>1 DEF now
    <3> QED BY <1>3, <2>1, <3>1 DEF True
  <2> QED BY <2>1 DEF True
<1>5. Speaks(q, k, {})
  BY DEF Speaks, Heard
<1>6. owed(k) \subseteq Said'
  BY <1>5, SaidMoves DEF RowsInv
<1>7. ASSUME NEW c \in Scope
      PROVE  Told(c)
  <2>1. c[1] \in Created \cup Keys /\ c[1] \notin Accounts /\ c \in Cells
    BY <1>7 DEF Scope, Rows, Created, Cells
  <2>2. settled(c[1])' => settled(c[1])
    BY <1>2, <2>1 DEF settled
  <2>3. CASE c \in cs
    BY <1>1, <1>6, <2>1, <2>2, <2>3 DEF Told
  <2>4. CASE c \notin cs
    BY <1>1, <2>1, <2>2, <2>4 DEF Told
  <2> QED BY <2>3, <2>4
<1>8. \A r \in Created : born'[r] >= born[r]
  BY CreatedApart DEF RowsInv, TypeOK
<1> QED BY <1>2, <1>4, <1>5, <1>7, <1>8, SpeaksWell

\* A row is made; its handler tells of it, now or when it has read it again.
LEMMA Makes ==
  ASSUME NEW q \in Requests, NEW k \in Task, NEW r \in Created, NEW row,
         RowsInv, HeardInv, RowsInv', task' = [task EXCEPT ![q] = k], Insert(r, row), ~live(r),
         UNCHANGED news, Works, row["head"].ver >= 0, owed(task[q]) = {},
         \A w \in owed(k) : \E p \in Parts : w = now(<<r, p>>)',
         \/ k.pc = "fetch" /\ k.row = r
         \/ \A p \in Parts : now(<<r, p>>)' \in owed(k),
         task[q].pc # "fetch", k.pc # "again", Gathers(k)
  PROVE  HeardInv'
<1>1. /\ born[r] \in Nat /\ born'[r] = born[r] + 1 /\ \A s \in Rows \ {r} : born'[s] = born[s]
      /\ \A s \in Rows : born[s] \in Nat
      /\ r \in Rows /\ r \notin Accounts /\ r \notin Keys
  BY CreatedApart DEF Insert, RowsInv, TypeOK
<1>2. /\ \A c \in Cells : c[1] # r => db'[c] = db[c]
      /\ db'[<<r, "head">>] = row["head"]
  BY <1>1, CellPair DEF Insert, Cells, Parts
<1>3. live(r)' /\ \A s \in Rows \ {r} : live(s)' = live(s)
  <2>1. \A s \in Rows : <<s, "head">> \in Cells /\ <<s, "head">>[1] = s
    BY DEF Cells, Parts
  <2> QED BY <1>2, <2>1 DEF live
<1>4. Speaks(q, k, {})
  BY DEF Speaks, Heard
<1>5. /\ owed(k) \subseteq Said'
      /\ k.pc = "fetch" /\ k.row = r => fetched(r)'
  BY <1>4, SaidMoves DEF RowsInv
<1>6. ASSUME NEW w \in owed(k)
      PROVE  True(w)
  <2>1. PICK p \in Parts : w = now(<<r, p>>)'
    OBVIOUS
  <2>2. w.cell = <<r, p>> /\ w.cell[1] = r
    BY <2>1 DEF now
  <2> QED BY <1>3, <2>1, <2>2 DEF True
<1>7. ASSUME NEW c \in Scope
      PROVE  Told(c)
  <2>1. c[1] \in Rows /\ c[2] \in Parts /\ c = <<c[1], c[2]>> /\ c \in Cells
    BY <1>7 DEF Scope, Cells
  <2>2. CASE c[1] = r
    <3>1. settled(c[1])' => born[c[1]] = 0
      BY <1>1, <2>2 DEF settled
    <3>2. now(c)' \in Said' \/ fetched(c[1])'
      <4> DEFINE p == c[2]
      <4>1. c = <<r, p>> /\ p \in Parts
        BY <2>1, <2>2
      <4> HIDE DEF p
      <4> QED BY <1>5, <2>2, <4>1
    <3> QED BY <2>2, <3>1, <3>2 DEF Told
  <2>3. CASE c[1] # r
    <3>1. db'[c] = db[c] /\ settled(c[1])' = settled(c[1])
      BY <1>1, <1>2, <1>3, <2>1, <2>3 DEF settled
    <3> QED BY <3>1 DEF Told
  <2> QED BY <2>2, <2>3
<1>8. \A s \in Created : born'[s] >= born[s] /\ (live(s)' => live(s) \/ born'[s] >= 1)
  BY <1>1, <1>3, CreatedApart
<1>9. Works \/ Fails
  OBVIOUS
<1> QED BY <1>4, <1>6, <1>7, <1>8, <1>9, SpeaksWell

\* Rows are deleted.
LEMMA Removes ==
  ASSUME NEW q \in Requests, NEW k \in Task, NEW rs \in SUBSET Created,
         RowsInv, HeardInv, RowsInv', task' = [task EXCEPT ![q] = k], Delete(rs),
         UNCHANGED <<born, news>>, Works, owed(task[q]) = {}, owed(k) = {},
         task[q].pc # "fetch", k.pc # "again", Gathers(k)
  PROVE  HeardInv'
<1>1. \A c \in Cells : /\ c[1] \in rs => db'[c] = absent
                       /\ c[1] \notin rs => db'[c] = db[c]
  BY DEF Delete
<1>2. /\ \A r \in rs : ~live(r)' /\ r \notin Keys
      /\ \A r \in Rows \ rs : live(r)' = live(r)
  <2>1. \A r \in Rows : <<r, "head">> \in Cells /\ <<r, "head">>[1] = r
    BY DEF Cells, Parts
  <2>2. absent.ver = -1
    BY DEF absent, content
  <2> QED BY <1>1, <2>1, <2>2, CreatedApart DEF live
<1>3. Speaks(q, k, {})
  BY DEF Speaks, Heard
<1>4. ASSUME NEW c \in Scope
      PROVE  Told(c)
  <2>1. c[1] \in Rows /\ c \in Cells
    BY <1>4 DEF Scope, Cells
  <2>2. CASE c[1] \in rs
    BY <1>2, <2>2 DEF Told, settled
  <2>3. CASE c[1] \notin rs
    BY <1>1, <1>2, <2>1, <2>3 DEF Told, settled
  <2> QED BY <2>2, <2>3
<1>5. \A r \in Created : born'[r] >= born[r] /\ (live(r)' => live(r) \/ born'[r] >= 1)
  BY <1>2, CreatedApart DEF RowsInv, TypeOK
<1> QED BY <1>3, <1>4, <1>5, SpeaksWell

----------------------------------------------------------------------------
(* The handlers, once more.                                                *)

LEMMA ReadHeard ==
  ASSUME NEW q \in Requests, NEW early, RowsInv, HeardInv, RowsInv', task[q].pc = "read",
         Read(q, early)
  PROVE  HeardInv'
<1>1. UNCHANGED <<db, born, news>> /\ (Works \/ Fails)
  BY DEF Read
<1>2. CASE GoTo(q, "write")
  BY <1>1, <1>2, GoesOn DEF Early
<1>3. CASE Answer(q, "mismatch") \/ Answer(q, "error")
  BY <1>1, <1>3, Stops DEF Early
<1> QED BY <1>2, <1>3 DEF Read

LEMMA CompareAndWriteHeard ==
  ASSUME NEW q \in Requests, RowsInv, HeardInv, RowsInv', task[q].pc = "write", names(q),
         UNCHANGED <<born, news>>, Matches(q), Works, Write(q, DOMAIN task[q].exp), GoTo(q, "publish")
  PROVE  HeardInv'
<1> DEFINE k == [task[q] EXCEPT !.pc = "publish"]
           cs == DOMAIN task[q].exp
<1>1. k \in Task /\ task' = [task EXCEPT ![q] = k]
  BY PcNames, GoToMoves DEF RowsInv, Moved
<1>2. k.pc = "publish" /\ k.op = task[q].op /\ k.wrote = task[q].wrote /\ k.exp = task[q].exp
      /\ k.val = task[q].val
  BY PcIs DEF RowsInv, TypeOK
<1> HIDE DEF k
<1>3. k.wrote = {} /\ owed(task[q]) = {}
  BY <1>2, EarlyOn DEF Early
<1>4. /\ cs \subseteq Cells
      /\ \A c \in cs : db'[c].ver = task[q].exp[c] + 1 /\ db'[c].val = task[q].val
  BY WriteIs DEF RowsInv
<1>5. owed(k) = {[cell |-> c, ver |-> k.exp[c] + 1, val |-> k.val] : c \in cs}
  BY <1>2 DEF owed, names
<1>6. \A w \in owed(k) : \E c \in cs : w = now(c)'
  BY <1>2, <1>4, <1>5 DEF now
<1>7. \A c \in cs : now(c)' \in owed(k)
  BY <1>2, <1>4, <1>5 DEF now
<1>8. \A c \in cs : db[c].ver = task[q].exp[c] /\ (c[1] \in Created => db[c].ver >= 0)
  <2>1. HandlerOK(q, task[q]) /\ task[q].op \in Ops
    BY DEF RowsInv, names
  <2>2. \A c \in cs : c[1] \in Created => task[q].op # "kv"
    BY <2>1, CreatedApart DEF HandlerOK
  <2>3. \A c \in cs : db[c].ver = task[q].exp[c]
    BY DEF Matches
  <2> QED BY <2>1, <2>2, <2>3 DEF HandlerOK
<1>9. Gathers(k)
  BY <1>3 DEF Gathers
<1> QED BY <1>1, <1>2, <1>3, <1>6, <1>7, <1>8, <1>9, Writes

LEMMA RereadHeard ==
  ASSUME NEW q \in Requests, RowsInv, HeardInv, RowsInv', task[q].pc = "reread", Reread(q)
  PROVE  HeardInv'
<1>1. UNCHANGED <<db, born, news>> /\ (Works \/ Fails)
      /\ (Answer(q, "mismatch") \/ Answer(q, "error"))
  BY DEF Reread
<1> QED BY <1>1, Stops DEF Early

LEMMA PublishHeard ==
  ASSUME NEW q \in Requests, RowsInv, HeardInv, RowsInv', task[q].pc = "publish",
         names(q) \/ task[q].op = "settings", Publish(q)
  PROVE  HeardInv'
<1> DEFINE cs == wanted(q, DOMAIN task[q].exp)
<1>1. task[q] \in Task
  BY DEF RowsInv, TypeOK
<1>2. Emit(q, cs) /\ Answer(q, "success") /\ UNCHANGED <<db, born>>
  BY DEF Publish
<1>3. CASE names(q)
  <2>1. owed(task[q]) = cs
    BY <1>3 DEF owed, wanted, names
  <2>2. cs \subseteq News /\ cs \subseteq Said
    BY <1>1, <2>1, OwedType DEF Said
  <2> QED BY <1>2, <2>1, <2>2, Ends
<1>4. CASE task[q].op = "settings"
  <2>1. task[q].wrote = {} /\ owed(task[q]) = {}
    BY <1>4 DEF HeardInv, Gathers, owed, Ops
  <2>2. PICK r \in Accounts : DOMAIN task[q].exp = {<<r, "head">>}
    BY <1>4 DEF RowsInv, HandlerOK
  <2>3. \A c \in DOMAIN task[q].exp : c[1] \in Accounts
    BY <2>2
  <2>4. \A w \in cs : w.cell[1] \in Accounts
    BY <2>3 DEF wanted
  <2>5. cs \subseteq News
    <3>1. \A c \in DOMAIN task[q].exp : c \in Cells /\ task[q].exp[c] + 1 \in Int
      BY <1>1 DEF Task, Expectation
    <3>2. task[q].val \in Requests \cup {None}
      BY <1>1 DEF Task
    <3>3. \A c \in DOMAIN task[q].exp :
            [cell |-> c, ver |-> task[q].exp[c] + 1, val |-> task[q].val] \in News
      BY <3>1, <3>2, UpdateIs
    <3> QED BY <3>3 DEF wanted
  <2> HIDE DEF cs
  <2> QED BY <1>2, <2>1, <2>4, <2>5, Ends
<1> QED BY <1>3, <1>4

LEMMA UpdateHeard ==
  ASSUME NEW q \in Requests, NEW op \in Ops, NEW rows, NEW fields, NEW early,
         RowsInv, HeardInv, RowsInv', Update(q, op, rows, fields, early)
  PROVE  HeardInv'
<1>1. ASSUME NEW r, NEW exp, Begin(q, op, "read", r, exp, q)
      PROVE  HeardInv'
  BY <1>1, Arrives DEF Early
<1>2. CASE at(q, op, "read") /\ Read(q, early)
  BY <1>2, ReadHeard DEF at
<1>3. CASE at(q, op, "write") /\ CompareAndWrite(q)
  <2>1. CASE Matches(q) /\ Works /\ Write(q, DOMAIN task[q].exp) /\ GoTo(q, "publish")
    BY <1>3, <2>1, CompareAndWriteHeard DEF at, names, CompareAndWrite
  <2>2. CASE UNCHANGED <<db, born, news>> /\ (Works \/ Fails) /\ GoTo(q, "reread")
    BY <1>3, <2>2, GoesOn DEF at, Early
  <2> QED BY <1>3, <2>1, <2>2 DEF CompareAndWrite
<1>4. CASE at(q, op, "reread") /\ Reread(q)
  BY <1>4, RereadHeard DEF at
<1>5. CASE at(q, op, "publish") /\ Publish(q)
  BY <1>5, PublishHeard DEF at, names
<1> QED BY <1>1, <1>2, <1>3, <1>4, <1>5 DEF Update

LEMMA SettingsHeard ==
  ASSUME NEW q \in Requests, RowsInv, HeardInv, RowsInv', UpdateSettings(q)
  PROVE  HeardInv'
<1>1. ASSUME NEW r, NEW exp, Begin(q, "settings", "write", r, exp, q)
      PROVE  HeardInv'
  BY <1>1, Arrives DEF Early
<1>2. ASSUME at(q, "settings", "write"), Works, GoTo(q, "publish"), UNCHANGED <<born, news>>,
             \/ Matches(q) /\ Write(q, DOMAIN task[q].exp)
             \/ UNCHANGED db
      PROVE  HeardInv'
  <2> DEFINE k == [task[q] EXCEPT !.pc = "publish"]
             cs == DOMAIN task[q].exp
  <2>1. k \in Task /\ task' = [task EXCEPT ![q] = k] /\ task[q].pc = "write" /\ task[q].op = "settings"
    BY <1>2, PcNames, GoToMoves DEF RowsInv, Moved, at
  <2>2. k.pc = "publish" /\ k.op = task[q].op /\ k.wrote = task[q].wrote
    BY PcIs DEF RowsInv, TypeOK
  <2> HIDE DEF k
  <2>3. k.wrote = {} /\ owed(task[q]) = {}
    BY <2>1, <2>2, EarlyOn DEF Early
  <2>4. owed(k) = {} /\ Gathers(k)
    BY <2>1, <2>2, <2>3 DEF owed, Gathers, Ops
  <2>5. CASE UNCHANGED db
    BY <1>2, <2>1, <2>2, <2>3, <2>4, <2>5, Quiet
  <2>6. CASE Matches(q) /\ Write(q, cs)
    <3>0. PICK r \in Accounts : cs = {<<r, "head">>}
      BY <2>1 DEF RowsInv, HandlerOK
    <3>1. \A c \in cs : c[1] \in Accounts /\ c[1] \notin Created
      BY <3>0, CreatedApart
    <3>2. \A c \in cs : db[c].ver = task[q].exp[c]
      BY <2>6 DEF Matches
    <3> QED BY <1>2, <2>1, <2>2, <2>3, <2>4, <2>6, <3>1, <3>2, Writes
  <2> QED BY <1>2, <2>5, <2>6
<1>3. CASE at(q, "settings", "write") /\ Fails /\ UNCHANGED <<db, born, news>> /\ GoTo(q, "reread")
  BY <1>3, GoesOn DEF at, Early
<1>4. CASE at(q, "settings", "reread") /\ Reread(q)
  BY <1>4, RereadHeard DEF at
<1>5. CASE at(q, "settings", "publish") /\ Publish(q)
  BY <1>5, PublishHeard DEF at
<1> QED BY <1>1, <1>2, <1>3, <1>4, <1>5 DEF UpdateSettings

LEMMA MutateKVHeard ==
  ASSUME NEW q \in Requests, RowsInv, HeardInv, RowsInv', MutateKV(q)
  PROVE  HeardInv'
<1>1. ASSUME NEW exp, NEW val, Begin(q, "kv", "write", None, exp, val)
      PROVE  HeardInv'
  BY <1>1, Arrives DEF Early
<1>2. ASSUME at(q, "kv", "write"), Matches(q), Works, Write(q, DOMAIN task[q].exp), GoTo(q, "publish"),
             UNCHANGED <<born, news>>
      PROVE  HeardInv'
  BY <1>2, CompareAndWriteHeard DEF at, names, Ops
<1>3. CASE at(q, "kv", "write") /\ UNCHANGED <<db, born, news>> /\ (Works \/ Fails)
           /\ Answer(q, "mismatch")
  BY <1>3, Stops DEF at, Early
<1>4. CASE at(q, "kv", "publish") /\ Publish(q)
  BY <1>4, PublishHeard DEF at, names, Ops
<1> QED BY <1>1, <1>2, <1>3, <1>4 DEF MutateKV

\* INSERT, by a handler that will read the row again.
LEMMA InsertHeard ==
  ASSUME NEW q \in Requests, NEW row, RowsInv, HeardInv, RowsInv', task[q].pc = "insert", ~names(q),
         task[q].row \in Created, InsertRow(q, row), row["head"].ver >= 0
  PROVE  HeardInv'
<1>1. ASSUME ~live(task[q].row), Works, Insert(task[q].row, row), GoTo(q, "fetch"), UNCHANGED news
      PROVE  HeardInv'
  <2> DEFINE k == [task[q] EXCEPT !.pc = "fetch"]
             r == task[q].row
  <2>1. k \in Task /\ task' = [task EXCEPT ![q] = k] /\ r \in Created
    BY <1>1, PcNames, GoToMoves DEF RowsInv, Moved
  <2>2. k.pc = "fetch" /\ k.op = task[q].op /\ k.wrote = task[q].wrote /\ k.row = r
    BY PcIs DEF RowsInv, TypeOK
  <2>3. ~live(r) /\ Insert(r, row)
    BY <1>1
  <2> HIDE DEF k, r
  <2>4. k.wrote = {} /\ owed(task[q]) = {}
    BY <2>2, EarlyOn DEF Early
  <2>5. owed(k) = {} /\ Gathers(k)
    BY <2>2, <2>4 DEF owed, Gathers, names
  <2> QED BY <1>1, <2>1, <2>2, <2>3, <2>4, <2>5, Makes
<1>2. CASE UNCHANGED <<db, born, news>> /\ (Works \/ Fails) /\ Answer(q, "error")
  BY <1>2, Stops DEF Early
<1> QED BY <1>1, <1>2 DEF InsertRow

LEMMA FailsCounts ==
  ASSUME HeardInv, Fails
  PROVE  errors' # 0
BY DEF HeardInv, Fails

LEMMA FetchHeard ==
  ASSUME NEW q \in Requests, RowsInv, HeardInv, RowsInv', task[q].pc = "fetch",
         task[q].op \in {"artifact-create", "POST terminal"}, task[q].row \in Created, Fetch(q)
  PROVE  HeardInv'
<1>1. ASSUME live(task[q].row), Works, UNCHANGED <<db, born, news>>,
             task' = [task EXCEPT ![q].pc = "publish", ![q].wrote = contentsOf(whole(task[q].row))]
      PROVE  HeardInv'
  <2> DEFINE r == task[q].row
             w == contentsOf(whole(r))
             k == [task[q] EXCEPT !.pc = "publish", !.wrote = w]
  <2>0. w = {now(c) : c \in whole(r)}
    BY DEF contentsOf, now
  <2>1. \A x \in w : x = now(x.cell) /\ live(x.cell[1])
    <3>1. \A c \in whole(r) : c[1] = r /\ now(c).cell = c
      BY DEF whole, now
    <3> QED BY <1>1, <2>0, <3>1
  <2>7. \A p \in Parts : now(<<r, p>>) \in w
    BY <2>0 DEF whole
  <2> HIDE DEF w
  <2>2. task' = [task EXCEPT ![q] = k]
    BY <1>1 DEF w, RowsInv, TypeOK
  <2>3. k.pc = "publish" /\ k.op = task[q].op /\ k.wrote = w
    BY DEF RowsInv, TypeOK, Task
  <2> HIDE DEF k
  <2>4. k \in Task
    BY <2>2, NextTask DEF RowsInv
  <2>5. owed(k) = w /\ owed(task[q]) = {} /\ Gathers(k)
    BY <2>3, EarlyOn DEF owed, Gathers, Ops, Early
  <2>6. Speaks(q, k, {})
    BY <1>1, <2>2 DEF Speaks, Heard
  <2> QED BY <1>1, <2>1, <2>3, <2>4, <2>5, <2>6, <2>7, Unwritten
<1>2. ASSUME UNCHANGED <<db, born, news>>, Answer(q, "error"),
             (~live(task[q].row) /\ Works) \/ Fails
      PROVE  HeardInv'
  <2>0. task[q].row \notin Keys
    BY CreatedApart
  <2>2. ASSUME Fails PROVE errors' # 0
    BY <2>2, FailsCounts
  <2>1. errors' = 0 => ~settled(task[q].row)
    <3>1. ~live(task[q].row) => ~settled(task[q].row)
      BY <2>0, Zenon DEF settled
    <3> QED BY <1>2, <2>2, <3>1
  <2> QED BY <1>2, <2>1, Stops DEF Early
<1> QED BY <1>1, <1>2 DEF Fetch

LEMMA CreateHeard ==
  ASSUME NEW q \in Requests, NEW op \in {"artifact-create", "POST terminal"}, NEW rows, NEW row,
         RowsInv, HeardInv, RowsInv', CreateUnlessThere(q, op, rows, row), row["head"].ver >= 0
  PROVE  HeardInv'
<1>1. ASSUME NEW r, Begin(q, op, "read", r, <<>>, q)
      PROVE  HeardInv'
  BY <1>1, Arrives DEF Early
<1>2. task[q].op = op => ~names(q) /\ task[q].row \in Created
  BY DEF names, Ops, RowsInv, HandlerOK, Rowed, Created
<1>3. CASE at(q, op, "read") /\ (Answer(q, "success") \/ Answer(q, "error"))
           /\ UNCHANGED <<db, born, news>> /\ (Works \/ Fails)
  BY <1>3, Stops DEF at, Early
<1>4. CASE at(q, op, "read") /\ GoTo(q, "insert") /\ UNCHANGED <<db, born, news>> /\ Works
  BY <1>4, GoesOn DEF at, Early
<1>5. CASE at(q, op, "insert") /\ InsertRow(q, row)
  BY <1>2, <1>5, InsertHeard DEF at
<1>6. CASE at(q, op, "fetch") /\ Fetch(q)
  BY <1>2, <1>6, FetchHeard DEF at
<1> QED BY <1>1, <1>3, <1>4, <1>5, <1>6 DEF CreateUnlessThere

\* A handler publishes what it has gathered.
LEMMA PublishWroteHeard ==
  ASSUME NEW q \in Requests, RowsInv, HeardInv, RowsInv', task[q].pc \in {"publish", "refresh"},
         task[q].op \in {"artifact-create", "POST terminal", "POST session"},
         Emit(q, task[q].wrote), Answer(q, "success"), UNCHANGED <<db, born>>
  PROVE  HeardInv'
<1>1. owed(task[q]) = task[q].wrote /\ task[q] \in Task
  BY DEF owed, Ops, RowsInv, TypeOK
<1>2. task[q].wrote \subseteq News /\ task[q].wrote \subseteq Said
  BY <1>1, OwedType DEF Said
<1> QED BY <1>1, <1>2, Ends

LEMMA ArtifactCreateHeard ==
  ASSUME NEW q \in Requests, RowsInv, HeardInv, RowsInv', ArtifactCreate(q)
  PROVE  HeardInv'
<1>1. CASE CreateUnlessThere(q, "artifact-create", Artifacts, [p \in Parts |-> content(1, q)])
  <2> DEFINE row == [p \in Parts |-> content(1, q)]
  <2>1. row["head"].ver >= 0
    BY DEF Parts, content
  <2>2. CreateUnlessThere(q, "artifact-create", Artifacts, row)
    BY <1>1
  <2> HIDE DEF row
  <2> QED BY <2>1, <2>2, CreateHeard
<1>2. CASE at(q, "artifact-create", "publish") /\ PublishWrote(q)
  BY <1>2, PublishWroteHeard DEF PublishWrote, at
<1> QED BY <1>1, <1>2 DEF ArtifactCreate

LEMMA CreateTerminalHeard ==
  ASSUME NEW q \in Requests, RowsInv, HeardInv, RowsInv', CreateTerminal(q)
  PROVE  HeardInv'
<1>1. ASSUME NEW body,
             CreateUnlessThere(q, "POST terminal", Terminals, [head |-> content(1, q), body |-> body])
      PROVE  HeardInv'
  <2> DEFINE row == [head |-> content(1, q), body |-> body]
  <2>1. row["head"].ver >= 0
    BY DEF content
  <2>2. CreateUnlessThere(q, "POST terminal", Terminals, row)
    BY <1>1
  <2> HIDE DEF row
  <2> QED BY <2>1, <2>2, CreateHeard
<1>2. CASE /\ at(q, "POST terminal", "publish") /\ Emit(q, task[q].wrote) /\ GoTo(q, "again")
           /\ UNCHANGED <<db, born>>
  <2> DEFINE k == [task[q] EXCEPT !.pc = "again"]
             w == task[q].wrote
  <2>1. k \in Task /\ task' = [task EXCEPT ![q] = k]
    BY <1>2, PcNames, GoToMoves DEF RowsInv, Moved
  <2>0. k.pc = "again" /\ k.op = task[q].op /\ k.wrote = w
    BY PcIs DEF RowsInv, TypeOK
  <2>2. k.pc = "again" /\ k.op = "POST terminal" /\ k.wrote = w
    BY <1>2, <2>0 DEF at
  <2> HIDE DEF k
  <2>3. owed(k) = w /\ owed(task[q]) = w /\ Gathers(k)
    BY <1>2, <2>2 DEF owed, Gathers, Ops, at
  <2>4. PICK E \in SUBSET w : Heard' = Heard \cup E /\ (errors' = 0 => E = w)
    BY <1>2, Emission
  <2>5. Works \/ Fails
    BY <1>2, Emission
  <2>6. Speaks(q, k, E) /\ task[q].pc # "fetch"
    BY <1>2, <2>1, <2>4 DEF Speaks, at
  <2>7. w \subseteq News /\ w \subseteq Said
    BY <2>3, OwedType DEF Said, RowsInv, TypeOK
  <2>8. E \in SUBSET News /\ (\A x \in E \cup owed(k) : x \in Said)
        /\ (errors' = 0 => owed(task[q]) \subseteq Heard \cup E \cup owed(k) /\ k.wrote \subseteq Heard \cup E)
    BY <2>2, <2>3, <2>4, <2>7
  <2> HIDE DEF w
  <2> QED BY <1>2, <2>1, <2>3, <2>5, <2>6, <2>8, Unwritten
<1>3. CASE /\ at(q, "POST terminal", "again") /\ Emit(q, {w \in task[q].wrote : w.cell[2] = "head"})
           /\ Answer(q, "success") /\ UNCHANGED <<db, born>>
  <2> DEFINE cs == {w \in task[q].wrote : w.cell[2] = "head"}
  <2>1. owed(task[q]) = task[q].wrote /\ task[q] \in Task /\ task[q].pc = "again"
    BY <1>3 DEF owed, Ops, RowsInv, TypeOK, at
  <2>2. cs \subseteq News /\ cs \subseteq Said
    BY <2>1, OwedType DEF Said
  <2>0. Works \/ Fails
    BY <1>3, Emission
  <2>3. errors' = 0 => errors = 0
    BY <2>0 DEF Works, Fails, HeardInv
  <2>4. errors' = 0 => owed(task[q]) \subseteq cs \cup Heard
    BY <2>1, <2>3 DEF HeardInv, Repeats
  <2>5. Emit(q, cs) /\ Answer(q, "success") /\ UNCHANGED <<db, born>>
    BY <1>3
  <2> HIDE DEF cs
  <2> QED BY <2>1, <2>2, <2>4, <2>5, Ends
<1> QED BY <1>1, <1>2, <1>3 DEF CreateTerminal

LEMMA DeleteHeard ==
  ASSUME NEW q \in Requests, NEW op \in {"artifact-delete", "DELETE session"}, NEW rows,
         RowsInv, HeardInv, RowsInv', DeleteRow(q, op, rows)
  PROVE  HeardInv'
<1>1. ASSUME NEW r, Begin(q, op, "read", r, <<>>, None)
      PROVE  HeardInv'
  BY <1>1, Arrives DEF Early
<1>2. task[q].op = op => ~names(q) /\ task[q].row \in Created /\ task[q].wrote = {}
  BY DEF names, Ops, RowsInv, HandlerOK, Rowed, Created, HeardInv, Gathers
<1>3. CASE at(q, op, "read") /\ Read(q, FALSE)
  BY <1>3, ReadHeard DEF at
<1>4. ASSUME at(q, op, "write"), Works, Delete({r \in {task[q].row} : Found(q)}),
             GoTo(q, "publish"), UNCHANGED <<born, news>>
      PROVE  HeardInv'
  <2> DEFINE k == [task[q] EXCEPT !.pc = "publish"]
             rs == {r \in {task[q].row} : Found(q)}
  <2>1. k \in Task /\ task' = [task EXCEPT ![q] = k]
    BY <1>4, PcNames, GoToMoves DEF RowsInv, Moved
  <2>0. k.pc = "publish" /\ k.op = task[q].op /\ k.wrote = task[q].wrote
    <3>1. task[q] \in Task
      BY DEF RowsInv, TypeOK
    <3> HIDE DEF rs
    <3> QED BY <3>1, PcIs
  <2>2. k.pc = "publish" /\ k.op = op /\ k.wrote = {} /\ task[q].op = op /\ task[q].pc = "write"
    <3>1. task[q].op = op /\ task[q].pc = "write"
      BY <1>4 DEF at
    <3> QED BY <1>2, <2>0, <3>1, Zenon
  <2>3. rs \in SUBSET Created /\ Delete(rs)
    BY <1>2, <1>4 DEF at
  <2> HIDE DEF k, rs
  <2>4. owed(k) = {} /\ owed(task[q]) = {} /\ Gathers(k)
    BY <1>2, <2>2, EarlyOn DEF owed, Gathers, Ops, Early
  <2> QED BY <1>4, <2>1, <2>2, <2>3, <2>4, Removes
<1>5. CASE at(q, op, "write") /\ Answer(q, "error") /\ UNCHANGED <<db, born, news>> /\ Fails
  BY <1>5, Stops DEF at, Early
<1>6. CASE at(q, op, "publish") /\ Emit(q, {}) /\ Answer(q, "success") /\ UNCHANGED <<db, born>>
  <2>1. owed(task[q]) = {} /\ task[q].pc = "publish"
    BY <1>2, <1>6 DEF owed, at, names
  <2> QED BY <1>6, <2>1, Ends
<1> QED BY <1>1, <1>3, <1>4, <1>5, <1>6 DEF DeleteRow

LEMMA DeleteTerminalHeard ==
  ASSUME NEW q \in Requests, RowsInv, HeardInv, RowsInv', DeleteTerminal(q)
  PROVE  HeardInv'
<1>1. ASSUME NEW r, Begin(q, "DELETE terminal", "write", r, <<>>, None)
      PROVE  HeardInv'
  BY <1>1, Arrives DEF Early
<1>2. ASSUME at(q, "DELETE terminal", "write"), UNCHANGED <<born, news>>, Works, Answer(q, "success"),
             Delete({task[q].row} \cup {s \in Sessions : Home[s] = task[q].row})
      PROVE  HeardInv'
  <2> DEFINE k == [task[q] EXCEPT !.pc = "done"]
             rs == {task[q].row} \cup {s \in Sessions : Home[s] = task[q].row}
  <2>1. k \in Task /\ task' = [task EXCEPT ![q] = k]
    BY <1>2, AnswerMoves DEF RowsInv, Moved, Answers
  <2>0. k.pc = "done" /\ k.op = task[q].op /\ k.wrote = task[q].wrote
    BY PcIs DEF RowsInv, TypeOK
  <2>2. k.pc = "done" /\ k.op = "DELETE terminal" /\ k.wrote = task[q].wrote /\ task[q].pc = "write"
    BY <1>2, <2>0 DEF at
  <2>3. rs \in SUBSET Created /\ Delete(rs)
    BY <1>2 DEF at, Created, RowsInv, HandlerOK, Rowed
  <2> HIDE DEF k, rs
  <2>4. owed(k) = {} /\ owed(task[q]) = {} /\ Gathers(k)
    BY <2>2, EarlyOn DEF owed, Gathers, Ops, Early
  <2> QED BY <1>2, <2>1, <2>2, <2>3, <2>4, Removes
<1>3. CASE at(q, "DELETE terminal", "write") /\ Answer(q, "error") /\ UNCHANGED <<db, born, news>> /\ Fails
  BY <1>3, Stops DEF at, Early
<1> QED BY <1>1, <1>2, <1>3 DEF DeleteTerminal

\* CreateSession: a turn of the refresh that changes no field.
LEMMA RefreshingHeard ==
  ASSUME NEW q \in Requests, NEW k, RowsInv, HeardInv, RowsInv', task' = [task EXCEPT ![q] = k],
         task[q].op = "POST session", task[q].pc \in {"tag", "refresh", "refetch", "retry"},
         k.op = task[q].op, k.wrote = task[q].wrote, k.pc \in {"refresh", "refetch", "retry"},
         UNCHANGED <<db, born, news>>, Works \/ Fails
  PROVE  HeardInv'
<1>1. k \in Task
  BY NextTask DEF RowsInv
<1>2. owed(task[q]) = owed(k) /\ Gathers(k)
  BY DEF owed, Gathers, Ops
<1> QED BY <1>1, <1>2, Quiet

LEMMA RefreshHeard ==
  ASSUME NEW q \in Requests, RowsInv, HeardInv, RowsInv', task[q].op = "POST session",
         task[q].pc \in {"refresh", "retry"}, Refresh(q)
  PROVE  HeardInv'
<1>0. PICK c : c = cell(q)
  OBVIOUS
<1>1. /\ c \in Cells /\ c[1] = task[q].row /\ c \in DOMAIN task[q].exp /\ c[2] \in Parts
      /\ c = <<c[1], c[2]>>
  BY <1>0, SessionTask DEF cell, part, whole, Parts
<1>2. task[q] \in Task /\ task[q].row \in Created
  BY SessionTask
<1>3. ASSUME WriteStale(q), UNCHANGED <<born, news>>,
             task' = [task EXCEPT ![q].pc = "refresh", ![q].left = @ \ {part(q)},
                                  ![q].wrote = @ \cup wanted(q, {cell(q)})]
      PROVE  HeardInv'
  <2> DEFINE l == task[q].left \ {part(q)}
             w == wanted(q, {cell(q)})
             k == [task[q] EXCEPT !.pc = "refresh", !.left = l, !.wrote = task[q].wrote \cup w]
  <2>1. Found(q) /\ db[c].ver = task[q].exp[c] /\ Works /\ Write(q, {c})
    BY <1>0, <1>3 DEF WriteStale
  <2>2. w = {now(c)'}
    <3>1. db'[c].ver = task[q].exp[c] + 1 /\ db'[c].val = task[q].val
      <4>1. {c} \subseteq DOMAIN task[q].exp
        BY <1>1
      <4> QED BY <2>1, <4>1, WriteIs DEF RowsInv
    <3>2. w = {[cell |-> c, ver |-> task[q].exp[c] + 1, val |-> task[q].val]}
      BY <1>0 DEF wanted
    <3> HIDE DEF w, l, k
    <3> QED BY <3>1, <3>2 DEF now
  <2> HIDE DEF l, w
  <2>3. task' = [task EXCEPT ![q] = k]
    BY <1>3 DEF l, w, RowsInv, TypeOK
  <2>4. k.op = task[q].op /\ k.pc = "refresh" /\ k.wrote = task[q].wrote \cup w
    BY <1>2 DEF Task
  <2> HIDE DEF k
  <2>5. k \in Task
    BY <2>3, NextTask DEF RowsInv
  <2>6. owed(task[q]) = task[q].wrote /\ owed(k) = task[q].wrote \cup w /\ Gathers(k)
    BY <2>4 DEF owed, Gathers, Ops
  <2>7. db[c].ver >= 0
    <3>1. live(task[q].row) /\ Whole(task[q].row)
      BY <1>2, <2>1 DEF Found, RowsInv
    <3>2. absent.ver = -1
      BY DEF absent, content
    <3>3. \A p \in Parts : db[<<task[q].row, p>>].ver >= 0
      BY <3>1, <3>2 DEF Whole, live, Parts
    <3>4. db[<<c[1], c[2]>>].ver >= 0
      BY <1>1, <3>3
    <3> QED BY <1>1, <3>4
  <2>8. task[q].wrote \subseteq Said
    BY <2>6 DEF Said
  <2>9. /\ {c} \subseteq DOMAIN task[q].exp
        /\ \A d \in {c} : db[d].ver = task[q].exp[d] /\ (d[1] \in Created => db[d].ver >= 0)
        /\ \A x \in owed(k) : x \in Said \/ \E d \in {c} : x = now(d)'
        /\ \A d \in {c} : now(d)' \in owed(k)
    BY <1>1, <2>1, <2>2, <2>6, <2>7, <2>8
  <2>10. task[q].pc # "fetch" /\ k.pc # "again" /\ owed(task[q]) \subseteq owed(k)
    BY <2>4, <2>6
  <2>11. UNCHANGED <<born, news>>
    BY <1>3
  <2>12. PICK cs : cs = {c}
    OBVIOUS
  <2>13. /\ cs \subseteq DOMAIN task[q].exp /\ Write(q, cs) /\ Works
         /\ \A d \in cs : db[d].ver = task[q].exp[d] /\ (d[1] \in Created => db[d].ver >= 0)
         /\ \A x \in owed(k) : x \in Said \/ \E d \in cs : x = now(d)'
         /\ \A d \in cs : d[1] \in Accounts \/ now(d)' \in owed(k)
    BY <2>1, <2>9, <2>12
  <2>14. task[q].pc # "fetch" /\ k.pc # "again" /\ owed(task[q]) \subseteq owed(k) /\ Gathers(k)
    BY <2>6, <2>10
  <2> QED BY <2>3, <2>5, <2>11, <2>13, <2>14, Writes
<1>4. ASSUME UNCHANGED <<db, born, news>>, Works \/ Fails, task' = [task EXCEPT ![q].pc = "refetch"]
      PROVE  HeardInv'
  <2> DEFINE k == [task[q] EXCEPT !.pc = "refetch"]
  <2>1. task' = [task EXCEPT ![q] = k]
    BY <1>4 DEF RowsInv, TypeOK
  <2>2. k.op = task[q].op /\ k.pc = "refetch" /\ k.wrote = task[q].wrote
    BY <1>2, PcIs
  <2> HIDE DEF k
  <2> QED BY <1>4, <2>1, <2>2, RefreshingHeard
<1>5. ASSUME UNCHANGED <<db, born, news>>, Works \/ Fails,
             task' = [task EXCEPT ![q].pc = "refresh", ![q].left = @ \ {part(q)}]
      PROVE  HeardInv'
  <2> DEFINE k == [task[q] EXCEPT !.pc = "refresh", !.left = @ \ {part(q)}]
  <2>1. task' = [task EXCEPT ![q] = k]
    BY <1>5 DEF RowsInv, TypeOK
  <2>2. k.op = task[q].op /\ k.pc = "refresh" /\ k.wrote = task[q].wrote
    BY <1>2 DEF Task
  <2> HIDE DEF k
  <2> QED BY <1>5, <2>1, <2>2, RefreshingHeard
<1> QED BY <1>3, <1>4, <1>5 DEF Refresh

LEMMA RefetchHeard ==
  ASSUME NEW q \in Requests, RowsInv, HeardInv, RowsInv', task[q].op = "POST session",
         task[q].pc = "refetch", Refetch(q)
  PROVE  HeardInv'
<1>1. task[q] \in Task
  BY SessionTask
<1>2. ASSUME UNCHANGED <<db, born, news>>, Works,
             task' = [task EXCEPT ![q].pc = "retry", ![q].exp[cell(q)] = db[cell(q)].ver]
      PROVE  HeardInv'
  <2> DEFINE e == [task[q].exp EXCEPT ![cell(q)] = db[cell(q)].ver]
             k == [task[q] EXCEPT !.pc = "retry", !.exp = e]
  <2>0. task' = [task EXCEPT ![q].pc = "retry", ![q].exp = e]
    BY <1>2
  <2>1. task' = [task EXCEPT ![q] = k]
    <3> HIDE DEF e
    <3> QED BY <2>0 DEF RowsInv, TypeOK
  <2> HIDE DEF e
  <2>2. k.op = task[q].op /\ k.pc = "retry" /\ k.wrote = task[q].wrote
    BY <1>1 DEF Task
  <2> HIDE DEF k
  <2> QED BY <1>2, <2>1, <2>2, RefreshingHeard
<1>3. ASSUME UNCHANGED <<db, born, news>>, Works \/ Fails,
             task' = [task EXCEPT ![q].pc = "refresh", ![q].left = @ \ {part(q)}]
      PROVE  HeardInv'
  <2> DEFINE k == [task[q] EXCEPT !.pc = "refresh", !.left = @ \ {part(q)}]
  <2>1. task' = [task EXCEPT ![q] = k]
    BY <1>3 DEF RowsInv, TypeOK
  <2>2. k.op = task[q].op /\ k.pc = "refresh" /\ k.wrote = task[q].wrote
    BY <1>1 DEF Task
  <2> HIDE DEF k
  <2> QED BY <1>3, <2>1, <2>2, RefreshingHeard
<1> QED BY <1>2, <1>3 DEF Refetch

LEMMA LookUpTagHeard ==
  ASSUME NEW q \in Requests, RowsInv, HeardInv, RowsInv', at(q, "POST session", "tag"), LookUpTag(q)
  PROVE  HeardInv'
<1>1. task[q].op = "POST session" /\ task[q].pc = "tag" /\ task[q] \in Task
  BY SessionTask DEF at
<1>2. ASSUME UNCHANGED <<db, born, news>>, Works, NEW stale,
             task' = [task EXCEPT ![q].pc = "refresh", ![q].id = id(task[q].row), ![q].left = stale,
                                  ![q].exp = versionsOf(whole(task[q].row))]
      PROVE  HeardInv'
  <2> DEFINE i == id(task[q].row)
             e == versionsOf(whole(task[q].row))
             k == [task[q] EXCEPT !.pc = "refresh", !.id = i, !.left = stale, !.exp = e]
  <2> HIDE DEF i, e
  <2>1. task' = [task EXCEPT ![q] = k]
    BY <1>2 DEF i, e, RowsInv, TypeOK
  <2>2. k.op = task[q].op /\ k.pc = "refresh" /\ k.wrote = task[q].wrote
    BY <1>1 DEF Task
  <2> HIDE DEF k
  <2> QED BY <1>1, <1>2, <2>1, <2>2, RefreshingHeard
<1>3. CASE GoTo(q, "insert") /\ UNCHANGED <<db, born, news>> /\ Works
  BY <1>1, <1>3, GoesOn DEF Early
<1>4. CASE Answer(q, "error") /\ UNCHANGED <<db, born, news>> /\ Fails
  BY <1>1, <1>4, Stops DEF Early
<1> QED BY <1>2, <1>3, <1>4 DEF LookUpTag

LEMMA InsertSessionHeard ==
  ASSUME NEW q \in Requests, RowsInv, HeardInv, RowsInv', InsertSession(q)
  PROVE  HeardInv'
<1>1. ASSUME at(q, "POST session", "insert"), UNCHANGED news, Works, ~live(task[q].row),
             Insert(task[q].row, [p \in Parts |-> content(0, q)]),
             task' = [task EXCEPT ![q].pc = "publish",
                                  ![q].wrote = {[cell |-> c, ver |-> 0, val |-> q] :
                                                 c \in whole(task[q].row)}]
      PROVE  HeardInv'
  <2>0. PICK r : r = task[q].row
    OBVIOUS
  <2> DEFINE w == {[cell |-> c, ver |-> 0, val |-> q] : c \in whole(r)}
             k == [task[q] EXCEPT !.pc = "publish", !.wrote = w]
             row == [p \in Parts |-> content(0, q)]
  <2>1. /\ task[q] \in Task /\ r \in Created /\ task[q].op = "POST session" /\ task[q].pc = "insert"
    BY <1>1, <2>0, SessionTask DEF at
  <2>2. Insert(r, row) /\ row["head"].ver >= 0 /\ ~live(r)
    <3>1. row["head"].ver = 0
      BY DEF Parts, content
    <3> HIDE DEF k, w
    <3>2. Insert(r, row) /\ ~live(r)
      BY <1>1, <2>0
    <3> QED BY <3>1, <3>2
  <2>3. w = {now(<<r, p>>)' : p \in Parts}
    <3>1. \A p \in Parts : db'[<<r, p>>].ver = 0 /\ db'[<<r, p>>].val = q
      <4> TAKE p \in Parts
      <4>1. <<r, p>> \in Cells /\ <<r, p>>[1] = r /\ <<r, p>>[2] = p
        BY <2>1, CreatedApart DEF Cells
      <4>2. db'[<<r, p>>] = content(0, q)
        BY <1>1, <2>0, <4>1 DEF Insert
      <4> QED BY <4>2 DEF content
    <3>2. w = {[cell |-> <<r, p>>, ver |-> 0, val |-> q] : p \in Parts}
      BY DEF whole
    <3> HIDE DEF w, k, row
    <3> QED BY <3>1, <3>2 DEF now
  <2>4. task' = [task EXCEPT ![q] = k]
    BY <1>1, <2>0 DEF RowsInv, TypeOK
  <2> HIDE DEF w, row
  <2>5. k.pc = "publish" /\ k.op = task[q].op /\ k.wrote = w
    BY <2>1 DEF Task
  <2> HIDE DEF k
  <2>6. k \in Task
    BY <2>4, NextTask DEF RowsInv
  <2>7. owed(k) = w /\ owed(task[q]) = {} /\ Gathers(k)
    BY <2>1, <2>5, EarlyOn DEF owed, Gathers, Ops, Early
  <2>8. /\ \A x \in owed(k) : \E p \in Parts : x = now(<<r, p>>)'
        /\ \A p \in Parts : now(<<r, p>>)' \in owed(k)
    BY <2>3, <2>7
  <2> QED BY <1>1, <2>1, <2>2, <2>4, <2>5, <2>6, <2>7, <2>8, Makes
<1>2. CASE /\ at(q, "POST session", "insert") /\ UNCHANGED <<db, born, news>> /\ (Works \/ Fails)
           /\ Answer(q, "error")
  BY <1>2, Stops DEF at, Early
<1>3. CASE at(q, "POST session", "publish") /\ PublishWrote(q)
  BY <1>3, PublishWroteHeard DEF PublishWrote, at
<1> QED BY <1>1, <1>2, <1>3 DEF InsertSession

LEMMA CreateSessionHeard ==
  ASSUME NEW q \in Requests, RowsInv, HeardInv, RowsInv', CreateSession(q)
  PROVE  HeardInv'
<1>1. ASSUME NEW s, Begin(q, "POST session", "terminal", s, <<>>, q)
      PROVE  HeardInv'
  BY <1>1, Arrives DEF Early
<1>2. CASE /\ at(q, "POST session", "terminal") /\ GoTo(q, "tag")
           /\ UNCHANGED <<db, born, news>> /\ Works
  BY <1>2, GoesOn DEF at, Early
<1>3. CASE /\ at(q, "POST session", "terminal") /\ Answer(q, "error")
           /\ UNCHANGED <<db, born, news>> /\ (Works \/ Fails)
  BY <1>3, Stops DEF at, Early
<1>4. CASE at(q, "POST session", "tag") /\ LookUpTag(q)
  BY <1>4, LookUpTagHeard
<1>5. CASE (at(q, "POST session", "refresh") \/ at(q, "POST session", "retry")) /\ Refresh(q)
  BY <1>5, RefreshHeard DEF at
<1>6. CASE at(q, "POST session", "refetch") /\ Refetch(q)
  BY <1>6, RefetchHeard DEF at
<1>7. CASE /\ at(q, "POST session", "refresh") /\ Answer(q, "success") /\ UNCHANGED <<db, born>>
           /\ IF task[q].wrote = {} THEN Works /\ UNCHANGED news ELSE Emit(q, task[q].wrote)
  <2>1. task[q].op = "POST session" /\ task[q].pc = "refresh"
    BY <1>7 DEF at
  <2>2. CASE task[q].wrote # {}
    BY <1>7, <2>1, <2>2, PublishWroteHeard
  <2>3. CASE task[q].wrote = {}
    <3> DEFINE k == [task[q] EXCEPT !.pc = "done"]
    <3>1. k \in Task /\ task' = [task EXCEPT ![q] = k]
      BY <1>7, AnswerMoves DEF RowsInv, Moved, Answers
    <3>2. k.pc = "done" /\ k.op = task[q].op /\ k.wrote = task[q].wrote
      BY PcIs DEF RowsInv, TypeOK
    <3> HIDE DEF k
    <3>3. owed(k) = {} /\ owed(task[q]) = {} /\ Gathers(k)
      BY <2>1, <2>3, <3>2 DEF owed, Gathers, Ops
    <3> QED BY <1>7, <2>1, <2>3, <3>1, <3>2, <3>3, Quiet
  <2> QED BY <2>2, <2>3
<1>8. CASE InsertSession(q)
  BY <1>8, InsertSessionHeard
<1> QED BY <1>1, <1>2, <1>3, <1>4, <1>5, <1>6, <1>7, <1>8 DEF CreateSession

LEMMA HandleHeard ==
  ASSUME NEW q \in Requests, RowsInv, HeardInv, RowsInv', Handle(q)
  PROVE  HeardInv'
<1>1. CASE \/ UpdateMetadata(q) \/ UpdateState(q) \/ TerminalUpdateMetadata(q)
           \/ TerminalUpdateState(q) \/ ArtifactUpdate(q) \/ UpdateArtifact(q)
  BY <1>1, UpdateHeard
  DEF UpdateMetadata, UpdateState, TerminalUpdateMetadata, TerminalUpdateState, ArtifactUpdate,
      UpdateArtifact, Ops
<1>2. CASE UpdateSettings(q) \/ MutateKV(q)
  BY <1>2, SettingsHeard, MutateKVHeard
<1>3. CASE ArtifactCreate(q) \/ CreateArtifact(q)
  BY <1>3, ArtifactCreateHeard DEF CreateArtifact
<1>4. CASE ArtifactDelete(q) \/ DeleteArtifact(q) \/ DeleteSession(q)
  BY <1>4, DeleteHeard DEF ArtifactDelete, DeleteArtifact, DeleteSession
<1>5. CASE CreateTerminal(q) \/ DeleteTerminal(q)
  BY <1>5, CreateTerminalHeard, DeleteTerminalHeard
<1>6. CASE CreateSession(q)
  BY <1>6, CreateSessionHeard
<1> QED BY <1>1, <1>2, <1>3, <1>4, <1>5, <1>6 DEF Handle

LEMMA HeardNext ==
  ASSUME RowsInv, HeardInv, [Next]_vars
  PROVE  RowsInv' /\ HeardInv'
<1>1. RowsInv'
  BY RowsStep DEF Good
<1>2. CASE Next
  BY <1>1, <1>2, HandleHeard DEF Next
<1>3. CASE UNCHANGED vars
  <2>1. UNCHANGED <<db, born, task, news, errors>>
    BY <1>3 DEF vars
  <2>2. Heard' = Heard /\ Said' = Said
    BY <2>1 DEF Heard, Said, owed
  <2>3. \A q \in Requests : (Gathers(task[q]) /\ Repeats(task[q]))'
    BY <2>1, <2>2 DEF HeardInv, Gathers, Repeats
  <2>4. \A c \in Scope : (Current(c) /\ Newest(c))'
    <3>1. /\ \A r : settled(r)' = settled(r) /\ fetched(r)' = fetched(r)
          /\ \A c : now(c)' = now(c) /\ Changed(c)' = Changed(c)
      BY <2>1 DEF settled, live, fetched, now, Changed
    <3> QED BY <2>1, <2>2, <3>1, Zenon DEF HeardInv, Current, Newest
  <2>5. \A r \in Created : Unborn(r)'
    BY <2>1, <2>2, Zenon DEF HeardInv, Unborn, live
  <2> QED BY <1>1, <2>1, <2>2, <2>3, <2>4, <2>5 DEF HeardInv
<1> QED BY <1>1, <1>2, <1>3

LEMMA HeardInit == Init => HeardInv
<1> SUFFICES ASSUME Init PROVE HeardInv
  OBVIOUS
<1>1. PICK there \in SUBSET Rows :
        /\ db = [c \in Cells |-> IF c[1] \in there THEN InitialRow(c[1])[c[2]] ELSE absent]
        /\ born = [r \in Rows |-> IF r \in there THEN 1 ELSE 0]
  BY DEF Init
<1>2. \A q \in Requests : task[q].op = "none" /\ task[q].pc = "idle" /\ task[q].wrote = {}
  BY DEF Init, idle
<1>3. Heard = {} /\ Said = {}
  <2>1. \A q \in Requests : owed(task[q]) = {}
    BY <1>2 DEF owed
  <2> QED BY <2>1 DEF Heard, Said, Init
<1>4. \A q \in Requests : Gathers(task[q]) /\ Repeats(task[q])
  BY <1>2 DEF Gathers, Repeats
<1>5. absent.val = None /\ absent.ver = -1
  BY DEF absent, content
<1>6. ASSUME NEW c \in Scope
      PROVE  Current(c) /\ Newest(c)
  <2>1. c \in Cells /\ c[1] \in Rows /\ c[2] \in Parts /\ c[1] \in Created \cup Keys
    BY <1>6 DEF Scope, Cells, Rows, Created
  <2>2. /\ \E v \in {-1, 0, 1} : InitialRow(c[1])[c[2]] = content(v, None)
    <3>1. CASE c[1] \in Sessions
      <4>1. InitialRow(c[1]) = [o \in Parts |-> content(0, None)]
        BY <3>1, RowsOK DEF InitialRow
      <4> QED BY <2>1, <4>1
    <3>2. CASE c[1] \in Terminals
      BY <2>1, <3>2, RowsOK DEF InitialRow, Parts
    <3>3. CASE c[1] \in Artifacts
      <4>1. InitialRow(c[1]) = [o \in Parts |-> content(1, None)]
        BY <3>3, RowsOK DEF InitialRow
      <4> QED BY <2>1, <4>1
    <3>4. CASE c[1] \in Keys
      <4>1. c[1] \notin Sessions /\ c[1] \notin Terminals /\ c[1] \notin Artifacts
        BY <3>4, CreatedApart DEF Created
      <4> QED BY <2>1, <4>1 DEF InitialRow, Parts, absent
    <3> QED BY <2>1, <3>1, <3>2, <3>3, <3>4 DEF Created
  <2>3. PICK v \in {-1, 0, 1} : InitialRow(c[1])[c[2]] = content(v, None)
    BY <2>2
  <2>4. db[c] = content(v, None) \/ db[c] = absent
    BY <1>1, <2>1, <2>3
  <2>5. ~Changed(c)
    BY <1>5, <2>3, <2>4 DEF Changed, content
  <2> QED BY <1>3, <2>5 DEF Current, Newest
<1>7. ASSUME NEW r \in Created
      PROVE  Unborn(r)
  <2>1. r \in Rows /\ <<r, "head">> \in Cells /\ <<r, "head">>[1] = r
    BY CreatedApart DEF Cells, Parts
  <2>2. CASE r \in there
    BY <1>1, <1>3, <2>1, <2>2 DEF Unborn
  <2>3. CASE r \notin there
    <3>1. ~live(r)
      BY <1>1, <1>5, <2>1, <2>3 DEF live
    <3> QED BY <1>3, <3>1 DEF Unborn
  <2> QED BY <2>2, <2>3
<1> QED BY <1>3, <1>4, <1>6, <1>7 DEF HeardInv, Init

\* What the invariant is for.
LEMMA HeardSuffices ==
  ASSUME RowsInv, HeardInv
  PROVE  ReplicasConverge
<1> SUFFICES ASSUME errors = 0, \A q \in Requests : task[q].pc \in {"idle", "done"},
                    NEW c \in Scope, live(c[1]), born[c[1]] <= 1, Changed(c)
             PROVE  LET heard == {w \in Heard : w.cell = c}
                    IN  /\ now(c) \in heard
                        /\ \A w \in heard : w.ver < db[c].ver \/ w.val = db[c].val
  BY DEF ReplicasConverge, Scope, Heard, now, Changed
<1>1. Said = Heard
  <2>1. \A q \in Requests : owed(task[q]) = {}
    <3> TAKE q \in Requests
    <3>1. Gathers(task[q]) /\ task[q].pc \in {"idle", "done"}
      BY DEF HeardInv
    <3> QED BY <3>1 DEF Gathers, owed
  <2> QED BY <2>1 DEF Said
<1>2. settled(c[1]) /\ ~fetched(c[1])
  BY DEF settled, fetched
<1>3. Current(c) /\ Newest(c)
  BY DEF HeardInv
<1>4. now(c) \in Heard /\ now(c).cell = c
  BY <1>1, <1>2, <1>3 DEF Current, now
<1>5. \A w \in Heard : w.cell = c => w.ver < db[c].ver \/ w.val = db[c].val
  BY <1>1, <1>2, <1>3 DEF Newest
<1> QED BY <1>4, <1>5

\* When all handlers have ended, a client that keeps the highest version it has
\* heard of every field has the rows as they are, in whatever order the updates
\* came in: of each field the newest content has been emitted, and no other
\* content ever was under its version or a later one.
THEOREM ReplicasEnd == Spec => []ReplicasConverge
<1>1. RowsInv /\ HeardInv /\ [Next]_vars => RowsInv' /\ HeardInv'
  BY HeardNext
<1>2. RowsInv /\ HeardInv => ReplicasConverge
  BY HeardSuffices
<1> QED BY <1>1, <1>2, RowsInit, HeardInit, PTL DEF Spec
================================================================================
