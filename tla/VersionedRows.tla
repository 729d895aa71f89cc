------------------------------ MODULE VersionedRows ------------------------------
(***************************************************************************)
(* What the server promises to clients that write versioned fields: a       *)
(* write names the version it replaces in every field it touches; it is     *)
(* told to have succeeded only if all of those were the current versions    *)
(* at one moment, at which all of its fields changed together, each to the  *)
(* next version.  A refusal says nothing about the versions: it is also     *)
(* how a failure of the database is reported.                               *)
(***************************************************************************)
EXTENDS Integers

CONSTANTS
  Requests,   \* the writes of the clients
  Rows,
  Parts,      \* the versioned fields of a row
  Rewritten,  \* the rows that may be rewritten without that promise
  None        \* no content, and no request yet

Cells == Rows \X Parts

Absent == [ver |-> -1, val |-> None]

VARIABLES
  store,   \* every field with its version, and the request it is from
  asked,   \* the versions each request names
  told     \* "waiting", "success" or "refused"

vars == <<store, asked, told>>

Init ==
  /\ \A c \in Cells : store[c] = Absent \/ store[c].ver \in {0, 1}
  /\ asked = [q \in Requests |-> None]
  /\ told = [q \in Requests |-> "waiting"]

\* The request may come with any expectation.
Ask(q) ==
  /\ asked[q] = None
  /\ \A other \in Requests \ {q} : asked'[other] = asked[other]
  /\ UNCHANGED <<store, told>>

Succeed(q) ==
  /\ asked[q] # None
  /\ told[q] = "waiting"
  /\ \A c \in DOMAIN asked[q] : store[c].ver = asked[q][c]
  /\ told' = [told EXCEPT ![q] = "success"]
  /\ \A c \in Cells :
       IF c \in DOMAIN asked[q]
         THEN /\ store'[c].ver = store[c].ver + 1
              /\ store'[c].val \in {q, None}
         ELSE store'[c] = store[c]
  /\ UNCHANGED asked

Refuse(q) ==
  /\ asked[q] # None
  /\ told[q] = "waiting"
  /\ told' = [told EXCEPT ![q] = "refused"]
  /\ UNCHANGED <<store, asked>>

\* The server rewrites a field on behalf of a request that names no version.
Rewrite(c, q) ==
  /\ c[1] \in Rewritten
  /\ store[c] # Absent
  /\ store' = [store EXCEPT ![c] = [ver |-> store[c].ver + 1, val |-> q]]
  /\ UNCHANGED <<asked, told>>

Create(r, q) ==
  /\ \A p \in Parts : store[<<r, p>>] = Absent
  /\ \A c \in Cells :
       IF c[1] = r
         THEN /\ store'[c].ver \in {0, 1}
              /\ store'[c].val \in {q, None}
         ELSE store'[c] = store[c]
  /\ UNCHANGED <<asked, told>>

\* Deleting a row may delete others that belong to it.
Remove ==
  /\ \A c \in Cells : store'[c] \in {store[c], Absent}
  /\ UNCHANGED <<asked, told>>

Next ==
  \/ Remove
  \/ \E q \in Requests :
       \/ Ask(q) \/ Succeed(q) \/ Refuse(q)
       \/ \E c \in Cells : Rewrite(c, q)
       \/ \E r \in Rows : Create(r, q)

Spec == Init /\ [][Next]_vars
=============================================================================
