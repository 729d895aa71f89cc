--------------------------- MODULE PhoneClient_proofs ---------------------------
(***************************************************************************)
(* What the phone is given of a session's messages, for every size of the   *)
(* queue and of a page, any number of sockets and every budget: the updates *)
(* come in the order of their numbers but for sockets that lived at one     *)
(* time, and the pages leave nothing out.                                   *)
(*                                                                         *)
(* Both rest on where a number can be: it is the last one taken, or with    *)
(* the loop that stores the message, or under way on a socket, or in line:  *)
(* in the queue of the dispatcher, kept by a call that reads the sessions   *)
(* for the key, or given to the app.                                        *)
(***************************************************************************)
EXTENDS PhoneClient, FiniteSetTheorems, SequenceTheorems, WellFoundedInduction, TLAPS

----------------------------------------------------------------------------
(* The inductive invariant.                                                *)

Controls == {"local", "remote"}
Connection == [sock : Nat, dial : Nat]

Message == [t : {"message"}, from : Sockets, seq : Nat]
Note ==
  Message \cup [t : {"activity"}, active : BOOLEAN, working : BOOLEAN]
  \cup [t : {"control"}, control : Controls] \cup [t : Kinds]

Cli == [up : BOOLEAN, working : BOOLEAN, control : Controls, dirty : BOOLEAN]
SessionRow == [active : BOOLEAN, open : BOOLEAN, control : Controls]
Socket ==
  [at : {"none", "up", "dying", "lost", "closed"}, dials : Nat, wire : Seq(Note),
   beside : SUBSET Sockets]
Job ==
  [t : {"none", "connect", "list", "send", "remote", "local", "message"},
   pc : {"rest", "dial", "refresh", "read", "turns", "doGate", "doMark", "ensure", "call"},
   then : {"rest", "again", "done", "retry", "doGate", "doMark"},
   active : BOOLEAN, control : Controls, kept : Seq(Message)]
Handled == [from : Connection, pc : {"number", "store", "active", "emit"}, seq : Nat]
Walk == [asked : BOOLEAN, newest : Nat, next : Nat, got : SUBSET Nat, more : BOOLEAN]

\* A message is kept only until the list with the key has been read.
JobOK(j) ==
  /\ j \in Job
  /\ j.pc \in {"doMark", "call"} \/ j.then = "doMark" => j.t \in Controls
  /\ j.pc \in {"read", "turns"} => j.then \in {"done", "retry", "doGate", "doMark"}
  /\ j.kept # <<>> => j.then = "retry" /\ j.pc \in {"read", "turns"}

ServerTypes ==
  /\ cli \in Cli /\ row \in SessionRow
  /\ seq \in Nat
  /\ events \in Seq(Connection)
  /\ handling \in SUBSET Handled

PhoneTypes ==
  /\ ServerTypes
  /\ JobOK(job)
  /\ made \in 0..MaxSockets /\ userSocket \in 0..made
  /\ socks \in [Sockets -> Socket]
  /\ inbox \in Seq(Note) /\ given \in Seq(Message)
  /\ walk \in Walk

\* Two sockets that are open live beside each other.
LiveSockets ==
  /\ \A s \in Sockets : s > made => socks[s] = noSocket
  /\ \A s \in Sockets : socks[s].wire # <<>> => s \in up
  /\ \A s, r \in live : s # r => s \in socks[r].beside \/ r \in socks[s].beside

\* The order of two messages, when b says which sockets lived beside others.
After(b, x, y) == x.from \notin b[y.from] /\ y.from \notin b[x.from] => x.seq < y.seq

Messages(l) == {l[i] : i \in {j \in DOMAIN l : l[j].t = "message"}}

Rising(b, l) ==
  \A i, j \in DOMAIN l :
    i < j /\ l[i].t = "message" /\ l[j].t = "message" => After(b, l[i], l[j])

Precede(b, l, w) == \A x \in Messages(l), y \in Messages(w) : After(b, x, y)

besides == [s \in Sockets |-> socks[s].beside]

wire(s) == socks[s].wire

\* What has come to the dispatcher, from the first that was given to the last that waits.
line == (given \o job.kept) \o inbox

InLine ==
  /\ Rising(besides, line)
  /\ \A m \in Messages(line) : m.from <= made
  /\ \A s \in Sockets :
       /\ Rising(besides, wire(s)) /\ Precede(besides, line, wire(s))
       /\ \A m \in Messages(wire(s)) : m.from = s

\* What is under way to the app, or has come, has a smaller number.
Behind(n) ==
  /\ \A m \in Messages(line) : m.seq < n
  /\ \A s \in Sockets : \A m \in Messages(wire(s)) : m.seq < n

Numbered ==
  /\ \A h \in handling : h.pc # "number" => h.seq <= seq /\ Behind(h.seq)
  /\ Behind(seq + 1)

\* One message is stored at a time, and under a number above all others.
StoredInOrder ==
  /\ log \in SUBSET (1..seq)
  /\ \A g, h \in handling : g = h
  /\ \A h \in handling : h.pc = "store" => h.seq \in 1..seq /\ \A s \in log : s < h.seq

\* What lies between the last page and the newest message of the first has been seen.
Seen ==
  /\ walk.newest \in log \cup {0} /\ walk.next \in log \cup {0}
  /\ ~walk.asked => walk.newest = 0 /\ walk.next = 0 /\ walk.more
  /\ walk.next = 0 => walk.newest = 0
  /\ \A s \in log : walk.next <= s /\ s <= walk.newest => s \in walk.got
  /\ ~walk.more => \A s \in log : s <= walk.newest => walk.next <= s

Delivery == PhoneTypes /\ LiveSockets /\ InLine /\ Numbered /\ StoredInOrder

PhoneInv == Delivery /\ Seen

----------------------------------------------------------------------------
(* The least and the greatest number of a page.                            *)

LEMMA LeastNumber ==
  ASSUME NEW S, S \in SUBSET Nat, S # {}
  PROVE  \E x \in S : \A y \in S : x <= y
<1>1. PICK x \in S : \A y \in S : ~(<<y, x>> \in OpToRel(<, Nat))
  BY NatLessThanWellFounded, WFMin, Zenon
<1>2. \A y \in S : ~(y < x)
  BY <1>1 DEF OpToRel
<1> QED BY <1>2

LEMMA GreatestNumber ==
  ASSUME NEW n \in Nat, NEW S, S \in SUBSET (0..n), S # {}
  PROVE  \E x \in S : \A y \in S : x >= y
<1> DEFINE T == {n - s : s \in S}
<1>1. T \in SUBSET Nat /\ T # {}
  <2>1. ASSUME NEW s \in S
        PROVE  n - s \in Nat
    OBVIOUS
  <2>2. PICK s \in S : TRUE
    OBVIOUS
  <2>3. n - s \in T
    OBVIOUS
  <2> QED BY <2>1, <2>3
<1>2. PICK x \in T : \A y \in T : x <= y
  BY <1>1, LeastNumber
<1>3. PICK s \in S : x = n - s
  OBVIOUS
<1>4. ASSUME NEW y \in S
      PROVE  s >= y
  <2>1. n - y \in T
    OBVIOUS
  <2>2. n - s <= n - y
    BY <1>2, <1>3, <2>1
  <2> QED BY <2>2
<1> QED BY <1>4

LEMMA MinOfPage ==
  ASSUME NEW S, S \in SUBSET Nat, S # {}
  PROVE  Min(S) \in S /\ \A y \in S : Min(S) <= y
BY LeastNumber DEF Min

LEMMA MaxOfPage ==
  ASSUME NEW n \in Nat, NEW S, S \in SUBSET (0..n), S # {}
  PROVE  Max(S) \in S /\ \A y \in S : Max(S) >= y
BY GreatestNumber DEF Max

\* A page has the greatest numbers below the bound, and says whether any are left.
LEMMA PageOfLog ==
  ASSUME NEW n \in Nat, log \in SUBSET (1..n), NEW before \in Nat
  PROVE  LET p == GetSessionMessages(before)
             passed(s) == before = 0 \/ s < before
         IN  /\ p.messages \in SUBSET log
             /\ \A s \in p.messages : passed(s)
             /\ p.messages = {} => /\ p.next = before /\ ~p.more
                                  /\ \A s \in log : ~passed(s)
             /\ p.messages # {} => /\ p.next \in p.messages
                                  /\ \A s \in log : passed(s) /\ p.next <= s => s \in p.messages
             /\ p.messages # {} /\ ~p.more => \A s \in log : p.next <= s
             /\ p.more \in BOOLEAN
<1> DEFINE p == GetSessionMessages(before)
           old == below(before)
           page == listMessages(before)
           newer(s) == {o \in old : o > s}
<1>1. /\ old \in SUBSET log /\ page \in SUBSET old
      /\ old \in SUBSET (0..n) /\ old \in SUBSET Nat /\ page \in SUBSET Nat
      /\ \A s : s \in page <=> s \in old /\ Cardinality(newer(s)) < PageLimit
      /\ \A s : s \in old <=> s \in log /\ (before = 0 \/ s < before)
  <2>1. \A s : s \in old <=> s \in log /\ (before = 0 \/ s < before)
    BY Zenon DEF below
  <2>2. \A s : s \in page <=> s \in old /\ Cardinality(newer(s)) < PageLimit
    BY Zenon DEF listMessages
  <2>3. page \in SUBSET old
    BY <2>2, Zenon
  <2> HIDE DEF old, page, newer
  <2>4. old \in SUBSET log /\ old \in SUBSET (0..n) /\ old \in SUBSET Nat /\ page \in SUBSET Nat
    <3>1. old \in SUBSET log
      BY <2>1, Zenon
    <3>2. log \in SUBSET (0..n) /\ log \in SUBSET Nat
      OBVIOUS
    <3> QED BY <2>3, <3>1, <3>2, Zenon
  <2> QED BY <2>1, <2>2, <2>3, <2>4, Zenon
<1>2. IsFiniteSet(old)
  BY <1>1, FS_BoundedSetOfNaturals
<1>3. /\ p.messages = page
      /\ p.next = IF page = {} THEN before ELSE Min(page)
      /\ p.more = (page # {} /\ hasMessagesBeforeSeq(Min(page)))
  BY Zenon DEF GetSessionMessages
<1>4. old # {} => page # {}
  <2>1. ASSUME old # {}
        PROVE  page # {}
    <3>1. PICK x \in old : \A y \in old : x >= y
      BY <1>1, <2>1, GreatestNumber
    <3>2. newer(x) = {}
      BY <1>1, <3>1
    <3>3. Cardinality(newer(x)) = 0
      BY <3>2, FS_EmptySet, Zenon
    <3>4. Cardinality(newer(x)) < PageLimit
      BY <3>3, MessagesOK DEF MessagesOK
    <3> QED BY <1>1, <3>4
  <2> QED BY <2>1
<1>5. ASSUME NEW m \in page, NEW s \in old, m <= s
      PROVE  s \in page
  <2>1. newer(s) \in SUBSET newer(m) /\ newer(m) \in SUBSET old
    BY <1>1, <1>5
  <2>2. IsFiniteSet(newer(m)) /\ IsFiniteSet(newer(s))
    BY <1>2, <2>1, FS_Subset
  <2>3. /\ Cardinality(newer(s)) <= Cardinality(newer(m))
        /\ Cardinality(newer(s)) \in Nat /\ Cardinality(newer(m)) \in Nat
    BY <2>1, <2>2, FS_Subset, FS_CardinalityType
  <2>4. Cardinality(newer(m)) < PageLimit
    BY <1>1
  <2>5. Cardinality(newer(s)) < PageLimit
    <3> HIDE DEF newer
    <3> QED BY <2>3, <2>4, MessagesOK DEF MessagesOK
  <2> QED BY <1>1, <2>5
<1>6. CASE page = {}
  BY <1>1, <1>3, <1>4, <1>6
<1>7. CASE page # {}
  <2>1. Min(page) \in page /\ \A y \in page : Min(page) <= y
    BY <1>1, <1>7, MinOfPage
  <2>2. ASSUME ~hasMessagesBeforeSeq(Min(page)), NEW s \in log
        PROVE  Min(page) <= s
    BY <1>1, <2>1, <2>2 DEF hasMessagesBeforeSeq
  <2>3. \A s \in old : Min(page) <= s => s \in page
    BY <1>5, <2>1
  <2> HIDE DEF page, old
  <2> QED BY <1>1, <1>3, <1>7, <2>1, <2>2, <2>3
<1> QED BY <1>6, <1>7

----------------------------------------------------------------------------
(* Sequences with messages among others.                                   *)

LEMMA MessagesOf ==
  ASSUME NEW l \in Seq(Note)
  PROVE  /\ Messages(l) \in SUBSET Message
         /\ \A i \in DOMAIN l : l[i].t = "message" => l[i] \in Messages(l)
         /\ \A m \in Messages(l) : \E i \in DOMAIN l : l[i].t = "message" /\ m = l[i]
<1>1. \A e \in Note : e.t = "message" => e \in Message
  BY DEF Note, Message, Kinds
<1>2. \A m \in Messages(l) : \E i \in DOMAIN l : l[i].t = "message" /\ m = l[i]
  BY DEF Messages
<1>3. \A i \in DOMAIN l : l[i] \in Note
  OBVIOUS
<1>4. \A i \in DOMAIN l : l[i].t = "message" => l[i] \in Messages(l)
  BY DEF Messages
<1> QED BY <1>1, <1>2, <1>3, <1>4

\* t is what s is, in the same order, as far as messages go.
Thins(t, s) ==
  \E f \in [DOMAIN t -> Nat] :
    /\ \A i, j \in DOMAIN t : i < j => f[i] < f[j]
    /\ \A i \in DOMAIN t : t[i].t = "message" => f[i] \in DOMAIN s /\ t[i] = s[f[i]]

LEMMA ThinsSame ==
  ASSUME NEW s \in Seq(Note)
  PROVE  Thins(s, s) /\ Thins(<<>>, s)
<1>1. Thins(s, s)
  <2> DEFINE f == [i \in DOMAIN s |-> i]
  <2>1. f \in [DOMAIN s -> Nat] /\ \A i \in DOMAIN s : f[i] = i
    OBVIOUS
  <2> HIDE DEF f
  <2> QED BY <2>1 DEF Thins
<1>2. Thins(<<>>, s)
  <2> DEFINE f == [i \in DOMAIN <<>> |-> 0]
  <2>1. f \in [DOMAIN <<>> -> Nat] /\ \A i : i \notin DOMAIN <<>>
    OBVIOUS
  <2> HIDE DEF f
  <2> QED BY <2>1 DEF Thins
<1> QED BY <1>1, <1>2

LEMMA ThinsAppended ==
  ASSUME NEW s \in Seq(Note), NEW e \in Note, e.t # "message"
  PROVE  Append(s, e) \in Seq(Note) /\ Thins(Append(s, e), s)
<1> DEFINE l == Append(s, e)
           f == [i \in DOMAIN l |-> i]
<1>1. /\ l \in Seq(Note)
      /\ \A i \in DOMAIN l : (i \in DOMAIN s /\ l[i] = s[i]) \/ l[i] = e
  OBVIOUS
<1>2. f \in [DOMAIN l -> Nat] /\ \A i \in DOMAIN l : f[i] = i
  BY <1>1
<1> HIDE DEF f, l
<1>3. Thins(l, s)
  BY <1>1, <1>2 DEF Thins
<1> QED BY <1>1, <1>3 DEF l

\* The first of the queue leaves it.
LEMMA ThinsTail ==
  ASSUME NEW g \in Seq(Note), NEW q \in Seq(Note), q # <<>>
  PROVE  g \o Tail(q) \in Seq(Note) /\ Thins(g \o Tail(q), g \o q)
<1> DEFINE s == g \o q
           l == g \o Tail(q)
           n == Len(g)
           f == [i \in DOMAIN l |-> IF i <= n THEN i ELSE i + 1]
<1>1. /\ s \in Seq(Note) /\ l \in Seq(Note) /\ n \in Nat
      /\ Len(s) = n + Len(q) /\ Len(l) + 1 = Len(s)
      /\ DOMAIN l = 1..Len(l) /\ DOMAIN s = 1..Len(s)
  OBVIOUS
<1>2. \A i \in DOMAIN l : l[i] = IF i <= n THEN s[i] ELSE s[i + 1]
  OBVIOUS
<1>3. f \in [DOMAIN l -> Nat] /\ \A i \in DOMAIN l : f[i] = IF i <= n THEN i ELSE i + 1
  BY <1>1
<1> HIDE DEF f, l, s, n
<1>4. \A i, j \in DOMAIN l : i < j => f[i] < f[j]
  BY <1>1, <1>3
<1>5. \A i \in DOMAIN l : f[i] \in DOMAIN s /\ l[i] = s[f[i]]
  BY <1>1, <1>2, <1>3
<1>6. Thins(l, s)
  BY <1>3, <1>4, <1>5 DEF Thins
<1> QED BY <1>1, <1>6 DEF l, s

LEMMA ThinsKeeps ==
  ASSUME NEW s \in Seq(Note), NEW t \in Seq(Note), Thins(t, s), NEW b
  PROVE  /\ Rising(b, s) => Rising(b, t)
         /\ Messages(t) \in SUBSET Messages(s)
<1>1. PICK f \in [DOMAIN t -> Nat] :
        /\ \A i, j \in DOMAIN t : i < j => f[i] < f[j]
        /\ \A i \in DOMAIN t : t[i].t = "message" => f[i] \in DOMAIN s /\ t[i] = s[f[i]]
  BY DEF Thins
<1>2. Rising(b, s) => Rising(b, t)
  BY <1>1 DEF Rising
<1>3. Messages(t) \in SUBSET Messages(s)
  BY <1>1, MessagesOf
<1> QED BY <1>2, <1>3

LEMMA MessageAppended ==
  ASSUME NEW s \in Seq(Note), NEW m \in Message
  PROVE  /\ Append(s, m) \in Seq(Note)
         /\ Messages(Append(s, m)) = Messages(s) \cup {m}
         /\ \A b : Rising(b, s) /\ (\A x \in Messages(s) : After(b, x, m))
                  => Rising(b, Append(s, m))
<1> DEFINE l == Append(s, m)
<1>1. m \in Note /\ m.t = "message"
  BY DEF Note, Message
<1>2. /\ l \in Seq(Note)
      /\ \A i \in DOMAIN l : (i \in DOMAIN s /\ l[i] = s[i]) \/ (i = Len(s) + 1 /\ l[i] = m)
      /\ \A i \in DOMAIN s : i \in DOMAIN l /\ l[i] = s[i] /\ i <= Len(s)
      /\ Len(s) + 1 \in DOMAIN l /\ l[Len(s) + 1] = m
      /\ Len(s) \in Nat /\ DOMAIN l \in SUBSET Nat
  BY <1>1
<1> HIDE DEF l
<1>3. Messages(l) = Messages(s) \cup {m}
  BY <1>1, <1>2 DEF Messages
<1>4. ASSUME NEW b, Rising(b, s), \A x \in Messages(s) : After(b, x, m),
             NEW i \in DOMAIN l, NEW j \in DOMAIN l,
             i < j, l[i].t = "message", l[j].t = "message"
      PROVE  After(b, l[i], l[j])
  <2>1. i \in DOMAIN s /\ l[i] = s[i]
    BY <1>2, <1>4
  <2>2. l[i] \in Messages(s)
    BY <1>4, <2>1, MessagesOf
  <2>3. CASE l[j] = m
    BY <1>4, <2>2, <2>3
  <2>4. CASE j \in DOMAIN s /\ l[j] = s[j]
    BY <1>4, <2>1, <2>4 DEF Rising
  <2> QED BY <1>2, <2>3, <2>4
<1>5. \A b : Rising(b, s) /\ (\A x \in Messages(s) : After(b, x, m)) => Rising(b, l)
  BY <1>4 DEF Rising
<1> QED BY <1>2, <1>3, <1>5 DEF l

\* The first of a wire goes to the end of the line.
LEMMA MessagesOfTail ==
  ASSUME NEW s \in Seq(Note), s # <<>>, NEW b, Rising(b, s)
  PROVE  /\ Head(s) \in Note /\ Tail(s) \in Seq(Note)
         /\ Rising(b, Tail(s)) /\ Messages(Tail(s)) \in SUBSET Messages(s)
         /\ Head(s).t = "message" =>
              /\ Head(s) \in Messages(s)
              /\ \A y \in Messages(Tail(s)) : After(b, Head(s), y)
<1> DEFINE l == Tail(s)
<1>1. /\ Head(s) = s[1] /\ 1 \in DOMAIN s /\ l \in Seq(Note) /\ DOMAIN l \in SUBSET Nat
      /\ \A i \in DOMAIN l : i + 1 \in DOMAIN s /\ l[i] = s[i + 1] /\ 1 < i + 1
  OBVIOUS
<1> HIDE DEF l
<1>2. Rising(b, l)
  <2>1. ASSUME NEW i \in DOMAIN l, NEW j \in DOMAIN l, i < j,
               l[i].t = "message", l[j].t = "message"
        PROVE  After(b, l[i], l[j])
    <3>1. i + 1 < j + 1
      BY <1>1, <2>1
    <3> QED BY <1>1, <2>1, <3>1 DEF Rising
  <2> QED BY <2>1 DEF Rising
<1>3. Messages(l) \in SUBSET Messages(s)
  BY <1>1 DEF Messages
<1>4. ASSUME Head(s).t = "message"
      PROVE  Head(s) \in Messages(s) /\ \A y \in Messages(l) : After(b, Head(s), y)
  <2>1. Head(s) \in Messages(s)
    BY <1>1, <1>4, MessagesOf
  <2>2. ASSUME NEW y \in Messages(l)
        PROVE  After(b, Head(s), y)
    <3>1. PICK i \in DOMAIN l : l[i].t = "message" /\ y = l[i]
      BY <1>1, MessagesOf
    <3> QED BY <1>1, <1>4, <3>1 DEF Rising
  <2> QED BY <2>1, <2>2
<1>5. Head(s) \in Note
  OBVIOUS
<1> QED BY <1>1, <1>2, <1>3, <1>4, <1>5 DEF l

\* Only what is said of the sockets that the messages came on matters.
LEMMA BesidesAgree ==
  ASSUME NEW b, NEW c, NEW F, \A s \in F : b[s] = c[s],
         NEW l \in Seq(Note), \A m \in Messages(l) : m.from \in F, Rising(b, l)
  PROVE  /\ Rising(c, l)
         /\ \A w : Precede(b, l, w) /\ (\A m \in Messages(w) : m.from \in F) => Precede(c, l, w)
<1>1. \A x, y : x.from \in F /\ y.from \in F /\ After(b, x, y) => After(c, x, y)
  BY DEF After
<1>2. Rising(c, l)
  BY <1>1, MessagesOf DEF Rising
<1>3. \A w : Precede(b, l, w) /\ (\A m \in Messages(w) : m.from \in F) => Precede(c, l, w)
  BY <1>1 DEF Precede
<1> QED BY <1>2, <1>3

----------------------------------------------------------------------------
(* Steps that give no message and store none.                              *)

\* On the sockets no message is added; the sockets that were made keep their neighbours.
SocketsMove ==
  /\ socks' \in [Sockets -> Socket] /\ LiveSockets'
  /\ made <= made' /\ made' \in 0..MaxSockets
  /\ \A s \in Sockets : s <= made => socks'[s].beside = socks[s].beside
  /\ \A s \in Sockets : Thins(socks'[s].wire, socks[s].wire)

Quiet ==
  /\ PhoneTypes' /\ SocketsMove
  /\ Thins(line', line)
  /\ UNCHANGED <<seq, log, handling>>

LEMMA MessagesAreNotes ==
  ASSUME NEW l \in Seq(Message)
  PROVE  l \in Seq(Note)
<1>1. \A i \in DOMAIN l : l[i] \in Note
  BY DEF Note
<1>2. l \in [1..Len(l) -> Note] /\ Len(l) \in Nat
  BY <1>1
<1> QED BY <1>2

LEMMA LineOfNotes ==
  ASSUME NEW g \in Seq(Message), NEW q \in Seq(Note), NEW j, JobOK(j)
  PROVE  /\ (g \o j.kept) \o q \in Seq(Note) /\ j.kept \in Seq(Note) /\ g \o j.kept \in Seq(Note)
         /\ j.kept \in Seq(Message) /\ g \o j.kept \in Seq(Message) /\ g \in Seq(Note)
<1>1. j.kept \in Seq(Message)
  BY DEF JobOK, Job
<1>2. j.kept \in Seq(Note) /\ g \in Seq(Note)
  BY <1>1, MessagesAreNotes
<1> QED BY <1>1, <1>2

LEMMA NoteSequences ==
  ASSUME PhoneTypes
  PROVE  /\ line \in Seq(Note) /\ job.kept \in Seq(Note) /\ given \o job.kept \in Seq(Note)
         /\ given \in Seq(Note) /\ given \o job.kept \in Seq(Message)
         /\ \A s \in Sockets : wire(s) \in Seq(Note) /\ socks[s] \in Socket
         /\ \A s \in Sockets : besides[s] = socks[s].beside
<1>1. /\ line \in Seq(Note) /\ job.kept \in Seq(Note) /\ given \o job.kept \in Seq(Note)
      /\ given \in Seq(Note) /\ given \o job.kept \in Seq(Message)
  BY LineOfNotes DEF line, PhoneTypes
<1>2. \A s \in Sockets : wire(s) \in Seq(Note) /\ socks[s] \in Socket
  BY DEF PhoneTypes, Socket, wire
<1> QED BY <1>1, <1>2 DEF besides

\* What is said of the order holds of less, too.
LEMMA QuietKept ==
  ASSUME Delivery, Quiet
  PROVE  Delivery'
<1>1. /\ PhoneTypes /\ LiveSockets /\ InLine /\ Numbered /\ StoredInOrder
      /\ PhoneTypes' /\ LiveSockets'
  BY DEF Delivery, Quiet, SocketsMove
<1> DEFINE b == besides
           c == besides'
           F == {s \in Sockets : s <= made}
<1>2. /\ line \in Seq(Note) /\ \A s \in Sockets : wire(s) \in Seq(Note)
      /\ line' \in Seq(Note) /\ \A s \in Sockets : wire(s)' \in Seq(Note)
  <2>1. line' \in Seq(Note)
    BY <1>1, LineOfNotes DEF line, PhoneTypes
  <2>2. \A s \in Sockets : wire(s)' \in Seq(Note)
    BY <1>1 DEF PhoneTypes, Socket, wire
  <2> QED BY <1>1, <2>1, <2>2, NoteSequences
<1>3. made \in Nat /\ made' \in Nat /\ made <= made' /\ \A s \in F : b[s] = c[s]
  BY <1>1 DEF Quiet, SocketsMove, besides, PhoneTypes
<1> HIDE DEF b, c
<1>4. /\ Rising(b, line') /\ Messages(line') \in SUBSET Messages(line)
      /\ \A s \in Sockets : Rising(b, wire(s)') /\ Messages(wire(s)') \in SUBSET Messages(wire(s))
  <2>1. Thins(line', line) /\ \A s \in Sockets : Thins(wire(s)', wire(s))
    BY DEF Quiet, SocketsMove, wire
  <2>2. Rising(b, line) /\ \A s \in Sockets : Rising(b, wire(s))
    BY <1>1 DEF InLine, b
  <2> QED BY <1>2, <2>1, <2>2, ThinsKeeps
<1>5. \A m \in Messages(line') : m.from \in F
  <2>1. \A m \in Messages(line') : m.from <= made /\ m.from \in Sockets
    BY <1>1, <1>2, <1>4, MessagesOf DEF InLine, Message
  <2> QED BY <2>1
<1>6. ASSUME NEW s \in Sockets, NEW m \in Messages(wire(s)')
      PROVE  m.from = s /\ m.from \in F
  <2>1. m \in Messages(wire(s)) /\ m.from = s
    BY <1>1, <1>4 DEF InLine
  <2>2. wire(s) # <<>>
    BY <1>2, <2>1, MessagesOf
  <2>3. s \in up
    BY <1>1, <2>2 DEF LiveSockets, wire
  <2>4. socks[s] # noSocket
    BY <2>3 DEF up, noSocket
  <2>5. s <= made
    BY <1>1, <1>3, <2>4 DEF LiveSockets, Sockets
  <2> QED BY <2>1, <2>5
<1>7. ASSUME NEW s \in Sockets
      PROVE  Precede(b, line', wire(s)')
  <2>1. Precede(b, line, wire(s))
    BY <1>1 DEF InLine, b
  <2> QED BY <1>4, <2>1 DEF Precede
<1>8. /\ Rising(c, line')
      /\ \A s \in Sockets : Rising(c, wire(s)') /\ Precede(c, line', wire(s)')
  <2>1. /\ Rising(c, line')
        /\ \A w : Precede(b, line', w) /\ (\A m \in Messages(w) : m.from \in F)
                 => Precede(c, line', w)
    BY <1>2, <1>3, <1>4, <1>5, BesidesAgree
  <2>2. ASSUME NEW s \in Sockets
        PROVE  Rising(c, wire(s)') /\ Precede(c, line', wire(s)')
    <3>1. Rising(c, wire(s)')
      BY <1>2, <1>3, <1>4, <1>6, BesidesAgree
    <3>2. Precede(c, line', wire(s)')
      BY <1>6, <1>7, <2>1
    <3> QED BY <3>1, <3>2
  <2> QED BY <2>1, <2>2
<1>9. InLine'
  <2>1. \A m \in Messages(line') : m.from <= made'
    <3>1. \A m \in Messages(line') : m.from \in Nat
      BY <1>2, MessagesOf DEF Message, Sockets
    <3> QED BY <1>3, <1>5, <3>1
  <2> QED BY <1>6, <1>8, <2>1 DEF InLine, c
<1>10. ASSUME NEW n, Behind(n)
       PROVE  Behind(n)'
  BY <1>4, <1>10 DEF Behind
<1>11. Numbered' /\ StoredInOrder'
  BY <1>1, <1>10 DEF Numbered, StoredInOrder, Quiet
<1> QED BY <1>1, <1>9, <1>11 DEF Delivery

\* The pages are not concerned, as long as new messages are above the old ones.
LEMMA SeenKept ==
  ASSUME PhoneTypes, StoredInOrder, Seen, walk' = walk,
         log' = log \/ \E n \in Nat \ {0} : log' = log \cup {n} /\ \A s \in log : s < n
  PROVE  Seen'
<1>1. walk.newest \in Nat /\ walk.next \in Nat /\ log \in SUBSET Nat
  BY DEF PhoneTypes, Walk, StoredInOrder
<1>2. CASE log' = log
  BY <1>2 DEF Seen
<1>3. ASSUME NEW n \in Nat \ {0}, log' = log \cup {n}, \A s \in log : s < n
      PROVE  Seen'
  <2>1. walk.newest < n
    BY <1>1, <1>3 DEF Seen
  <2>2. ~(n <= walk.newest)
    BY <1>1, <2>1
  <2> QED BY <1>3, <2>2 DEF Seen
<1> QED BY <1>2, <1>3

----------------------------------------------------------------------------
(* The sockets.                                                            *)

LEMMA NoSocketOK == noSocket \in Socket /\ noSocket.wire = <<>> /\ noSocket.at = "none"
<1>1. <<>> \in Seq(Note)
  OBVIOUS
<1>2. ASSUME NEW w, w \in Seq(Note)
      PROVE  [at |-> "none", dials |-> 0, wire |-> w, beside |-> {}] \in Socket
  BY <1>2 DEF Socket
<1>3. noSocket \in Socket
  BY <1>1, <1>2, Zenon DEF noSocket
<1> QED BY <1>3 DEF noSocket

LEMMA SocketMade ==
  ASSUME NEW S, S \in SUBSET Sockets
  PROVE  LET x == [noSocket EXCEPT !.at = "lost", !.beside = S]
         IN  x \in Socket /\ x.at = "lost" /\ x.wire = <<>> /\ x.beside = S
<1>1. noSocket \in Socket /\ noSocket.wire = <<>>
  BY NoSocketOK
<1>2. ASSUME NEW y \in Socket
      PROVE  LET x == [y EXCEPT !.at = "lost", !.beside = S]
             IN  x \in Socket /\ x.at = "lost" /\ x.wire = y.wire /\ x.beside = S
  BY DEF Socket
<1> HIDE DEF noSocket
<1> QED BY <1>1, <1>2, Zenon

LEMMA SocketsRest ==
  ASSUME PhoneTypes, LiveSockets, socks' = socks, made' = made
  PROVE  SocketsMove
<1>1. LiveSockets'
  BY DEF LiveSockets, up, live
<1>2. \A s \in Sockets : Thins(socks[s].wire, socks[s].wire)
  BY NoteSequences, ThinsSame DEF wire
<1> QED BY <1>1, <1>2 DEF SocketsMove, PhoneTypes

\* Something is sent on each connection, or on some; a message counts as sent here too.
LEMMA SocketsSent ==
  ASSUME PhoneTypes, LiveSockets, made' = made, NEW e \in [Sockets -> Note], NEW S \in SUBSET up,
         socks' = [s \in Sockets |-> IF s \in S THEN onWire(s, e[s]) ELSE socks[s]]
  PROVE  /\ socks' \in [Sockets -> Socket] /\ LiveSockets'
         /\ \A s \in Sockets :
              /\ socks'[s].beside = socks[s].beside
              /\ socks'[s].wire = IF s \in S THEN Append(socks[s].wire, e[s]) ELSE socks[s].wire
<1>1. ASSUME NEW s \in Sockets
      PROVE  /\ socks'[s] \in Socket
             /\ socks'[s].at = socks[s].at /\ socks'[s].beside = socks[s].beside
             /\ socks'[s].wire = IF s \in S THEN Append(socks[s].wire, e[s]) ELSE socks[s].wire
             /\ s \notin S => socks'[s] = socks[s]
  <2>1. socks[s] \in Socket /\ e[s] \in Note
    BY DEF PhoneTypes
  <2>2. Append(socks[s].wire, e[s]) \in Seq(Note)
    BY <2>1 DEF Socket
  <2>3. CASE s \in S
    <3>1. socks'[s] = [socks[s] EXCEPT !.wire = Append(@, e[s])]
      BY <2>3 DEF onWire
    <3> QED BY <2>1, <2>2, <2>3, <3>1 DEF Socket
  <2>4. CASE s \notin S
    BY <2>1, <2>4
  <2> QED BY <2>3, <2>4
<1>2. up' = up /\ live' = live
  BY <1>1 DEF up, live
<1>3. \A s \in Sockets : s > made => s \notin up
  BY DEF LiveSockets, up, noSocket
<1>4. LiveSockets'
  <2>1. \A s \in Sockets : s > made' => socks'[s] = noSocket
    BY <1>1, <1>3 DEF LiveSockets
  <2>2. \A s \in Sockets : socks'[s].wire # <<>> => s \in up'
    BY <1>1, <1>2 DEF LiveSockets
  <2>3. \A s, r \in live' : s # r => s \in socks'[r].beside \/ r \in socks'[s].beside
    BY <1>1, <1>2 DEF LiveSockets, live
  <2> QED BY <2>1, <2>2, <2>3 DEF LiveSockets
<1>5. socks' \in [Sockets -> Socket]
  BY <1>1
<1> QED BY <1>1, <1>4, <1>5

LEMMA Emitted ==
  ASSUME PhoneTypes, LiveSockets, made' = made, NEW e \in Note, e.t # "message", Emit(e)
  PROVE  SocketsMove
<1> DEFINE f == [s \in Sockets |-> e]
<1>1. socks' = [s \in Sockets |-> IF s \in up THEN onWire(s, f[s]) ELSE socks[s]]
  BY DEF Emit
<1>2. f \in [Sockets -> Note] /\ \A s \in Sockets : f[s] = e
  OBVIOUS
<1>3. up \in SUBSET up
  OBVIOUS
<1> HIDE DEF f
<1>4. /\ socks' \in [Sockets -> Socket] /\ LiveSockets'
      /\ \A s \in Sockets :
           /\ socks'[s].beside = socks[s].beside
           /\ socks'[s].wire = IF s \in up THEN Append(socks[s].wire, f[s]) ELSE socks[s].wire
  BY <1>1, <1>2, <1>3, SocketsSent
<1>5. ASSUME NEW s \in Sockets
      PROVE  Thins(socks'[s].wire, socks[s].wire)
  <2>1. socks[s].wire \in Seq(Note)
    BY NoteSequences DEF wire
  <2>2. Thins(socks[s].wire, socks[s].wire) /\ Thins(Append(socks[s].wire, e), socks[s].wire)
    BY <2>1, ThinsSame, ThinsAppended
  <2>3. socks'[s].wire \in {socks[s].wire, Append(socks[s].wire, e)}
    BY <1>2, <1>4
  <2> QED BY <2>2, <2>3
<1> QED BY <1>4, <1>5 DEF SocketsMove, PhoneTypes

\* Sockets that are given up lose what is under way.
LEMMA SocketsLost ==
  ASSUME PhoneTypes, LiveSockets, NEW ss \in SUBSET (0..made),
         NEW at \in {"closed", "dying"},
         NEW next, next = lose(ss, at)
  PROVE  /\ next \in [Sockets -> Socket]
         /\ \A s \in Sockets : s > made => next[s] = noSocket
         /\ \A s \in Sockets : next[s].wire # <<>> => next[s].at = "up"
         /\ \A s \in Sockets : next[s].beside = socks[s].beside
         /\ \A s \in Sockets : Thins(next[s].wire, socks[s].wire)
         /\ \A s \in Sockets : next[s].at = IF s \in ss THEN at ELSE socks[s].at
<1>1. ASSUME NEW s \in Sockets
      PROVE  /\ next[s] \in Socket
             /\ s \notin ss => next[s] = socks[s]
             /\ s \in ss => next[s].at = at /\ next[s].wire = <<>>
             /\ next[s].beside = socks[s].beside
  <2>1. socks[s] \in Socket
    BY DEF PhoneTypes
  <2>2. next[s] = IF s \in ss THEN [socks[s] EXCEPT !.at = at, !.wire = <<>>] ELSE socks[s]
    BY DEF lose
  <2>3. CASE s \in ss
    <3>1. next[s] = [socks[s] EXCEPT !.at = at, !.wire = <<>>]
      BY <2>2, <2>3
    <3>2. <<>> \in Seq(Note)
      OBVIOUS
    <3>3. /\ next[s] \in Socket /\ next[s].at = at /\ next[s].wire = <<>>
          /\ next[s].beside = socks[s].beside
      BY <2>1, <3>1, <3>2 DEF Socket
    <3> QED BY <2>3, <3>3
  <2>4. CASE s \notin ss
    BY <2>1, <2>2, <2>4
  <2> QED BY <2>3, <2>4
<1>2. next \in [Sockets -> Socket]
  <2>1. next = [s \in Sockets |-> next[s]]
    BY DEF lose
  <2> QED BY <1>1, <2>1
<1>3. \A s \in Sockets : s > made => next[s] = noSocket
  BY <1>1 DEF LiveSockets, PhoneTypes, Sockets
<1>4. \A s \in Sockets : next[s].wire # <<>> => next[s].at = "up"
  BY <1>1 DEF LiveSockets, up
<1>5. \A s \in Sockets : Thins(next[s].wire, socks[s].wire)
  BY <1>1, NoteSequences, ThinsSame DEF wire
<1>6. \A s \in Sockets : next[s].at = IF s \in ss THEN at ELSE socks[s].at
  BY <1>1
<1> QED BY <1>1, <1>2, <1>3, <1>4, <1>5, <1>6

LEMMA LosesMove ==
  ASSUME PhoneTypes, LiveSockets, made' = made, NEW ss \in SUBSET (0..made),
         NEW at \in {"closed", "dying"}, at = "dying" => ss \in SUBSET up, socks' = lose(ss, at)
  PROVE  SocketsMove
<1>1. /\ socks' \in [Sockets -> Socket]
      /\ \A s \in Sockets : s > made => socks'[s] = noSocket
      /\ \A s \in Sockets : socks'[s].wire # <<>> => socks'[s].at = "up"
      /\ \A s \in Sockets : socks'[s].beside = socks[s].beside
      /\ \A s \in Sockets : Thins(socks'[s].wire, socks[s].wire)
      /\ \A s \in Sockets : socks'[s].at = IF s \in ss THEN at ELSE socks[s].at
  BY SocketsLost
<1>2. LiveSockets'
  <2>1. live' \in SUBSET live /\ live \in SUBSET Sockets
    BY <1>1 DEF live, up
  <2> QED BY <1>1, <2>1 DEF LiveSockets, up
<1> QED BY <1>1, <1>2 DEF SocketsMove, PhoneTypes

LEMMA DialMoves ==
  ASSUME PhoneTypes, LiveSockets, NEW ss \in SUBSET (0..made), made < MaxSockets, Dial(ss)
  PROVE  SocketsMove
<1> DEFINE left == lose(ss, "closed")
           new == made + 1
           socket == [noSocket EXCEPT !.at = "lost", !.beside = live \ ss]
<1>1. /\ left \in [Sockets -> Socket]
      /\ \A s \in Sockets : s > made => left[s] = noSocket
      /\ \A s \in Sockets : left[s].wire # <<>> => left[s].at = "up"
      /\ \A s \in Sockets : left[s].beside = socks[s].beside
      /\ \A s \in Sockets : Thins(left[s].wire, socks[s].wire)
      /\ \A s \in Sockets : left[s].at = IF s \in ss THEN "closed" ELSE socks[s].at
  BY SocketsLost
<1>2. /\ made \in Nat /\ new \in Sockets /\ new \in 0..MaxSockets /\ new > made
      /\ made' = new /\ socks' = [left EXCEPT ![new] = socket]
  BY MessagesOK DEF PhoneTypes, Sockets, MessagesOK, Dial
<1>3. /\ socket \in Socket /\ socket.at = "lost" /\ socket.wire = <<>>
      /\ socket.beside = live \ ss
  <2>1. live \ ss \in SUBSET Sockets
    BY DEF live
  <2> QED BY <2>1, SocketMade, Zenon
<1>4. socks[new] = noSocket /\ socks[new].wire = <<>>
  BY <1>2 DEF LiveSockets, noSocket
<1> HIDE DEF left, new, socket
<1>5. /\ socks' \in [Sockets -> Socket] /\ socks'[new] = socket
      /\ \A s \in Sockets : s # new => socks'[s] = left[s]
  BY <1>1, <1>2, <1>3
<1>6. \A s \in Sockets : s <= made => s # new /\ socks'[s].beside = socks[s].beside
  BY <1>1, <1>2, <1>5
<1>7. \A s \in Sockets : Thins(socks'[s].wire, socks[s].wire)
  <2>1. Thins(<<>>, socks[new].wire)
    BY <1>2, ThinsSame, NoteSequences DEF wire
  <2> QED BY <1>1, <1>3, <1>5, <2>1
<1>8. LiveSockets'
  <2>1. \A s \in Sockets : s > made' => socks'[s] = noSocket
    <3>1. ASSUME NEW s \in Sockets, s > made'
          PROVE  s > made /\ s # new
      BY <1>2, <3>1 DEF Sockets
    <3> QED BY <1>1, <1>5, <3>1
  <2>2. \A s \in Sockets : socks'[s].wire # <<>> => s \in up'
    BY <1>1, <1>3, <1>5 DEF up
  <2>3. ASSUME NEW s \in live', s # new
        PROVE  s \in live \ ss /\ s \in Sockets /\ socks'[s].beside = socks[s].beside
    BY <1>1, <1>5, <2>3 DEF live
  <2>4. ASSUME NEW s \in live', NEW r \in live', s # r
        PROVE  s \in socks'[r].beside \/ r \in socks'[s].beside
    <3>1. CASE s = new
      BY <1>3, <1>5, <2>3, <2>4, <3>1
    <3>2. CASE r = new
      BY <1>3, <1>5, <2>3, <2>4, <3>2
    <3>3. CASE s # new /\ r # new
      BY <2>3, <2>4, <3>3 DEF LiveSockets
    <3> QED BY <3>1, <3>2, <3>3
  <2> QED BY <2>1, <2>2, <2>4 DEF LiveSockets
<1> QED BY <1>2, <1>5, <1>6, <1>7, <1>8 DEF SocketsMove

LEMMA ReconnectMoves ==
  ASSUME PhoneTypes, LiveSockets, NEW s \in Sockets, Reconnects(s)
  PROVE  SocketsMove
<1>1. made' = made /\ made \in 0..MaxSockets /\ socks[s] \in Socket
      /\ s \notin up /\ s \in live /\ socks[s].wire = <<>>
  BY DEF Reconnects, phoneVars, socketVars, PhoneTypes, LiveSockets, up, live
<1>2. \E at \in {"lost", "up"}, n \in Nat :
        socks' = [socks EXCEPT ![s] = [socks[s] EXCEPT !.at = at, !.dials = n]]
  <2>1. CASE socks' = [socks EXCEPT ![s].at = "lost"]
    <3>1. socks[s].dials \in Nat /\ [socks[s] EXCEPT !.at = "lost"]
            = [socks[s] EXCEPT !.at = "lost", !.dials = socks[s].dials]
      BY <1>1 DEF Socket
    <3> QED BY <2>1, <3>1
  <2>2. CASE socks' = [socks EXCEPT ![s].at = "up", ![s].dials = @ + 1]
    <3>1. socks[s].dials + 1 \in Nat
      BY <1>1 DEF Socket
    <3>2. socks' = [socks EXCEPT ![s] = [socks[s] EXCEPT !.at = "up", !.dials = socks[s].dials + 1]]
      BY <2>2 DEF PhoneTypes
    <3> QED BY <3>1, <3>2
  <2> QED BY <2>1, <2>2 DEF Reconnects
<1>3. /\ socks' \in [Sockets -> Socket]
      /\ \A r \in Sockets : r # s => socks'[r] = socks[r]
      /\ socks'[s].at \in {"lost", "up"}
      /\ socks'[s].wire = socks[s].wire /\ socks'[s].beside = socks[s].beside
  <2>1. PICK at \in {"lost", "up"}, n \in Nat :
          socks' = [socks EXCEPT ![s] = [socks[s] EXCEPT !.at = at, !.dials = n]]
    BY <1>2
  <2> DEFINE d == [socks[s] EXCEPT !.at = at, !.dials = n]
  <2>2. socks[s] \in Socket
    BY <1>1
  <2>3. d \in Socket /\ d.at = at /\ d.wire = socks[s].wire /\ d.beside = socks[s].beside
    BY <2>2 DEF Socket
  <2>4. socks \in [Sockets -> Socket] /\ socks' = [socks EXCEPT ![s] = d]
    BY <2>1 DEF PhoneTypes
  <2> HIDE DEF d
  <2> QED BY <2>3, <2>4
<1>4. live' = live /\ up \in SUBSET up'
  BY <1>1, <1>3 DEF live, up
<1>5. LiveSockets'
  <2>1. \A r \in Sockets : r > made' => socks'[r] = noSocket
    <3>1. ~(s > made)
      BY <1>1 DEF LiveSockets, live, noSocket
    <3> QED BY <1>1, <1>3, <3>1 DEF LiveSockets
  <2>2. \A r \in Sockets : socks'[r].wire # <<>> => r \in up'
    BY <1>1, <1>3, <1>4 DEF LiveSockets
  <2>3. \A q, r \in live' : q # r => q \in socks'[r].beside \/ r \in socks'[q].beside
    BY <1>3, <1>4 DEF LiveSockets, live
  <2> QED BY <2>1, <2>2, <2>3 DEF LiveSockets
<1>6. \A r \in Sockets : Thins(socks'[r].wire, socks[r].wire)
  BY <1>3, NoteSequences, ThinsSame DEF wire
<1> QED BY <1>1, <1>3, <1>5, <1>6 DEF SocketsMove

----------------------------------------------------------------------------
(* The line.                                                               *)

LEMMA ConcatAppend ==
  ASSUME NEW g \in Seq(Note), NEW q \in Seq(Note), NEW e \in Note
  PROVE  g \o Append(q, e) = Append(g \o q, e)
<1>1. Append(q, e) = q \o <<e>> /\ <<e>> \in Seq(Note)
  BY AppendIsConcat
<1>2. g \o q \in Seq(Note)
  OBVIOUS
<1>3. Append(g \o q, e) = (g \o q) \o <<e>>
  BY <1>2, AppendIsConcat
<1> QED BY <1>1, <1>3, ConcatAssociative

\* The queue is as it was, loses its head, or gets something at its end that is no message.
LEMMA LineThins ==
  ASSUME PhoneTypes, given' = given, job'.kept = job.kept,
         \/ inbox' = inbox
         \/ \E e \in Note : e.t # "message" /\ inbox' = Append(inbox, e)
         \/ inbox # <<>> /\ inbox' = Tail(inbox)
  PROVE  inbox' \in Seq(Note) /\ Thins(line', line)
<1> DEFINE g == given \o job.kept
<1>1. /\ g \in Seq(Note) /\ line \in Seq(Note) /\ inbox \in Seq(Note)
      /\ line = g \o inbox /\ line' = g \o inbox'
  BY NoteSequences DEF line, PhoneTypes
<1> HIDE DEF g
<1>2. CASE inbox' = inbox
  BY <1>1, <1>2, ThinsSame
<1>3. ASSUME NEW e \in Note, e.t # "message", inbox' = Append(inbox, e)
      PROVE  inbox' \in Seq(Note) /\ Thins(line', line)
  <2>1. line' = Append(line, e)
    BY <1>1, <1>3, ConcatAppend
  <2> QED BY <1>1, <1>3, <2>1, ThinsAppended
<1>4. CASE inbox # <<>> /\ inbox' = Tail(inbox)
  <2>1. Tail(inbox) \in Seq(Note)
    BY <1>1, <1>4
  <2> QED BY <1>1, <1>4, <2>1, ThinsTail
<1> QED BY <1>2, <1>3, <1>4

\* A step that is quiet, put together from what it does.
LEMMA StepIsQuiet ==
  ASSUME PhoneTypes, SocketsMove, JobOK(job'), userSocket' \in 0..made', walk' \in Walk,
         cli' \in Cli, row' \in SessionRow, events' \in Seq(Connection),
         inbox' \in Seq(Note), given' \in Seq(Message), Thins(line', line),
         UNCHANGED <<seq, log, handling>>
  PROVE  Quiet
<1>1. ServerTypes'
  BY DEF PhoneTypes, ServerTypes
<1>2. PhoneTypes'
  BY <1>1 DEF PhoneTypes, SocketsMove
<1> QED BY <1>2 DEF Quiet

\* Nothing but the queue and the job.
LEMMA QueueStep ==
  ASSUME PhoneTypes, LiveSockets, JobOK(job'), job'.kept = job.kept,
         cli' \in Cli, events' \in Seq(Connection),
         UNCHANGED <<row, seq, log, handling, socks, made, userSocket, given, walk>>,
         \/ inbox' = inbox
         \/ \E e \in Note : e.t # "message" /\ inbox' = Append(inbox, e)
         \/ inbox # <<>> /\ inbox' = Tail(inbox)
  PROVE  Quiet
<1>1. SocketsMove
  BY SocketsRest
<1>2. inbox' \in Seq(Note) /\ Thins(line', line)
  BY LineThins
<1>3. /\ userSocket' \in 0..made' /\ walk' \in Walk
      /\ row' \in SessionRow /\ given' \in Seq(Message)
  BY DEF PhoneTypes, ServerTypes
<1> QED BY <1>1, <1>2, <1>3, StepIsQuiet

----------------------------------------------------------------------------
(* The jobs.                                                               *)

\* A job that keeps no message.
Fresh(j) == JobOK(j) /\ j.kept = <<>>

LEMMA IdleOK ==
  /\ idle \in Job /\ idle.t = "none" /\ idle.pc = "rest" /\ idle.then = "rest"
  /\ idle.kept = <<>> /\ JobOK(idle)
<1>1. <<>> \in Seq(Message) /\ "remote" \in Controls
  BY DEF Controls
<1>2. ASSUME NEW none \in Seq(Message), NEW control \in Controls
      PROVE  [t |-> "none", pc |-> "rest", then |-> "rest", active |-> FALSE,
              control |-> control, kept |-> none] \in Job
  BY DEF Job
<1>3. idle \in Job
  BY <1>1, <1>2, Zenon DEF idle
<1> QED BY <1>3 DEF idle, JobOK

LEMMA JobsFresh ==
  ASSUME PhoneTypes
  PROVE  /\ Fresh(idle)
         /\ Fresh([idle EXCEPT !.t = "connect", !.pc = "dial"])
         /\ Fresh([idle EXCEPT !.t = "list", !.pc = "read", !.then = "done"])
         /\ Fresh(ensured([idle EXCEPT !.t = "send"], "doGate"))
         /\ \A mode \in Controls : Fresh(ensured([idle EXCEPT !.t = mode], "doMark"))
         /\ job.kept = <<>> => Fresh(ensured(job, "doGate"))
<1>1. /\ idle \in Job /\ idle.t = "none" /\ idle.pc = "rest" /\ idle.then = "rest"
      /\ idle.kept = <<>>
  BY IdleOK
<1>2. Fresh(idle)
  BY <1>1 DEF Fresh, JobOK
<1>3. Fresh([idle EXCEPT !.t = "connect", !.pc = "dial"])
  <2> DEFINE j == [idle EXCEPT !.t = "connect", !.pc = "dial"]
  <2>1. j \in Job /\ j.pc = "dial" /\ j.then = "rest" /\ j.kept = <<>>
    BY <1>1 DEF Job
  <2> HIDE DEF j
  <2>2. Fresh(j)
    BY <2>1 DEF Fresh, JobOK
  <2> QED BY <2>2 DEF j
<1>4. Fresh([idle EXCEPT !.t = "list", !.pc = "read", !.then = "done"])
  <2> DEFINE j == [idle EXCEPT !.t = "list", !.pc = "read", !.then = "done"]
  <2>1. j \in Job /\ j.pc = "read" /\ j.then = "done" /\ j.kept = <<>>
    BY <1>1 DEF Job
  <2> HIDE DEF j
  <2>2. Fresh(j)
    BY <2>1 DEF Fresh, JobOK
  <2> QED BY <2>2 DEF j
\* ensureSessionFSM
<1>5. ASSUME NEW x \in Job, x.kept = <<>>, NEW then \in {"doGate", "doMark"},
             then = "doMark" => x.t \in Controls
      PROVE  Fresh(ensured(x, then))
  <2> DEFINE j == ensured(x, then)
  <2>1. PICK pc \in {then, "read"} : j = [x EXCEPT !.pc = pc, !.then = then]
    <3>1. CASE fresh
      BY <3>1 DEF ensured
    <3>2. CASE ~fresh
      BY <3>2 DEF ensured
    <3> QED BY <3>1, <3>2
  <2> HIDE DEF j
  <2>2. j \in Job /\ j.t = x.t /\ j.pc = pc /\ j.then = then /\ j.kept = <<>>
    BY <1>5, <2>1 DEF Job
  <2>3. Fresh(j)
    BY <1>5, <2>2 DEF Fresh, JobOK
  <2> QED BY <2>3 DEF j
<1>6. \A t \in {"send"} \cup Controls :
        /\ [idle EXCEPT !.t = t] \in Job /\ [idle EXCEPT !.t = t].t = t
        /\ [idle EXCEPT !.t = t].kept = <<>>
  BY <1>1 DEF Job, Controls
<1>7. Fresh(ensured([idle EXCEPT !.t = "send"], "doGate"))
  BY <1>5, <1>6
<1>8. \A mode \in Controls : Fresh(ensured([idle EXCEPT !.t = mode], "doMark"))
  BY <1>5, <1>6
<1>9. job.kept = <<>> => Fresh(ensured(job, "doGate"))
  <2>1. job \in Job
    BY DEF PhoneTypes, JobOK
  <2> QED BY <1>5, <2>1
<1> QED BY <1>2, <1>3, <1>4, <1>7, <1>8, <1>9

----------------------------------------------------------------------------
(* Steps of the app, the sockets and the CLI that move no message.         *)

LEMMA KeptWhileReading ==
  ASSUME PhoneTypes
  PROVE  /\ job \in Job /\ Fresh(idle)
         /\ job.pc \notin {"read", "turns"} \/ job.then # "retry" => job.kept = <<>>
         /\ job = idle => job.kept = <<>>
<1>1. job \in Job /\ (job.pc \notin {"read", "turns"} \/ job.then # "retry" => job.kept = <<>>)
  BY DEF PhoneTypes, JobOK
<1>2. Fresh(idle)
  BY JobsFresh
<1> QED BY <1>1, <1>2 DEF Fresh

\* Calls of the app, and the end of a window.
LEMMA AppQuiet ==
  ASSUME PhoneTypes, LiveSockets, (\E t \in Kinds : Calls(t)) \/ \E w \in recent : Expires(w)
  PROVE  Quiet /\ log' = log /\ walk' = walk
<1>1. UNCHANGED <<cli, row, seq, log, events, handling, job, socks, made, userSocket, given, walk>>
  <2>1. CASE \E t \in Kinds : Calls(t)
    BY <2>1 DEF Calls, phoneVars, socketVars
  <2>2. CASE \E w \in recent : Expires(w)
    BY <2>2 DEF Expires, serverVars, socketVars
  <2> QED BY <2>1, <2>2
<1>2. inbox' = inbox \/ \E e \in Note : e.t # "message" /\ inbox' = Append(inbox, e)
  <2>1. ASSUME NEW t \in Kinds, Calls(t)
        PROVE  \E e \in Note : e.t # "message" /\ inbox' = Append(inbox, e)
    <3>1. [t |-> t] \in Note /\ [t |-> t].t # "message" /\ inbox' = Append(inbox, [t |-> t])
      BY <2>1 DEF Calls, Note, Kinds
    <3> QED BY <3>1
  <2>2. ASSUME NEW w \in recent, Expires(w)
        PROVE  inbox' = inbox
    BY <2>2 DEF Expires, serverVars
  <2> QED BY <2>1, <2>2
<1>3. JobOK(job) /\ cli \in Cli /\ events \in Seq(Connection)
  BY DEF PhoneTypes, ServerTypes
<1> QED BY <1>1, <1>2, <1>3, QueueStep

\* connect, disconnect, and what the library does.
LEMMA SocketsQuiet ==
  ASSUME PhoneTypes, LiveSockets,
         \/ Connect \/ Connected \/ ConnectTimesOut \/ RefreshesToken \/ Disconnect
         \/ \E s \in Sockets : Breaks(s) \/ Reconnects(s)
  PROVE  Quiet /\ log' = log /\ walk' = walk
<1>1. UNCHANGED <<cli, row, seq, log, events, handling, given, walk>>
  <2>1. CASE Connect \/ Connected \/ ConnectTimesOut \/ RefreshesToken \/ Disconnect
    BY <2>1, Zenon DEF Connect, Connected, ConnectTimesOut, RefreshesToken, Disconnect
  <2>2. CASE \E s \in Sockets : Breaks(s) \/ Reconnects(s)
    BY <2>2, Zenon DEF Breaks, Reconnects, phoneVars
  <2> QED BY <2>1, <2>2
<1>2. /\ cli' \in Cli /\ row' \in SessionRow /\ events' \in Seq(Connection)
      /\ given' \in Seq(Message) /\ walk' \in Walk /\ JobOK(job)
      /\ made \in 0..MaxSockets /\ userSocket \in 0..made /\ {} \in SUBSET (0..made)
  BY <1>1 DEF PhoneTypes, ServerTypes
<1>3. /\ Fresh(idle) /\ Fresh([idle EXCEPT !.t = "connect", !.pc = "dial"]) /\ job \in Job
      /\ job.pc \notin {"read", "turns"} \/ job.then # "retry" => job.kept = <<>>
      /\ job = idle => job.kept = <<>>
  BY JobsFresh, KeptWhileReading
<1>4. ASSUME SocketsMove, JobOK(job'), job'.kept = job.kept, userSocket' \in 0..made',
             \/ inbox' = inbox
             \/ \E e \in Note : e.t # "message" /\ inbox' = Append(inbox, e)
             \/ inbox # <<>> /\ inbox' = Tail(inbox)
      PROVE  Quiet
  BY <1>1, <1>2, <1>4, LineThins, StepIsQuiet
<1>5. CASE Connect
  <2>1. /\ job = idle /\ job' = [idle EXCEPT !.t = "connect", !.pc = "dial"]
        /\ inbox # <<>> /\ inbox' = Tail(inbox)
        /\ made < MaxSockets /\ Dial({}) /\ userSocket' = userSocket
    BY <1>5 DEF Connect, Run, Hold
  <2>2. SocketsMove
    BY <1>2, <2>1, DialMoves
  <2>3. JobOK(job') /\ job'.kept = job.kept
    BY <1>3, <2>1 DEF Fresh
  <2>4. userSocket' \in 0..made'
    BY <1>2, <2>1 DEF Dial
  <2> QED BY <1>1, <1>4, <2>1, <2>2, <2>3, <2>4
<1>6. CASE Connected
  <2> DEFINE e == [t |-> "list"]
  <2>1. /\ job.pc = "dial" /\ job' = idle /\ inbox' = Append(inbox, e)
        /\ socks' = socks /\ made' = made /\ userSocket' = made
    BY <1>6 DEF Connected, Dialing
  <2>2. e \in Note /\ e.t # "message"
    BY DEF Note, Kinds
  <2>3. JobOK(job') /\ job'.kept = job.kept
    BY <1>3, <2>1 DEF Fresh
  <2> HIDE DEF e
  <2> QED BY <1>1, <1>2, <1>4, <2>1, <2>2, <2>3, SocketsRest
<1>7. CASE ConnectTimesOut
  <2>1. /\ job.pc = "dial" /\ job' \in {idle, [job EXCEPT !.pc = "refresh"]} /\ inbox' = inbox
        /\ socks' = socks /\ made' = made /\ userSocket' = userSocket
    BY <1>7 DEF ConnectTimesOut, Dialing
  <2>2. JobOK(job') /\ job'.kept = job.kept
    <3>1. LET j == [job EXCEPT !.pc = "refresh"]
          IN  /\ j \in Job /\ j.pc = "refresh" /\ j.then = job.then /\ j.t = job.t
              /\ j.kept = job.kept
      BY <1>3 DEF Job
    <3>2. JobOK([job EXCEPT !.pc = "refresh"])
      BY <1>2, <1>3, <2>1, <3>1 DEF JobOK
    <3> QED BY <1>3, <2>1, <3>1, <3>2 DEF Fresh
  <2> QED BY <1>1, <1>2, <1>4, <2>1, <2>2, SocketsRest
<1>8. CASE RefreshesToken
  <2>1. job.pc = "refresh" /\ inbox' = inbox /\ userSocket' = userSocket
    BY <1>8 DEF RefreshesToken, Dialing
  <2>2. CASE /\ made < MaxSockets /\ Dial({made})
             /\ job' = [job EXCEPT !.pc = "dial", !.then = "again"]
    <3>1. SocketsMove
      <4>1. {made} \in SUBSET (0..made)
        BY <1>2
      <4> QED BY <2>2, <4>1, DialMoves
    <3>2. /\ job' \in Job /\ job'.pc = "dial" /\ job'.then = "again" /\ job'.kept = job.kept
      BY <1>3, <2>2 DEF Job
    <3>3. JobOK(job')
      BY <1>3, <2>1, <3>2 DEF JobOK
    <3>4. userSocket' \in 0..made'
      BY <1>2, <2>1, <2>2 DEF Dial
    <3> QED BY <1>1, <1>4, <2>1, <3>1, <3>2, <3>3, <3>4
  <2>3. CASE job' = idle /\ socks' = socks /\ made' = made
    <3>1. JobOK(job') /\ job'.kept = job.kept
      BY <1>3, <2>1, <2>3 DEF Fresh
    <3> QED BY <1>1, <1>2, <1>4, <2>1, <2>3, <3>1, SocketsRest
  <2> QED BY <1>1, <1>8, <2>2, <2>3 DEF RefreshesToken
<1>9. CASE Disconnect
  <2>1. /\ job' = job /\ inbox # <<>> /\ inbox' = Tail(inbox)
        /\ made' = made /\ userSocket' = 0 /\ socks' = lose({userSocket}, "closed")
    BY <1>9 DEF Disconnect, Run, Rest
  <2>2. SocketsMove
    <3>1. {userSocket} \in SUBSET (0..made)
      BY <1>2
    <3> QED BY <2>1, <3>1, LosesMove
  <2> QED BY <1>1, <1>2, <1>4, <2>1, <2>2
<1>10. ASSUME NEW s \in Sockets, Breaks(s)
       PROVE  Quiet
  <2>1. /\ UNCHANGED <<job, inbox, made, userSocket>>
        /\ s \in up /\ socks' = lose({s}, "dying")
    BY <1>10 DEF Breaks, up, phoneVars, socketVars
  <2>2. SocketsMove
    <3>1. {s} \in SUBSET (0..made) /\ {s} \in SUBSET up
      BY <1>2, <2>1 DEF LiveSockets, Sockets, up, noSocket
    <3> QED BY <2>1, <3>1, LosesMove
  <2> QED BY <1>1, <1>2, <1>4, <2>1, <2>2
<1>11. ASSUME NEW s \in Sockets, Reconnects(s)
       PROVE  Quiet
  <2>1. UNCHANGED <<job, inbox, made, userSocket>>
    BY <1>11 DEF Reconnects, phoneVars, socketVars
  <2> QED BY <1>1, <1>2, <1>4, <1>11, <2>1, ReconnectMoves
<1> QED BY <1>1, <1>5, <1>6, <1>7, <1>8, <1>9, <1>10, <1>11

\* The CLI's reports.
LEMMA ReportsQuiet ==
  ASSUME PhoneTypes, LiveSockets, UNCHANGED phoneVars,
         \/ Presence \/ DesktopSwitch \/ CliSends \/ PersistControl
         \/ \E b : KeepAlive(b)
  PROVE  Quiet /\ log' = log /\ walk' = walk
<1>1. UNCHANGED <<seq, log, handling, inbox, job, made, userSocket, given, walk>>
  BY Zenon DEF Presence, DesktopSwitch, CliSends, PersistControl, KeepAlive, phoneVars, socketVars
<1>2. /\ cli \in Cli /\ row \in SessionRow /\ events \in Seq(Connection) /\ JobOK(job)
      /\ inbox' \in Seq(Note) /\ given' \in Seq(Message) /\ walk' \in Walk
      /\ userSocket' \in 0..made'
  BY <1>1 DEF PhoneTypes, ServerTypes
<1>3. ASSUME SocketsMove, cli' \in Cli, row' \in SessionRow, events' \in Seq(Connection)
      PROVE  Quiet
  <2>1. Thins(line', line)
    BY <1>1, LineThins
  <2> QED BY <1>1, <1>2, <1>3, <2>1, StepIsQuiet
<1>4. ASSUME NEW c \in Cli, Report(c)
      PROVE  row' \in SessionRow /\ SocketsMove
  <2> DEFINE e == activity(c.up, c.working)
  <2>1. row' \in SessionRow
    BY <1>2, <1>4 DEF Report, Cli, SessionRow
  <2>2. e \in Note /\ e.t # "message" /\ Emit(e)
    BY <1>4 DEF Report, activity, Note, Cli
  <2> HIDE DEF e
  <2> QED BY <1>1, <2>1, <2>2, Emitted
<1>5. CASE Presence
  <2>1. cli' \in Cli /\ Report(cli') /\ events' = events
    BY <1>2, <1>5 DEF Presence, Cli
  <2> QED BY <1>1, <1>2, <1>3, <1>4, <2>1
<1>6. CASE DesktopSwitch
  <2>1. cli' \in Cli /\ row' = row /\ events' = events /\ socks' = socks
    BY <1>2, <1>6 DEF DesktopSwitch, controlled, Cli, Controls
  <2> QED BY <1>1, <1>2, <1>3, <2>1, SocketsRest
<1>7. CASE CliSends
  <2>1. cli' = cli /\ row' = row /\ events' = enqueue(cliConnection) /\ socks' = socks
    BY <1>7 DEF CliSends
  <2>2. cliConnection \in Connection
    BY DEF cliConnection, Connection
  <2>3. events' \in Seq(Connection)
    BY <1>2, <2>1, <2>2 DEF enqueue
  <2> QED BY <1>1, <1>2, <1>3, <2>1, <2>3, SocketsRest
<1>8. CASE PersistControl
  <2> DEFINE e == [t |-> "control", control |-> cli.control]
  <2>1. cli' \in Cli /\ row' \in SessionRow /\ events' = events /\ Emit(e)
    BY <1>2, <1>8 DEF PersistControl, Cli, SessionRow
  <2>2. e \in Note /\ e.t # "message"
    BY <1>2 DEF Note, Cli
  <2> HIDE DEF e
  <2>3. SocketsMove
    BY <1>1, <2>1, <2>2, Emitted
  <2> QED BY <1>1, <1>2, <1>3, <2>1, <2>3
<1>9. CASE \E b : KeepAlive(b)
  <2>1. cli' = cli /\ Report(cli) /\ events' = events
    BY <1>9, Zenon DEF KeepAlive
  <2> QED BY <1>1, <1>2, <1>3, <1>4, <2>1
<1> QED BY <1>1, <1>5, <1>6, <1>7, <1>8, <1>9

----------------------------------------------------------------------------
(* Steps of the dispatcher.                                                *)

\* An input of the dispatcher that is no message leaves the queue.
LEMMA BeginsQuiet ==
  ASSUME PhoneTypes, LiveSockets,
         \/ StartList \/ StartSend \/ HandleActivity \/ HandleControl
         \/ \E mode \in {"remote", "local"} : StartSwitch(mode)
  PROVE  Quiet /\ log' = log /\ walk' = walk
<1>1. /\ UNCHANGED <<cli, row, seq, log, events, handling, socks, made, userSocket, given, walk>>
      /\ job = idle /\ inbox # <<>> /\ inbox' = Tail(inbox)
  <2>1. CASE StartList
    BY <2>1 DEF StartList, Run, Hold, socketVars
  <2>2. CASE StartSend
    BY <2>2 DEF StartSend, Run, Rest, Hold, socketVars
  <2>3. CASE HandleActivity \/ HandleControl
    BY <2>3 DEF HandleActivity, HandleControl, Run, Rest, socketVars
  <2>4. CASE \E mode \in {"remote", "local"} : StartSwitch(mode)
    BY <2>4 DEF StartSwitch, Run, Rest, Hold, socketVars
  <2> QED BY <2>1, <2>2, <2>3, <2>4
<1>2. Fresh(job')
  <2>0. Fresh(job)
    BY <1>1, JobsFresh, Zenon
  <2>1. CASE StartList
    BY <2>1, JobsFresh, Zenon DEF StartList, Hold
  <2>2. CASE StartSend
    BY <2>0, <2>2, JobsFresh, Zenon DEF StartSend, Hold, Rest
  <2>3. CASE HandleActivity \/ HandleControl
    BY <2>0, <2>3, Zenon DEF HandleActivity, HandleControl, Rest
  <2>4. ASSUME NEW mode \in {"remote", "local"}, StartSwitch(mode)
        PROVE  Fresh(job')
    <3>1. mode \in Controls
      BY DEF Controls
    <3> QED BY <2>0, <2>4, <3>1, JobsFresh, Zenon DEF StartSwitch, Hold, Rest
  <2> QED BY <2>1, <2>2, <2>3, <2>4
<1>3. job.kept = <<>> /\ cli \in Cli /\ events \in Seq(Connection)
  BY <1>1, KeptWhileReading DEF PhoneTypes, ServerTypes
<1> QED BY <1>1, <1>2, <1>3, QueueStep DEF Fresh

\* A job goes on.
LEMMA JobsQuiet ==
  ASSUME PhoneTypes, LiveSockets, SendMessage \/ Mark \/ EnsureAgain \/ Gate \/ Call
  PROVE  Quiet /\ log' = log /\ walk' = walk
<1>1. /\ UNCHANGED <<row, seq, log, handling, socks, inbox, made, userSocket, given, walk>>
      /\ job.pc \notin {"read", "turns"}
  <2>1. UNCHANGED <<row, seq, log, handling, socks, inbox, made, userSocket, given, walk>>
    BY Zenon DEF SendMessage, Mark, EnsureAgain, Gate, Call, serverVars, socketVars
  <2>2. job.pc \in {"doGate", "doMark", "ensure", "call"}
    BY Zenon DEF SendMessage, Mark, EnsureAgain, Gate, Call
  <2> QED BY <2>1, <2>2
<1>2. /\ job \in Job /\ cli \in Cli /\ events \in Seq(Connection) /\ job.kept = <<>>
      /\ job.pc \in {"doMark", "call"} \/ job.then = "doMark" => job.t \in Controls
      /\ Fresh(idle) /\ Fresh(ensured(job, "doGate"))
  BY <1>1, KeptWhileReading, JobsFresh DEF PhoneTypes, ServerTypes, JobOK
<1>3. ASSUME Fresh(job'), cli' \in Cli, events' \in Seq(Connection)
      PROVE  Quiet
  BY <1>1, <1>2, <1>3, QueueStep DEF Fresh
<1>4. ASSUME NEW pc \in {"ensure", "call"}, job.t \in Controls, job' = [job EXCEPT !.pc = pc]
      PROVE  Fresh(job')
  <2>1. job' \in Job /\ job'.t \in Controls /\ job'.kept = <<>> /\ job'.pc = pc
    BY <1>2, <1>4 DEF Job
  <2> QED BY <2>1 DEF Fresh, JobOK
<1>5. CASE SendMessage
  <2>1. job' = idle /\ cli' = cli /\ events' \in {enqueue(connection(userSocket)), events}
           /\ (events' = events \/ userSocket \in up)
    BY <1>5 DEF SendMessage
  <2>2. events' \in Seq(Connection)
    <3>1. userSocket \in up => connection(userSocket) \in Connection
      BY DEF connection, Connection, up, PhoneTypes, Socket
    <3> QED BY <1>2, <2>1, <3>1 DEF enqueue
  <2> QED BY <1>1, <1>2, <1>3, <2>1, <2>2
<1>6. CASE EnsureAgain
  <2>1. job' = ensured(job, "doGate") /\ cli' = cli /\ events' = events
    BY <1>6 DEF EnsureAgain, serverVars
  <2> QED BY <1>1, <1>2, <1>3, <2>1
<1>7. CASE Call
  <2>1. job' = idle /\ cli' \in {cli, controlled(job.t)} /\ events' = events /\ job.pc = "call"
    BY <1>7 DEF Call
  <2>2. cli' \in Cli
    BY <1>2, <2>1 DEF controlled, Cli
  <2> QED BY <1>1, <1>2, <1>3, <2>1, <2>2
<1>8. CASE Mark
  <2>1. /\ job' = [job EXCEPT !.pc = IF job.t = "remote" THEN "ensure" ELSE "call"]
        /\ job.t \in Controls /\ cli' = cli /\ events' = events
    BY <1>2, <1>8 DEF Mark, serverVars
  <2>2. job' = [job EXCEPT !.pc = "ensure"] \/ job' = [job EXCEPT !.pc = "call"]
    BY <2>1
  <2>3. Fresh(job')
    BY <1>4, <2>1, <2>2
  <2> QED BY <1>1, <1>2, <1>3, <2>1, <2>3
<1>9. CASE Gate
  <2>1. /\ job' = [job EXCEPT !.pc = "call"] \/ job' = idle
        /\ job.t \in Controls /\ cli' = cli /\ events' = events
    BY <1>9 DEF Gate, serverVars, Controls
  <2>2. Fresh(job')
    BY <1>2, <1>4, <2>1
  <2> QED BY <1>1, <1>2, <1>3, <2>1, <2>2
<1> QED BY <1>1, <1>5, <1>6, <1>7, <1>8, <1>9

----------------------------------------------------------------------------
(* Messages for the app: the line is as it was.                            *)

\* The message that was kept, if any, is given: the job is over.
LEMMA KeptIsGiven ==
  ASSUME PhoneTypes, LiveSockets, Fresh(job'), given' = given \o job.kept,
         UNCHANGED <<cli, row, seq, log, events, handling, socks, inbox, made, userSocket, walk>>
  PROVE  Quiet
<1>1. /\ given \o job.kept \in Seq(Message) /\ given \o job.kept \in Seq(Note)
      /\ line \in Seq(Note) /\ inbox \in Seq(Note)
  BY NoteSequences DEF PhoneTypes
<1>2. line' = line
  <2>1. (given \o job.kept) \o <<>> = given \o job.kept
    BY <1>1, ConcatEmptySeq
  <2>2. line' = ((given \o job.kept) \o <<>>) \o inbox
    BY DEF line, Fresh
  <2> QED BY <2>1, <2>2 DEF line
<1>3. Thins(line', line)
  BY <1>1, <1>2, ThinsSame
<1>4. SocketsMove
  BY SocketsRest
<1> QED BY <1>1, <1>3, <1>4, StepIsQuiet DEF Fresh, PhoneTypes, ServerTypes

LEMMA ListQuiet ==
  ASSUME PhoneTypes, LiveSockets, ReadSessions \/ ListSessions
  PROVE  Quiet /\ log' = log /\ walk' = walk
<1>1. UNCHANGED <<cli, row, seq, log, events, handling, socks, inbox, made, userSocket, walk>>
  BY Zenon DEF ReadSessions, ListSessions, socketVars
<1>2. /\ job \in Job /\ JobOK(job) /\ cli \in Cli /\ row \in SessionRow
      /\ events \in Seq(Connection)
      /\ job.then # "retry" => job.kept = <<>>
      /\ Fresh(idle) /\ given \in Seq(Message)
  BY KeptWhileReading DEF PhoneTypes, ServerTypes
<1>3. ASSUME JobOK(job'), job'.kept = job.kept, given' = given
      PROVE  Quiet
  BY <1>1, <1>2, <1>3, QueueStep
<1>4. ASSUME Fresh(job'), given' = given \o job.kept
      PROVE  Quiet
  BY <1>1, <1>4, KeptIsGiven
<1>5. CASE ReadSessions
  <2>1. job.pc = "read"
    BY <1>5 DEF ReadSessions
  <2>2. CASE /\ job' = [job EXCEPT !.pc = "turns", !.active = row.active, !.control = row.control]
             /\ given' = given
    <3>1. /\ job' \in Job /\ job'.then = job.then /\ job'.kept = job.kept /\ job'.pc = "turns"
          /\ job'.t = job.t
      BY <1>2, <2>2 DEF Job, SessionRow
    <3>2. JobOK(job')
      BY <1>2, <2>1, <3>1 DEF JobOK
    <3> QED BY <1>1, <1>3, <2>2, <3>1, <3>2
  <2>3. CASE job' = listFailed /\ given' = given \o job.kept
    <3>1. \/ job' = idle
          \/ /\ job.then = "doMark" /\ job.t = "remote" /\ job' = [job EXCEPT !.then = "doGate"]
          \/ /\ job.then = "doMark" /\ job' = [job EXCEPT !.pc = "call"]
      BY <2>3 DEF listFailed
    <3>2. CASE job.then = "doMark" /\ job.t = "remote" /\ job' = [job EXCEPT !.then = "doGate"]
      <4>1. job' \in Job /\ job'.pc = "read" /\ job'.then = "doGate" /\ job'.kept = <<>>
        BY <1>2, <2>1, <3>2 DEF Job
      <4> QED BY <1>1, <1>4, <2>3, <4>1 DEF Fresh, JobOK
    <3>3. CASE job.then = "doMark" /\ job' = [job EXCEPT !.pc = "call"]
      <4>1. /\ job' \in Job /\ job'.pc = "call" /\ job'.then = "doMark" /\ job'.t = job.t
            /\ job'.kept = <<>>
        BY <1>2, <3>3 DEF Job
      <4> QED BY <1>1, <1>2, <1>4, <2>3, <3>3, <4>1 DEF Fresh, JobOK
    <3> QED BY <1>1, <1>2, <1>4, <2>3, <3>1, <3>2, <3>3
  <2> QED BY <1>1, <1>5, <2>2, <2>3 DEF ReadSessions, GiveKept
<1>6. CASE ListSessions
  <2>1. given' = given \o job.kept
    BY <1>6 DEF ListSessions, GiveKept
  <2>2. \/ job' = idle
        \/ job.then \notin {"done", "retry"} /\ job' = [job EXCEPT !.pc = job.then]
    BY <1>6 DEF ListSessions
  <2>3. CASE job.then \notin {"done", "retry"} /\ job' = [job EXCEPT !.pc = job.then]
    <3>0. job.then \in {"doGate", "doMark"}
      BY <1>2, <1>6, <2>3 DEF JobOK, ListSessions
    <3>1. /\ job' \in Job /\ job'.pc = job.then /\ job'.then = job.then /\ job'.t = job.t
          /\ job'.kept = <<>>
      BY <1>2, <2>3, <3>0 DEF Job
    <3>2. job'.pc = "call" => job'.then = "doMark"
      BY <3>0, <3>1
    <3> QED BY <1>1, <1>2, <1>4, <2>1, <3>0, <3>1, <3>2 DEF Fresh, JobOK
  <2> QED BY <1>1, <1>2, <1>4, <2>1, <2>2, <2>3
<1> QED BY <1>1, <1>5, <1>6

\* The first of the queue is given, or kept by the list that it needs.
LEMMA MessageQuiet ==
  ASSUME PhoneTypes, LiveSockets, HandleMessageUpdate
  PROVE  Quiet /\ log' = log /\ walk' = walk
<1> DEFINE m == Head(inbox)
<1>1. /\ UNCHANGED <<cli, row, seq, log, events, handling, socks, made, userSocket, walk>>
      /\ job = idle /\ inbox # <<>> /\ inbox' = Tail(inbox)
  BY Zenon DEF HandleMessageUpdate, Run, Rest, Hold, socketVars
<1>2. /\ inbox \in Seq(Note) /\ given \in Seq(Note) /\ line \in Seq(Note) /\ m \in Note
      /\ inbox' \in Seq(Note) /\ Fresh(idle) /\ job.kept = <<>>
      /\ given \o <<>> = given
  <2>1. inbox \in Seq(Note) /\ given \in Seq(Note) /\ line \in Seq(Note)
    BY NoteSequences DEF PhoneTypes
  <2>2. Fresh(idle) /\ job.kept = <<>>
    BY <1>1, KeptWhileReading
  <2>3. m \in Note /\ Tail(inbox) \in Seq(Note)
    BY <1>1, <2>1
  <2> QED BY <1>1, <2>1, <2>2, <2>3, ConcatEmptySeq
<1>0. m.t = "message"
  BY DEF HandleMessageUpdate, Run
<1>3. /\ inbox = <<m>> \o Tail(inbox) /\ <<m>> \in Seq(Note)
      /\ given \o (<<m>> \o Tail(inbox)) = (given \o <<m>>) \o Tail(inbox)
      /\ Append(given, m) = given \o <<m>>
      /\ (given \o <<m>>) \o <<>> = given \o <<m>> /\ given \o <<m>> \in Seq(Note)
  <2>1. <<m>> \in Seq(Note) /\ Tail(inbox) \in Seq(Note)
    BY <1>1, <1>2
  <2>2. inbox = <<m>> \o Tail(inbox)
    BY <1>1, <1>2
  <2>3. given \o <<m>> \in Seq(Note) /\ Append(given, m) = given \o <<m>>
    BY <1>2, <2>1, AppendIsConcat
  <2>4. given \o (<<m>> \o Tail(inbox)) = (given \o <<m>>) \o Tail(inbox)
    <3>1. ASSUME NEW x \in Seq(Note), NEW y \in Seq(Note), NEW z \in Seq(Note)
          PROVE  (x \o y) \o z = x \o (y \o z)
      BY ConcatAssociative
    <3> QED BY <1>2, <2>1, <3>1, ZenonT(60)
  <2>5. (given \o <<m>>) \o <<>> = given \o <<m>>
    BY <2>3, ConcatEmptySeq
  <2> HIDE DEF m
  <2> QED BY <2>1, <2>2, <2>3, <2>4, <2>5
<1>8. given \in Seq(Message) /\ <<m>> \in Seq(Message) /\ given \o <<m>> \in Seq(Message)
  <2>1. m \in Message
    BY <1>0, <1>2 DEF Note, Kinds
  <2>2. given \in Seq(Message)
    BY DEF PhoneTypes
  <2> HIDE DEF m
  <2> QED BY <2>1, <2>2
<1> HIDE DEF m
<1>4. line = (given \o <<m>>) \o Tail(inbox)
  <2>1. line = given \o inbox
    BY <1>2 DEF line
  <2> QED BY <1>3, <2>1
<1>5. ASSUME JobOK(job'), given' \o job'.kept = given \o <<m>>, given' \in Seq(Message)
      PROVE  Quiet
  <2>1. line' = line
    BY <1>1, <1>4, <1>5 DEF line
  <2>2. Thins(line', line)
    BY <1>2, <2>1, ThinsSame
  <2>3. SocketsMove
    BY <1>1, SocketsRest
  <2> QED BY <1>1, <1>2, <1>5, <2>2, <2>3, StepIsQuiet DEF PhoneTypes, ServerTypes
<1>6. CASE mayHydrate
  <2>1. /\ job' = [idle EXCEPT !.t = "message", !.pc = "read", !.then = "retry", !.kept = <<m>>]
        /\ given' = given
    BY <1>6, Zenon DEF HandleMessageUpdate, Hold, m
  <2>2. idle \in Job
    BY <1>2 DEF Fresh, JobOK
  <2>3. /\ job' \in Job /\ job'.pc = "read" /\ job'.then = "retry" /\ job'.kept = <<m>>
    BY <1>8, <2>1, <2>2 DEF Job
  <2>4. JobOK(job')
    BY <2>3 DEF JobOK
  <2> QED BY <1>1, <1>2, <1>5, <1>8, <2>1, <2>3, <2>4
<1>7. CASE ~mayHydrate
  <2>1. job' = idle /\ given' = Append(given, m)
    BY <1>1, <1>7, Zenon DEF HandleMessageUpdate, Rest, m
  <2> QED BY <1>1, <1>2, <1>3, <1>5, <1>8, <2>1 DEF Fresh
<1> QED BY <1>1, <1>6, <1>7

----------------------------------------------------------------------------
(* Pages.                                                                  *)

LEMMA PageTaken ==
  ASSUME PhoneTypes, LiveSockets, StoredInOrder, Seen, GetPage
  PROVE  Quiet /\ log' = log /\ Seen'
<1> DEFINE p == GetSessionMessages(walk.next)
<1>1. /\ UNCHANGED <<cli, row, seq, log, events, handling, socks, made, userSocket, given, job>>
      /\ inbox # <<>> /\ inbox' = Tail(inbox)
  BY Zenon DEF GetPage, Run, Rest, socketVars
<1>2. ASSUME walk' \in Walk
      PROVE  Quiet
  <2>1. inbox' \in Seq(Note) /\ Thins(line', line)
    BY <1>1, LineThins
  <2>2. SocketsMove
    BY <1>1, SocketsRest
  <2> QED BY <1>1, <1>2, <2>1, <2>2, StepIsQuiet DEF PhoneTypes, ServerTypes
<1>3. walk \in Walk /\ seq \in Nat /\ log \in SUBSET (1..seq)
  BY DEF PhoneTypes, ServerTypes, StoredInOrder
<1>4. walk.next \in Nat /\ walk.newest \in Nat
  BY <1>3 DEF Walk
<1>5. /\ p.messages \in SUBSET log
      /\ p.messages = {} => /\ p.next = walk.next /\ ~p.more
                           /\ \A s \in log : ~(walk.next = 0 \/ s < walk.next)
      /\ p.messages # {} =>
           /\ p.next \in p.messages
           /\ \A s \in log : (walk.next = 0 \/ s < walk.next) /\ p.next <= s => s \in p.messages
      /\ p.messages # {} /\ ~p.more => \A s \in log : p.next <= s
      /\ p.more \in BOOLEAN
  BY <1>3, <1>4, PageOfLog
<1>6. p.messages # {} => /\ Max(p.messages) \in p.messages
                        /\ \A s \in p.messages : Max(p.messages) >= s
  <2>1. p.messages \in SUBSET (0..seq)
    <3>1. log \in SUBSET (0..seq)
      BY <1>3
    <3> HIDE DEF p
    <3> QED BY <1>5, <3>1, Zenon
  <2> QED BY <1>3, <2>1, MaxOfPage, Zenon
<1> HIDE DEF p
<1>7. CASE walk' = [asked |-> TRUE,
                    newest |-> IF walk.asked \/ p.messages = {} THEN walk.newest
                               ELSE Max(p.messages),
                    next |-> p.next, got |-> walk.got \cup p.messages, more |-> p.more]
  <2>1. /\ walk'.asked /\ walk'.next = p.next /\ walk'.more = p.more
        /\ walk'.got = walk.got \cup p.messages
        /\ walk'.newest = IF walk.asked \/ p.messages = {} THEN walk.newest ELSE Max(p.messages)
    BY <1>7
  <2>2. walk'.newest \in log \cup {0} /\ walk'.next \in log \cup {0}
    BY <1>5, <1>6, <2>1 DEF Seen
  <2>3. log \cup {0} \in SUBSET Nat /\ 0 \notin log
    BY <1>3
  <2>4. walk' \in Walk
    <3>1. walk'.got \in SUBSET Nat
      BY <1>3, <1>5, <2>1, <2>3 DEF Walk
    <3>2. p.next \in Nat /\ walk'.newest \in Nat
      BY <2>1, <2>2, <2>3
    <3> QED BY <1>5, <1>7, <2>1, <3>1, <3>2 DEF Walk
  <2>5. walk'.next = 0 => walk'.newest = 0
    BY <1>5, <2>1, <2>3 DEF Seen
  <2>6. ASSUME NEW s \in log, walk'.next <= s, s <= walk'.newest
        PROVE  s \in walk'.got
    <3>1. CASE p.messages = {}
      BY <1>5, <2>1, <2>6, <3>1 DEF Seen
    <3>2. CASE p.messages # {} /\ (walk.next = 0 \/ s < walk.next)
      BY <1>5, <2>1, <2>6, <3>2
    <3>3. CASE p.messages # {} /\ ~(walk.next = 0 \/ s < walk.next)
      <4>1. walk.asked /\ walk'.newest = walk.newest
        BY <2>1, <3>3 DEF Seen
      <4>2. walk.next <= s
        BY <1>4, <2>3, <3>3
      <4> QED BY <2>1, <2>6, <4>1, <4>2 DEF Seen
    <3> QED BY <3>1, <3>2, <3>3
  <2>7. ASSUME ~walk'.more, NEW s \in log
        PROVE  walk'.next <= s
    BY <1>4, <1>5, <2>1, <2>3, <2>7
  <2>8. Seen'
    BY <1>1, <2>1, <2>2, <2>5, <2>6, <2>7 DEF Seen
  <2> QED BY <1>1, <1>2, <2>4, <2>8
<1>8. CASE walk' = walk
  BY <1>1, <1>2, <1>3, <1>8 DEF Seen
<1> QED BY <1>7, <1>8, Zenon DEF GetPage, p

----------------------------------------------------------------------------
(* What comes on a socket.                                                 *)

\* The first of a wire gets in line: nothing in line, and nothing of another wire, is
\* in its way.
LEMMA ArrivalInOrder ==
  ASSUME Delivery, NEW s \in Sockets, Arrives(s)
  PROVE  Delivery' /\ log' = log /\ walk' = walk
<1> DEFINE e == Head(socks[s].wire)
           w == socks[s].wire
<1>1. /\ PhoneTypes /\ LiveSockets /\ InLine /\ Numbered /\ StoredInOrder
      /\ UNCHANGED <<cli, row, seq, log, events, handling, job, made, userSocket, given, walk>>
      /\ w # <<>> /\ inbox' = Append(inbox, e)
      /\ socks' = [socks EXCEPT ![s].wire = Tail(w)]
  BY DEF Delivery, Arrives, phoneVars, socketVars
<1>2. /\ line \in Seq(Note) /\ inbox \in Seq(Note) /\ given \o job.kept \in Seq(Note)
      /\ \A r \in Sockets : socks[r] \in Socket /\ wire(r) \in Seq(Note)
      /\ w \in Seq(Note) /\ e \in Note /\ Tail(w) \in Seq(Note)
  BY <1>1, NoteSequences DEF PhoneTypes, wire
<1> HIDE DEF e, w
<1>3. /\ socks' \in [Sockets -> Socket] /\ socks'[s].wire = Tail(w)
      /\ \A r \in Sockets : /\ socks'[r].at = socks[r].at /\ socks'[r].beside = socks[r].beside
                            /\ r # s => socks'[r] = socks[r]
  <2>1. socks \in [Sockets -> Socket]
    BY <1>1 DEF PhoneTypes
  <2>2. ASSUME NEW t \in Seq(Note)
        PROVE  [socks[s] EXCEPT !.wire = t] \in Socket
    <3>1. socks[s] \in Socket
      BY <1>2
    <3> QED BY <3>1 DEF Socket
  <2> QED BY <1>1, <1>2, <2>1, <2>2 DEF Socket
<1>4. s \in up /\ s \in live /\ s <= made
  <2>1. s \in up
    BY <1>1 DEF LiveSockets, w
  <2> QED BY <1>1, <2>1 DEF LiveSockets, live, up, noSocket, PhoneTypes, Sockets
<1>5. LiveSockets'
  <2>1. up' = up /\ live' = live /\ made' = made
    BY <1>1, <1>3 DEF up, live
  <2>2. \A r \in Sockets : r > made' => socks'[r] = noSocket
    <3>1. ~(s > made)
      BY <1>1, <1>4 DEF PhoneTypes, Sockets
    <3> QED BY <1>1, <1>3, <3>1 DEF LiveSockets
  <2>3. \A r \in Sockets : socks'[r].wire # <<>> => r \in up'
    BY <1>1, <1>3, <1>4, <2>1 DEF LiveSockets
  <2>4. \A q, r \in live' : q # r => q \in socks'[r].beside \/ r \in socks'[q].beside
    BY <1>1, <1>3, <2>1 DEF LiveSockets, live
  <2> QED BY <2>2, <2>3, <2>4 DEF LiveSockets
<1>6. /\ \A r \in Sockets : Thins(socks'[r].wire, socks[r].wire)
      /\ \A r \in Sockets : /\ Rising(besides, wire(r)')
                            /\ Messages(wire(r)') \in SUBSET Messages(wire(r))
  <2>1. Thins(Tail(w), w)
    <3>1. <<>> \in Seq(Note) /\ <<>> \o w = w /\ <<>> \o Tail(w) = Tail(w)
      BY <1>2, ConcatEmptySeq
    <3> QED BY <1>1, <1>2, <3>1, ThinsTail
  <2>2. \A r \in Sockets : Thins(socks'[r].wire, socks[r].wire)
    BY <1>2, <1>3, <2>1, ThinsSame DEF wire, w
  <2>3. \A r \in Sockets : wire(r)' \in Seq(Note)
    BY <1>2, <1>3 DEF wire
  <2> QED BY <1>1, <1>2, <2>2, <2>3, ThinsKeeps DEF wire, InLine
<1>7. PhoneTypes'
  <2>1. inbox' \in Seq(Note)
    BY <1>1, <1>2
  <2> QED BY <1>1, <1>3, <2>1 DEF PhoneTypes, ServerTypes
<1>8. CASE e.t # "message"
  <2>1. SocketsMove
    BY <1>1, <1>3, <1>5, <1>6 DEF SocketsMove, PhoneTypes
  <2>2. Thins(line', line)
    BY <1>1, <1>2, <1>8, LineThins
  <2> QED BY <1>1, <1>7, <2>1, <2>2, QuietKept DEF Quiet
<1>9. CASE e.t = "message"
  <2> DEFINE b == besides
  <2>1. /\ besides' = b /\ line' = Append(line, e) /\ made' = made
    <3>1. line' = Append(line, e)
      BY <1>1, <1>2, ConcatAppend DEF line
    <3> QED BY <1>1, <1>3, <3>1 DEF besides
  <2>2. /\ e \in Message /\ e \in Messages(wire(s)) /\ e.from = s
        /\ \A y \in Messages(wire(s)') : After(b, e, y)
    <3>1. /\ e \in Messages(w) /\ \A y \in Messages(Tail(w)) : After(b, e, y)
      BY <1>1, <1>2, <1>9, MessagesOfTail DEF InLine, wire, w, e
    <3>2. wire(s) = w /\ wire(s)' = Tail(w)
      BY <1>3 DEF wire, w
    <3>3. e \in Message
      BY <1>2, <3>1, MessagesOf
    <3> QED BY <1>1, <3>1, <3>2, <3>3 DEF InLine
  <2>3. \A x \in Messages(line) : After(b, x, e)
    BY <1>1, <2>2 DEF InLine, Precede
  <2>4. /\ Messages(line') = Messages(line) \cup {e}
        /\ Rising(b, line')
    BY <1>1, <1>2, <2>1, <2>2, <2>3, MessageAppended DEF InLine
  <2>5. ASSUME NEW r \in Sockets, NEW y \in Messages(wire(r)')
        PROVE  After(b, e, y)
    <3>1. CASE r = s
      BY <2>2, <2>5, <3>1
    <3>2. CASE r # s
      <4>1. y \in Messages(wire(r)) /\ y.from = r
        BY <1>1, <1>6, <2>5 DEF InLine
      <4>2. wire(r) # <<>>
        BY <1>2, <4>1, MessagesOf
      <4>3. r \in live
        BY <1>1, <4>2 DEF LiveSockets, live, up, wire
      <4>4. s \in b[r] \/ r \in b[s]
        BY <1>1, <1>4, <3>2, <4>3 DEF LiveSockets, besides
      <4> QED BY <2>2, <4>1, <4>4 DEF After
    <3> QED BY <3>1, <3>2
  <2>6. ASSUME NEW r \in Sockets
        PROVE  Precede(b, line', wire(r)')
    <3>1. Precede(b, line, wire(r))
      BY <1>1 DEF InLine
    <3> QED BY <1>6, <2>4, <2>5, <3>1 DEF Precede
  <2>7. InLine'
    <3>1. \A m \in Messages(line') : m.from <= made'
      BY <1>1, <1>4, <2>1, <2>2, <2>4 DEF InLine
    <3>2. \A r \in Sockets : \A m \in Messages(wire(r)') : m.from = r
      BY <1>1, <1>6 DEF InLine
    <3> QED BY <1>6, <2>1, <2>4, <2>6, <3>1, <3>2 DEF InLine
  <2>8. ASSUME NEW n, Behind(n)
        PROVE  Behind(n)'
    BY <1>6, <2>2, <2>4, <2>8 DEF Behind
  <2>9. Numbered' /\ StoredInOrder'
    BY <1>1, <2>8 DEF Numbered, StoredInOrder
  <2> QED BY <1>1, <1>5, <1>7, <2>7, <2>9 DEF Delivery
<1> QED BY <1>1, <1>8, <1>9

----------------------------------------------------------------------------
(* Messages are stored.                                                    *)

\* Nothing else moves on the way of the messages.
LEMMA HandlingMoved ==
  ASSUME Delivery, UNCHANGED <<inbox, socks, phoneVars>>, seq' \in {seq, seq + 1},
         cli' \in Cli, row' \in SessionRow, events' \in Seq(Connection),
         handling' \in SUBSET Handled,
         \A h \in handling' : h.pc # "number" => h.seq <= seq' /\ Behind(h.seq),
         StoredInOrder'
  PROVE  Delivery'
<1>1. /\ UNCHANGED <<inbox, socks, made, userSocket, job, given, walk>>
      /\ PhoneTypes /\ LiveSockets /\ InLine /\ Numbered /\ seq \in Nat
  BY DEF phoneVars, socketVars, Delivery, PhoneTypes, ServerTypes
<1>2. line' = line /\ besides' = besides /\ \A s \in Sockets : wire(s)' = wire(s)
  BY <1>1 DEF line, besides, wire
<1>3. ASSUME NEW n
      PROVE  Behind(n) <=> Behind(n)'
  BY <1>2 DEF Behind
<1>4. Behind(seq' + 1)
  <2>1. CASE seq' = seq
    BY <1>1, <2>1 DEF Numbered
  <2>2. CASE seq' = seq + 1
    <3>1. Behind(seq + 1)
      BY <1>1 DEF Numbered
    <3>2. /\ \A m \in Messages(line) : m.seq \in Nat
          /\ \A s \in Sockets : \A m \in Messages(wire(s)) : m.seq \in Nat
      BY <1>1, NoteSequences, MessagesOf DEF Message
    <3>3. \A k \in Nat : k < seq + 1 => k < seq' + 1
      BY <1>1, <2>2
    <3> QED BY <3>1, <3>2, <3>3 DEF Behind
  <2> QED BY <2>1, <2>2
<1>5. Behind(seq + 1)'
  BY <1>3, <1>4
<1>6. PhoneTypes'
  <2>1. ServerTypes'
    BY <1>1 DEF ServerTypes
  <2> QED BY <1>1, <2>1 DEF PhoneTypes
<1>7. LiveSockets' /\ InLine'
  BY <1>1, <1>2 DEF LiveSockets, InLine, up, live
<1>8. Numbered'
  BY <1>3, <1>5 DEF Numbered
<1> QED BY <1>6, <1>7, <1>8 DEF Delivery

LEMMA LoopTakes ==
  ASSUME Delivery, HandleMessage, UNCHANGED phoneVars
  PROVE  Delivery' /\ log' = log
<1>1. /\ UNCHANGED <<cli, row, seq, log, inbox, socks>> /\ handling = {}
      /\ events # <<>> /\ events' = Tail(events)
      /\ \/ handling' = {[from |-> Head(events), pc |-> "number", seq |-> seq]}
         \/ handling' = {}
  BY DEF HandleMessage, oneAtATime
<1>2. /\ seq \in Nat /\ cli \in Cli /\ row \in SessionRow
      /\ events' \in Seq(Connection) /\ Head(events) \in Connection
  BY <1>1 DEF Delivery, PhoneTypes, ServerTypes
<1>3. handling' \in SUBSET Handled /\ \A h \in handling' : h.pc = "number"
  BY <1>1, <1>2 DEF Handled
<1>4. StoredInOrder'
  BY <1>1, <1>3 DEF StoredInOrder, Delivery
<1> QED BY <1>1, <1>2, <1>3, <1>4, HandlingMoved

LEMMA NumberTaken ==
  ASSUME Delivery, UNCHANGED phoneVars, NEW h \in handling, NextSessionMessageSeq(h)
  PROVE  Delivery' /\ log' = log
<1>1. handling = {h} /\ h \in Handled /\ seq \in Nat /\ log \in SUBSET (1..seq)
  BY DEF PhoneTypes, ServerTypes, StoredInOrder, Delivery
<1>2. /\ UNCHANGED <<cli, row, log, events, inbox, socks>>
      /\ cli' \in Cli /\ row' \in SessionRow /\ events' \in Seq(Connection)
  BY DEF NextSessionMessageSeq, PhoneTypes, ServerTypes, Delivery
<1>3. CASE seq' = seq + 1 /\ handling' = {[h EXCEPT !.pc = "store", !.seq = seq + 1]}
  <2> DEFINE g == [h EXCEPT !.pc = "store", !.seq = seq + 1]
  <2>1. g \in Handled /\ g.seq = seq + 1
    <3>1. ASSUME NEW n \in Nat
          PROVE  /\ [h EXCEPT !.pc = "store", !.seq = n] \in Handled
                 /\ [h EXCEPT !.pc = "store", !.seq = n].seq = n
      BY <1>1 DEF Handled
    <3>2. seq + 1 \in Nat
      BY <1>1
    <3> QED BY <3>1, <3>2, Zenon
  <2>2. Behind(seq + 1)
    BY DEF Delivery, Numbered
  <2>3. seq' \in {seq, seq + 1} /\ handling' \in SUBSET Handled
    BY <1>3, <2>1
  <2>4. \A k \in handling' : k.seq <= seq' /\ Behind(k.seq)
    <3>1. \A k \in handling' : k.seq = seq + 1
      BY <1>3, <2>1
    <3>2. seq + 1 <= seq'
      BY <1>1, <1>3
    <3> QED BY <2>2, <3>1, <3>2
  <2>5. log' \in SUBSET (1..seq') /\ seq + 1 \in 1..seq' /\ \A s \in log' : s < seq + 1
    BY <1>1, <1>2, <1>3
  <2>6. StoredInOrder'
    BY <1>3, <2>1, <2>5 DEF StoredInOrder
  <2> QED BY <1>2, <2>3, <2>4, <2>6, HandlingMoved
<1>4. CASE seq' = seq /\ handling' = {}
  <2>1. StoredInOrder'
    BY <1>1, <1>2, <1>4 DEF StoredInOrder
  <2> QED BY <1>2, <1>4, <2>1, HandlingMoved
<1> QED BY <1>1, <1>3, <1>4 DEF NextSessionMessageSeq, becomes

LEMMA MessageStored ==
  ASSUME Delivery, UNCHANGED phoneVars, NEW h \in handling, CreateEncryptedMessage(h)
  PROVE  /\ Delivery'
         /\ log' = log \/ \E n \in Nat \ {0} : log' = log \cup {n} /\ \A s \in log : s < n
<1>1. /\ handling = {h} /\ h \in Handled /\ seq \in Nat /\ log \in SUBSET (1..seq)
      /\ h.pc = "store" /\ h.seq \in 1..seq /\ \A s \in log : s < h.seq
      /\ h.seq <= seq /\ Behind(h.seq)
  BY DEF PhoneTypes, ServerTypes, StoredInOrder, Numbered, Delivery, CreateEncryptedMessage
<1>2. /\ UNCHANGED <<cli, row, seq, events, inbox, socks>> /\ seq' \in {seq, seq + 1}
      /\ cli' \in Cli /\ row' \in SessionRow /\ events' \in Seq(Connection)
  BY DEF CreateEncryptedMessage, PhoneTypes, ServerTypes, Delivery
<1>3. CASE log' = log \cup {h.seq} /\ handling' = {[h EXCEPT !.pc = "active"]}
  <2> DEFINE g == [h EXCEPT !.pc = "active"]
  <2>1. g \in Handled /\ g.seq = h.seq /\ g.pc = "active"
    BY <1>1 DEF Handled
  <2>2. handling' \in SUBSET Handled /\ \A k \in handling' : k.seq <= seq' /\ Behind(k.seq)
    BY <1>1, <1>2, <1>3, <2>1
  <2>3. log' \in SUBSET (1..seq')
    BY <1>1, <1>2, <1>3
  <2>4. StoredInOrder'
    BY <1>3, <2>1, <2>3 DEF StoredInOrder
  <2> QED BY <1>1, <1>2, <1>3, <2>2, <2>4, HandlingMoved
<1>4. CASE log' = log /\ handling' = {}
  <2>1. StoredInOrder'
    BY <1>1, <1>2, <1>4 DEF StoredInOrder
  <2> QED BY <1>2, <1>4, <2>1, HandlingMoved
<1> QED BY <1>1, <1>3, <1>4 DEF CreateEncryptedMessage, becomes

LEMMA MarkedActive ==
  ASSUME Delivery, UNCHANGED phoneVars, NEW h \in handling, MarkSessionActive(h)
  PROVE  Delivery' /\ log' = log
<1>1. /\ handling = {h} /\ h \in Handled /\ log \in SUBSET (1..seq)
      /\ h.seq <= seq /\ Behind(h.seq)
  BY DEF PhoneTypes, ServerTypes, StoredInOrder, Numbered, Delivery, MarkSessionActive
<1>2. /\ UNCHANGED <<cli, seq, log, events, inbox, socks>> /\ seq' \in {seq, seq + 1}
      /\ cli' \in Cli /\ events' \in Seq(Connection)
      /\ handling' = {[h EXCEPT !.pc = "emit"]}
  BY <1>1 DEF MarkSessionActive, PhoneTypes, ServerTypes, Delivery, becomes
<1>3. row' \in SessionRow
  BY DEF MarkSessionActive, PhoneTypes, ServerTypes, Delivery, SessionRow
<1>4. /\ [h EXCEPT !.pc = "emit"] \in Handled /\ [h EXCEPT !.pc = "emit"].seq = h.seq
      /\ [h EXCEPT !.pc = "emit"].pc = "emit"
  BY <1>1 DEF Handled
<1>5. handling' \in SUBSET Handled /\ \A k \in handling' : k.seq <= seq' /\ Behind(k.seq)
  BY <1>1, <1>2, <1>4
<1>6. StoredInOrder'
  BY <1>1, <1>2, <1>4 DEF StoredInOrder
<1> QED BY <1>2, <1>3, <1>5, <1>6, HandlingMoved

\* All that is under way or has come has a smaller number.
LEMMA UpdateEmitted ==
  ASSUME Delivery, UNCHANGED phoneVars, NEW h \in handling, EmitUpdateToSession(h)
  PROVE  Delivery' /\ log' = log
<1>1. /\ handling = {h} /\ h \in Handled /\ log \in SUBSET (1..seq)
      /\ seq \in Nat /\ h.seq \in Nat /\ h.seq <= seq /\ Behind(h.seq)
      /\ PhoneTypes /\ LiveSockets /\ InLine /\ Numbered
  BY DEF PhoneTypes, ServerTypes, StoredInOrder, Numbered, Delivery, EmitUpdateToSession, Handled
<1>2. /\ UNCHANGED <<cli, row, seq, log, events, inbox>> /\ handling' = {}
      /\ cli' \in Cli /\ row' \in SessionRow /\ events' \in Seq(Connection)
      /\ EmitMessage(h) \/ socks' = socks
  BY <1>1 DEF EmitUpdateToSession, PhoneTypes, ServerTypes, becomes
<1>3. StoredInOrder'
  BY <1>1, <1>2 DEF StoredInOrder
<1>4. CASE socks' = socks
  <2>1. seq' \in {seq, seq + 1}
    BY <1>2
  <2> QED BY <1>2, <1>3, <1>4, <2>1, HandlingMoved
<1>5. CASE EmitMessage(h)
  <2> DEFINE e == [s \in Sockets |-> [t |-> "message", from |-> s, seq |-> h.seq]]
             S == {s \in up : connection(s) # h.from}
  <2>1. /\ e \in [Sockets -> Message] /\ e \in [Sockets -> Note]
        /\ \A s \in Sockets : e[s].from = s /\ e[s].seq = h.seq
    BY <1>1 DEF Message, Note
  <2>2. socks' = [s \in Sockets |-> IF s \in S THEN onWire(s, e[s]) ELSE socks[s]]
    <3>1. \A s \in Sockets : s \in S <=> s \in up /\ connection(s) # h.from
      OBVIOUS
    <3>2. \A s \in Sockets : e[s] = [t |-> "message", from |-> s, seq |-> h.seq]
      OBVIOUS
    <3> HIDE DEF e, S
    <3> QED BY <1>5, <3>1, <3>2, Zenon DEF EmitMessage
  <2>3. S \in SUBSET up /\ UNCHANGED <<made, userSocket, job, given, walk>>
    BY DEF phoneVars, socketVars
  <2> HIDE DEF e, S
  <2>4. /\ socks' \in [Sockets -> Socket] /\ LiveSockets'
        /\ \A s \in Sockets :
             /\ socks'[s].beside = socks[s].beside
             /\ socks'[s].wire = IF s \in S THEN Append(socks[s].wire, e[s]) ELSE socks[s].wire
    BY <1>1, <2>1, <2>2, <2>3, SocketsSent
  <2>5. line' = line /\ besides' = besides
    BY <1>2, <2>3, <2>4 DEF line, besides
  <2>6. ASSUME NEW b, NEW x, NEW s \in Sockets, x.seq < h.seq
        PROVE  After(b, x, e[s])
    BY <2>1, <2>6 DEF After
  <2>7. ASSUME NEW s \in Sockets
        PROVE  /\ Rising(besides, wire(s)')
               /\ Messages(wire(s)') \in SUBSET (Messages(wire(s)) \cup {e[s]})
    <3>1. /\ wire(s) \in Seq(Note) /\ Rising(besides, wire(s))
          /\ \A x \in Messages(wire(s)) : x.seq < h.seq
      BY <1>1, NoteSequences DEF InLine, Behind
    <3>2. \A x \in Messages(wire(s)) : After(besides, x, e[s])
      BY <2>6, <3>1
    <3>3. /\ Messages(Append(wire(s), e[s])) = Messages(wire(s)) \cup {e[s]}
          /\ Rising(besides, Append(wire(s), e[s]))
      BY <2>1, <3>1, <3>2, MessageAppended
    <3>4. wire(s)' = Append(wire(s), e[s]) \/ wire(s)' = wire(s)
      BY <2>4 DEF wire
    <3> QED BY <3>1, <3>3, <3>4
  <2>8. ASSUME NEW s \in Sockets
        PROVE  Precede(besides, line, wire(s)')
    <3>1. Precede(besides, line, wire(s)) /\ \A x \in Messages(line) : x.seq < h.seq
      BY <1>1 DEF InLine, Behind
    <3> QED BY <2>6, <2>7, <3>1 DEF Precede
  <2>9. InLine'
    <3>1. \A s \in Sockets : \A m \in Messages(wire(s)') : m.from = s
      BY <1>1, <2>1, <2>7 DEF InLine
    <3>2. made' = made
      BY <2>3
    <3> QED BY <1>1, <2>5, <2>7, <2>8, <3>1, <3>2 DEF InLine
  <2>10. Behind(seq + 1)'
    <3>1. Behind(seq + 1) /\ h.seq < seq + 1
      BY <1>1 DEF Numbered
    <3> QED BY <1>2, <2>1, <2>5, <2>7, <3>1 DEF Behind
  <2>11. Numbered'
    BY <1>2, <2>10 DEF Numbered
  <2>12. PhoneTypes'
    <3>1. ServerTypes'
      BY <1>1, <1>2 DEF ServerTypes
    <3> QED BY <1>1, <1>2, <2>3, <2>4, <3>1 DEF PhoneTypes
  <2> QED BY <1>2, <1>3, <2>4, <2>9, <2>11, <2>12 DEF Delivery
<1> QED BY <1>2, <1>4, <1>5


----------------------------------------------------------------------------
(* All together.                                                           *)

LEMMA Start ==
  ASSUME Init
  PROVE  PhoneInv
<1>1. /\ cli = [up |-> TRUE, working |-> FALSE, control |-> "local", dirty |-> FALSE]
      /\ row = [active |-> TRUE, open |-> FALSE, control |-> "local"]
      /\ seq = 0 /\ log = {} /\ events = <<>> /\ handling = {} /\ inbox = <<>>
      /\ socks = [s \in Sockets |-> noSocket]
  BY DEF Init, ServerInit
<1>2. /\ made = 0 /\ userSocket = 0 /\ job = idle /\ given = <<>>
      /\ walk = [asked |-> FALSE, newest |-> 0, next |-> 0, got |-> {}, more |-> TRUE]
  BY DEF Init, PhoneInit
<1>3. noSocket \in Socket /\ noSocket.wire = <<>> /\ noSocket.at = "none"
  BY NoSocketOK
<1>4. idle.kept = <<>> /\ JobOK(idle)
  BY IdleOK
<1>5. /\ \A s \in Sockets : socks[s] = noSocket /\ wire(s) = <<>>
      /\ line = <<>> /\ up = {} /\ live = {}
  <2>1. \A s \in Sockets : socks[s] = noSocket /\ wire(s) = <<>>
    BY <1>1, <1>3 DEF wire
  <2>2. line = <<>>
    BY <1>1, <1>2, <1>4 DEF line
  <2> QED BY <1>3, <2>1, <2>2 DEF up, live
<1>6. Messages(<<>>) = {} /\ \A b : Rising(b, <<>>)
  BY DEF Messages, Rising
<1>7. PhoneTypes
  <2>1. ServerTypes
    BY <1>1 DEF ServerTypes, Cli, SessionRow, Controls
  <2>2. walk \in Walk
    BY <1>2 DEF Walk
  <2>3. made \in 0..MaxSockets /\ userSocket \in 0..made
    BY <1>2, MessagesOK DEF MessagesOK
  <2>4. socks \in [Sockets -> Socket] /\ inbox \in Seq(Note) /\ given \in Seq(Message)
    BY <1>1, <1>2, <1>3
  <2> QED BY <1>2, <1>4, <2>1, <2>2, <2>3, <2>4 DEF PhoneTypes
<1>8. LiveSockets
  BY <1>3, <1>5 DEF LiveSockets
<1>9. InLine
  BY <1>5, <1>6 DEF InLine, Precede
<1>10. Numbered /\ StoredInOrder
  BY <1>1, <1>5, <1>6 DEF Numbered, StoredInOrder, Behind
<1>11. Seen
  BY <1>1, <1>2 DEF Seen
<1> QED BY <1>7, <1>8, <1>9, <1>10, <1>11 DEF PhoneInv, Delivery

LEMMA PhoneStep ==
  ASSUME PhoneInv, [Next]_vars
  PROVE  PhoneInv'
<1>1. PhoneTypes /\ LiveSockets /\ StoredInOrder /\ Delivery /\ Seen
  BY DEF PhoneInv, Delivery
<1>2. ASSUME Quiet, log' = log, walk' = walk
      PROVE  PhoneInv'
  BY <1>1, <1>2, QuietKept, SeenKept DEF PhoneInv
<1>3. ASSUME Delivery', walk' = walk,
             log' = log \/ \E n \in Nat \ {0} : log' = log \cup {n} /\ \A s \in log : s < n
      PROVE  PhoneInv'
  BY <1>1, <1>3, SeenKept DEF PhoneInv
<1>4. UNCHANGED phoneVars => walk' = walk
  BY DEF phoneVars
<1>5. CASE Dispatch
  <2>1. CASE Connect \/ Connected \/ ConnectTimesOut \/ RefreshesToken \/ Disconnect
    BY <1>1, <1>2, <2>1, SocketsQuiet
  <2>2. CASE \/ StartList \/ StartSend \/ HandleActivity \/ HandleControl
             \/ \E mode \in {"remote", "local"} : StartSwitch(mode)
    BY <1>1, <1>2, <2>2, BeginsQuiet
  <2>3. CASE SendMessage \/ Mark \/ EnsureAgain \/ Gate \/ Call
    BY <1>1, <1>2, <2>3, JobsQuiet
  <2>4. CASE ReadSessions \/ ListSessions
    BY <1>1, <1>2, <2>4, ListQuiet
  <2>5. CASE HandleMessageUpdate
    BY <1>1, <1>2, <2>5, MessageQuiet
  <2>6. CASE GetPage
    BY <1>1, <2>6, PageTaken, QuietKept DEF PhoneInv
  <2> QED BY <1>5, <2>1, <2>2, <2>3, <2>4, <2>5, <2>6 DEF Dispatch
<1>6. CASE Server
  <2>1. UNCHANGED phoneVars /\ (PersistControl \/ HandleMessage \/ Stores)
    BY <1>6 DEF Server
  <2>2. CASE PersistControl
    BY <1>1, <1>2, <2>1, <2>2, ReportsQuiet
  <2>3. CASE HandleMessage
    BY <1>1, <1>3, <1>4, <2>1, <2>3, LoopTakes
  <2>4. ASSUME NEW h \in handling, \/ NextSessionMessageSeq(h) \/ CreateEncryptedMessage(h)
                                  \/ MarkSessionActive(h) \/ EmitUpdateToSession(h)
        PROVE  PhoneInv'
    BY <1>1, <1>3, <1>4, <2>1, <2>4, NumberTaken, MessageStored, MarkedActive, UpdateEmitted
  <2> QED BY <2>1, <2>2, <2>3, <2>4 DEF Stores
<1>7. ASSUME NEW s \in Sockets, Breaks(s) \/ Reconnects(s) \/ Arrives(s)
      PROVE  PhoneInv'
  <2>1. CASE Breaks(s) \/ Reconnects(s)
    BY <1>1, <1>2, <2>1, SocketsQuiet
  <2>2. CASE Arrives(s)
    BY <1>1, <1>3, <2>2, ArrivalInOrder
  <2> QED BY <1>7, <2>1, <2>2
<1>8. CASE Happens /\ UNCHANGED phoneVars
  BY <1>1, <1>2, <1>8, ReportsQuiet DEF Happens
<1>9. CASE KeepAlive(job = idle) /\ UNCHANGED phoneVars
  <2>1. \E b : KeepAlive(b)
    BY <1>9
  <2> QED BY <1>1, <1>2, <1>9, <2>1, ReportsQuiet
<1>10. CASE (\E t \in Kinds : Calls(t)) \/ \E w \in recent : Expires(w)
  BY <1>1, <1>2, <1>10, AppQuiet
<1>11. CASE UNCHANGED vars
  <2>1. UNCHANGED <<cli, row, seq, log, events, handling, socks, inbox, made, userSocket, job,
                    given, walk>>
    BY <1>11 DEF vars, serverVars, phoneVars, socketVars
  <2>2. JobOK(job') /\ cli' \in Cli /\ events' \in Seq(Connection)
    BY <1>1, <2>1 DEF PhoneTypes, ServerTypes
  <2> QED BY <1>1, <1>2, <2>1, <2>2, QueueStep
<1> QED BY <1>5, <1>6, <1>7, <1>8, <1>9, <1>10, <1>11 DEF Next

\* What has been given is the front of the line.
LEMMA LineInOrder ==
  ASSUME PhoneInv
  PROVE  UpdatesInOrder /\ WalkComplete
<1>1. /\ given \in Seq(Message) /\ given \in Seq(Note) /\ job.kept \in Seq(Note)
      /\ inbox \in Seq(Note) /\ line \in Seq(Note) /\ socks \in [Sockets -> Socket]
      /\ Rising(besides, line)
  BY NoteSequences DEF PhoneInv, Delivery, PhoneTypes, InLine
<1>2. \A i \in DOMAIN given : i \in DOMAIN line /\ line[i] = given[i]
  <2>1. \A i \in DOMAIN given : /\ i \in DOMAIN (given \o job.kept)
                                /\ (given \o job.kept)[i] = given[i]
    BY <1>1
  <2>2. \A i \in DOMAIN (given \o job.kept) : /\ i \in DOMAIN line
                                             /\ line[i] = (given \o job.kept)[i]
    BY <1>1 DEF line
  <2> QED BY <2>1, <2>2
<1>0. \A i \in DOMAIN given : given[i] \in Message
  BY <1>1
<1>3. ASSUME NEW i \in DOMAIN given, NEW j \in DOMAIN given, i < j,
             ~Beside(given[i].from, given[j].from)
      PROVE  given[i].seq < given[j].seq
  <2>1. After(besides, given[i], given[j])
    <3>1. given[i].t = "message" /\ given[j].t = "message"
      BY <1>0 DEF Message
    <3> QED BY <1>1, <1>2, <1>3, <3>1 DEF Rising
  <2>2. given[i].from \in Sockets /\ given[j].from \in Sockets
    BY <1>0 DEF Message
  <2> QED BY <1>3, <2>1, <2>2 DEF After, Beside, besides
<1>4. WalkComplete
  <2>1. Seen
    BY DEF PhoneInv
  <2> QED BY <2>1 DEF Seen, WalkComplete
<1> QED BY <1>3, <1>4 DEF UpdatesInOrder

\* UpdatesInOrder, for every queue, every number of sockets, every budget of calls
\* and failures: one loop stores the messages of a session, a socket brings what was
\* sent on it in the order in which it was sent, and the dispatcher has one queue.
\* Between two sockets that lived at one time nothing is claimed, and nothing holds.
THEOREM UpdatesOrdered == Spec => []UpdatesInOrder
<1>1. Init => PhoneInv
  BY Start
<1>2. PhoneInv /\ [Next]_vars => PhoneInv'
  BY PhoneStep
<1>3. PhoneInv => UpdatesInOrder
  BY LineInOrder
<1> QED BY <1>1, <1>2, <1>3, PTL DEF Spec

\* WalkComplete, for every size of a page and every budget: the pages leave no
\* message out although numbers are skipped and messages are stored meanwhile.
THEOREM PagesComplete == Spec => []WalkComplete
<1>1. Init => PhoneInv
  BY Start
<1>2. PhoneInv /\ [Next]_vars => PhoneInv'
  BY PhoneStep
<1>3. PhoneInv => WalkComplete
  BY LineInOrder
<1> QED BY <1>1, <1>2, <1>3, PTL DEF Spec
=============================================================================
