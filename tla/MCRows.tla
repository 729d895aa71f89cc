--------------------------------- MODULE MCRows ---------------------------------
(***************************************************************************)
(* Constants for checking ServerRows on small instances.                    *)
(***************************************************************************)
EXTENDS ServerRows, TLC

CONSTANTS s1, t1   \* the only session and the only terminal

MCHome == s1 :> t1

NoSessions == [s \in {} |-> t1]

MCVersions == {0, 1}

MCKeyVersions == {-1, 0}

\* Requests for rows of different tables do not meet, but for sessions and the
\* terminal they belong to: each behaviour is about one group of rows.
OneGroup ==
  \E group \in {Sessions \cup Terminals, Artifacts, Keys, Accounts} :
    /\ \A q \in Requests : task[q].row \in group \cup {None} /\ DOMAIN task[q].exp \subseteq group \X Parts
    /\ \A r \in Rows \ (group \cup Accounts) : ~live(r)

Symmetry == Permutations(Requests) \cup Permutations(Keys)
=============================================================================
