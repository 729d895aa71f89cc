-------------------------------- MODULE MCPhone --------------------------------
(***************************************************************************)
(* What the environment of the phone may do in a run: the calls of the app, *)
(* the events of the session, the messages of the CLI and the failures.     *)
(***************************************************************************)
EXTENDS PhoneClient

plan(n, kinds, c, e, m, f) ==
  [connects |-> n, kinds |-> kinds, calls |-> c, events |-> e, messages |-> m, failures |-> f]

MCPlans ==
  { plan(1, {"remote"}, 1, 2, 0, 0),
    plan(1, {"remote"}, 1, 1, 0, 1),
    plan(1, {"local", "list"}, 2, 1, 0, 0),
    plan(1, {"local"}, 1, 1, 0, 1),
    plan(2, {"disconnect"}, 1, 1, 0, 1),
    plan(1, {"send"}, 1, 1, 0, 1),
    plan(0, {"page"}, 3, 0, 4, 2),
    plan(2, {}, 0, 1, 0, 1),
    plan(2, {}, 0, 0, 2, 1) }
=============================================================================
