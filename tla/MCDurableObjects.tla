-------------------------- MODULE MCDurableObjects --------------------------
(***************************************************************************)
(* Ownership, transport and alarms of Durable Objects, checked side by     *)
(* side: part names the component a behaviour runs, the others keep one    *)
(* initial state.                                                          *)
(***************************************************************************)
EXTENDS DoOwnership, DoTransport, DoAlarms, TLC

CONSTANTS k1, k2, k3, k4, c1, c2, c3, c4

VARIABLE part

-----------------------------------------------------------------------------
(* DoOwnership: k1 and k2 always do the same. *)

MCDo(both, a, b, e, t, v) ==
  [calls |-> (k1 :> both @@ k2 :> both @@ k3 :> a @@ k4 :> b),
   env |-> e, first |-> IF "serial" \in e THEN {k3} ELSE {}, time |-> t, versions |-> v]
MCDoWorkloads ==
  << MCDo("fetch", "drain", "none", {}, 2, 1),
     MCDo("fetch", "none", "none", {"crash"}, 5, 1),
     MCDo("fetch", "renew", "none", {}, 2, 1),
     MCDo("fetch", "none", "none", {"promote", "one"}, 0, 3),
     MCDo("fetch", "fetch", "none", {"evict", "promote", "serial"}, 5, 2),
     MCDo("none", "fetch", "renew", {"delete"}, 8, 1),
     MCDo("none", "fetch", "delete", {"promote"}, 0, 2) >>

-----------------------------------------------------------------------------
(* DoAlarms *)

MCAl(a, b, c, d, e, r) ==
  [calls |-> (c1 :> a @@ c2 :> b @@ c3 :> c @@ c4 :> d), env |-> e, runs |-> r]
MCAlWorkloads ==
  << MCAl("set", "set", "delete", "none", {"lost"}, 1),
     MCAl("set", "get", "set", "none", {"lost"}, 1),
     MCAl("set", "transaction", "set", "delete", {}, 1),
     MCAl("set", "transaction", "delete", "none", {"lost"}, 1),
     MCAl("set", "transaction", "set", "none", {"crash"}, 1),
     MCAl("set", "deleteAll", "none", "none", {"lost"}, 1),
     MCAl("set", "delete", "none", "none", {"lost"}, 2),
     MCAl("set", "set", "none", "none", {}, 2),
     MCAl("set", "get", "delete", "none", {"crash"}, 1),
     MCAl("set", "get", "none", "none", {"delete"}, 1),
     MCAl("set", "set", "none", "none", {"delete", "ahead"}, 1) >>

-----------------------------------------------------------------------------
(* The composition *)

MCInit ==
  /\ part \in {"ownership", "transport", "alarms"}
  /\ part # "ownership" => doCase = 1
  /\ DoInit
  /\ part # "transport" => txOwner = CHOOSE o \in TxTasks : TRUE
  /\ TxInit
  /\ part # "alarms" => alCase = 1
  /\ AlInit

MCNext ==
  /\ UNCHANGED part
  /\ \/ part = "ownership" /\ DoNext /\ UNCHANGED <<txVars, alVars>>
     \/ part = "transport" /\ TxNext /\ UNCHANGED <<doVars, alVars>>
     \/ part = "alarms" /\ AlNext /\ UNCHANGED <<doVars, txVars>>

MCSpec == MCInit /\ [][MCNext]_<<part, doVars, txVars, alVars>>

Symmetry == Permutations({k1, k2}) \cup Permutations(DoTasks)
=============================================================================
