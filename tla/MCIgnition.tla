----------------------------- MODULE MCIgnition -----------------------------
(***************************************************************************)
(* Fairings: a singleton type with instances of different kinds, one       *)
(* without an ignite callback, and a type that may be attached any number  *)
(* of times.                                                               *)
(* Routes: one takes &State, and a connection inside another type inside   *)
(* one with a sentinel of its own; one a connection inside that other      *)
(* type; one the same two levels deep.                                     *)
(***************************************************************************)
EXTENDS Ignition

MCFairing ==
    { [type |-> "shield", kinds |-> {"ignite"}, singleton |-> TRUE],
      [type |-> "shield", kinds |-> {"ignite", "response"}, singleton |-> TRUE],
      [type |-> "pool", kinds |-> {"response"}, singleton |-> TRUE],
      [type |-> "adhoc", kinds |-> {"ignite"}, singleton |-> FALSE] }

Sentry(route, type, parent) == [route |-> route, type |-> type, parent |-> parent]

MCSentries ==
    { Sentry("state", "State", NoParent),
      Sentry("state", "Debug", NoParent), Sentry("state", "Wrap", "Debug"), Sentry("state", "Conn", "Wrap"),
      Sentry("wrapped", "Wrap", NoParent), Sentry("wrapped", "Conn", "Wrap"),
      Sentry("nested", "Nest", NoParent), Sentry("nested", "Wrap", "Nest"), Sentry("nested", "Conn", "Wrap") }

MCNeeds == [t \in {"State", "Conn", "Debug"} |->
              CASE t = "State" -> "config" [] t = "Conn" -> "pool" [] OTHER -> None]

MCColliding == {{"wrapped", "state"}}
=============================================================================
