------------------------------ MODULE MCGates -------------------------------
(***************************************************************************)
(* Billing and Schema for TLC: the two gates a provider's message passes   *)
(* on /ws, one after the other (makeRead, internal/handler/ws.go).  They   *)
(* share no variable, so a behaviour explores one of them, chosen at the   *)
(* start, with the other at rest.  Of Billing a behaviour explores either  *)
(* several sockets over two days, the plan changed only by mock upgrades,  *)
(* or Stripe's events against one message, which is what the free row a    *)
(* gate inserts takes.  The sockets all belong to one user.                *)
(***************************************************************************)
EXTENDS Billing, Schema, TLC

CONSTANT alice

MCOwner == [c \in Conns |-> alice]
MCLimits == [p \in Plans |-> IF p = "free" THEN 1 ELSE 2]
MCDefs == {[type |-> "text", required |-> TRUE], [type |-> "number", required |-> FALSE]}
Symmetry == Permutations(Conns) \cup Permutations(Calls)

VARIABLE focus

MCInit ==
  /\ Init /\ SchemaInit
  /\ focus \in {"messages", "subscriptions", "schema"}

OneMessage == passed'[alice] + InFlight(alice)' <= 1

MCNext ==
  /\ UNCHANGED focus
  /\ \/ focus = "messages" /\ Next /\ stripe' = stripe /\ UNCHANGED schemaVars
     \/ focus = "subscriptions" /\ Next /\ OneMessage /\ today' = today /\ UNCHANGED schemaVars
     \/ focus = "schema" /\ SchemaNext /\ UNCHANGED vars

MCSpec == MCInit /\ [][MCNext]_<<vars, schemaVars, focus>>

=============================================================================
