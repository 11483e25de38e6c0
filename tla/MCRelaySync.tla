---------------------------- MODULE MCRelaySync ----------------------------
(* Instances of RelaySync for TLC. *)
EXTENDS RelaySync, TLC

Symmetry == Permutations(Conns)

\* For the run on leaving the hub, without schema handlers: of the sockets in use at
\* most one has sent anything, the others listen.  Only the clients are restricted by
\* this: Receive is the one action that sets a role, and no fairness asks for it.
OneTalks == Cardinality({c \in Conns : role[c] # "unspecified"}) <= 1

OneTalksNext ==
  \/ \E c \in Conns : \/ Connect(c) \/ Disconnect(c) \/ Evict(c)
                      \/ Receive(c) /\ OneTalks'
                      \/ HandlerStep(c) \/ WriterStep(c) \/ SendStep(c)
  \/ Crash

OneTalksSpec == Init /\ [][OneTalksNext]_vars /\ Fairness

\* For the run on the replay: a client connects only while nothing is being
\* broadcast, and nothing is sent while it catches up, so that no live message takes
\* its room in the buffer.  Again only the environment is restricted.
Quiet == \A c \in Conns : pc[c] \notin {"range", "replay"}

QuietNext ==
  \/ \E c \in Conns : \/ Connect(c) /\ \A s \in Senders : out[s] = Idle
                      \/ Disconnect(c) \/ Evict(c) \/ HandlerStep(c) \/ WriterStep(c)
  \/ \E s \in SchemaCalls : SchemaChange(s) /\ Quiet
  \/ \E s \in Senders : SendStep(s)

QuietSpec == Init /\ [][QuietNext]_vars /\ Fairness

=============================================================================
