------------------------------ MODULE Listening ------------------------------
(***************************************************************************)
(* What the in-process listeners of a server promise to the application    *)
(* that calls Accept on them, as a net.Listener does: a connection that    *)
(* was dialled is accepted at most once, from a listener of the name it    *)
(* was dialled for, and only between the AddListener call that returned    *)
(* the listener and its Close.  It need not be accepted at all.            *)
(* WhetServer implements it.                                               *)
(***************************************************************************)
EXTENDS Integers, Sequences

CONSTANTS Name, Listener, Conn

VARIABLES
  name,      \* name[l]: the name l was added for
  wants,     \* wants[d]: the name d was dialled for
  state,     \* state[l]: "new", "open" or "closed"
  accepted   \* accepted[l]: what Accept has returned, in order

vars == <<name, wants, state, accepted>>

Init ==
  /\ name \in [Listener -> Name] /\ wants \in [Conn -> Name]
  /\ state = [l \in Listener |-> "new"]
  /\ accepted = [l \in Listener |-> <<>>]

Enter(l, from, to) ==
  /\ state[l] = from
  /\ state' = [state EXCEPT ![l] = to]
  /\ UNCHANGED <<name, wants, accepted>>

Open(l) == Enter(l, "new", "open")
Close(l) == Enter(l, "open", "closed")

Accepted(d) == \E l \in Listener : \E i \in DOMAIN accepted[l] : accepted[l][i] = d

Accept(l, d) ==
  /\ state[l] = "open" /\ name[l] = wants[d] /\ ~Accepted(d)
  /\ accepted' = [accepted EXCEPT ![l] = Append(@, d)]
  /\ UNCHANGED <<name, wants, state>>

Next ==
  \/ \E l \in Listener : Open(l) \/ Close(l)
  \/ \E l \in Listener, d \in Conn : Accept(l, d)

Spec == Init /\ [][Next]_vars
=============================================================================
