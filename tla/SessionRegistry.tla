-------------------------- MODULE SessionRegistry --------------------------
(***************************************************************************)
(* What the console sharing of dracd promises, without goroutines: a host  *)
(* has at most one current session; clients join the current session only, *)
(* and each of them once; a session that ended is never current again; and *)
(* its resources are released once, after its last member has left.        *)
(***************************************************************************)
CONSTANTS Session, Client, None

VARIABLES current, phase, members, seen

registry == <<current, phase, members, seen>>

Phases == {"unborn", "live", "over", "released"}

Init ==
  /\ current = None
  /\ phase = [s \in Session |-> "unborn"]
  /\ members = [s \in Session |-> {}]
  /\ seen = {}

Enter(c, s) ==
  /\ c \notin seen
  /\ seen' = seen \cup {c}
  /\ members' = [members EXCEPT ![s] = @ \cup {c}]

(* The first client of a host starts a session ...                         *)
Open(c, s) ==
  /\ current = None /\ phase[s] = "unborn"
  /\ current' = s
  /\ phase' = [phase EXCEPT ![s] = "live"]
  /\ Enter(c, s)

(* ... and the next ones share it.                                         *)
Join(c, s) ==
  /\ current = s
  /\ Enter(c, s)
  /\ UNCHANGED <<current, phase>>

Leave(c, s) ==
  /\ c \in members[s]
  /\ members' = [members EXCEPT ![s] = @ \ {c}]
  /\ UNCHANGED <<current, phase, seen>>

(* The connection to the DRAC is over.                                     *)
End(s) ==
  /\ current = s
  /\ current' = None
  /\ phase' = [phase EXCEPT ![s] = "over"]
  /\ UNCHANGED <<members, seen>>

Release(s) ==
  /\ phase[s] = "over" /\ members[s] = {}
  /\ phase' = [phase EXCEPT ![s] = "released"]
  /\ UNCHANGED <<current, members, seen>>

Next ==
  \E s \in Session :
    \/ End(s) \/ Release(s)
    \/ \E c \in Client : Open(c, s) \/ Join(c, s) \/ Leave(c, s)

Spec == Init /\ [][Next]_registry
=============================================================================
