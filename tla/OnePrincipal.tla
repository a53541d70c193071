---------------------------- MODULE OnePrincipal ----------------------------
(***************************************************************************)
(* What sign-in through an identity provider promises (migration 012): "A  *)
(* provider account is mapped to exactly one principal, permanently."      *)
(* However many requests sign an identity in, and however they interleave, *)
(* all act as the one principal that was registered for it, no principal   *)
(* serves two identities, and none is left behind that serves no one.      *)
(***************************************************************************)
CONSTANTS Subjects, Principals, None

VARIABLES
  directory, \* [Subjects -> Principals \cup {None}]
  strangers, \* principals no sign-in created
  principals \* all there are

Init ==
  /\ directory = [s \in Subjects |-> None]
  /\ strangers \subseteq Principals
  /\ principals = strangers

\* The first sign-in of s brings its principal into being.
Register(s) ==
  /\ directory[s] = None
  /\ \E p \in Principals \ principals :
       /\ principals' = principals \cup {p}
       /\ directory' = [directory EXCEPT ![s] = p]
  /\ UNCHANGED strangers

\* An administrator creates a principal that has keys and no identity.
Create ==
  /\ \E p \in Principals \ principals :
       principals' = principals \cup {p} /\ strangers' = strangers \cup {p}
  /\ UNCHANGED directory

Next == Create \/ \E s \in Subjects : Register(s)

Spec == Init /\ [][Next]_<<directory, strangers, principals>>
=============================================================================
