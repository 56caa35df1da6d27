---------------------------- MODULE BackupStore ----------------------------
(***************************************************************************)
(* What the backups of a node promise to whoever must restore one: backups *)
(* that can be verified appear in the order of their times, an older one   *)
(* may go when there is a newer one, and the newest one stays.             *)
(***************************************************************************)
EXTENDS Naturals

CONSTANT Times     \* the times a backup can have

VARIABLE verified  \* the times of the backups that can be verified

Init == verified = {}

Newest(n) == \A k \in verified : k <= n

Publish ==
    \E n \in Times \ verified : Newest(n) /\ verified' = verified \cup {n}

Retire ==
    \E n \in verified : ~Newest(n) /\ verified' = verified \ {n}

Next == Publish \/ Retire

Spec == Init /\ [][Next]_verified
=============================================================================
