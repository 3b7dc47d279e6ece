---------------------------- MODULE MCHookInbox -----------------------------
(* Small instances of HookInbox, all of one bot: a reply, a failure with    *)
(* native ids and one without, each with a dedupe key, and a               *)
(* claim-collision check that has none.                                    *)
EXTENDS HookInbox

CONSTANTS reply, named, nameless, check, p

AllEvents == {reply, named, nameless, check}
HaveKey == {reply, named, nameless}
AreFailures == {named, nameless}
HaveIds == {reply, named}
AreChecks == {check}
OneBot == {p}
AllOfP == [e \in AllEvents |-> p]

(* Behaviours in which the failures do not both happen.                    *)
NotBothFailures == AreFailures \cap unsent # {}

NoEvents == {}
OneFailure == {nameless}
FailureOfP == [e \in OneFailure |-> p]

(* Only the check can have two rows, and each copy of it costs a fault.    *)
FairSpec == Spec /\ Fairness(6)

=============================================================================
