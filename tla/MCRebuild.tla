----------------------------- MODULE MCRebuild -----------------------------
(* Rebuild on small instances: one pod that drives and one that serves, or  *)
(* two pods that boot together.                                             *)
EXTENDS Rebuild

d1 == "d1"
p1 == "p1"
BothPods == {d1, p1}

\* The new definition reaches one pod first; the other still serves.
OnePod(w, c, f) ==
    [drivers |-> {d1}, fresh |-> FALSE, writes |-> w, crashes |-> c, fails |-> f]

\* Both pods boot with it.
TwoPods(new, w, c, f) ==
    [drivers |-> BothPods, fresh |-> new, writes |-> w, crashes |-> c, fails |-> f]

Calm == {OnePod(3, 0, 0)}
Failing == {OnePod(3, 0, 3)}
Crashing == {OnePod(3, 1, 0)}
TwoDrivers == {TwoPods(FALSE, 3, 0, 0)}
NewViewCrash == {TwoPods(TRUE, 3, 1, 0)}
AnyRollout ==
    {OnePod(3, 0, 0), OnePod(2, 1, 0), OnePod(2, 0, 2), TwoPods(TRUE, 2, 0, 0)}

=============================================================================
