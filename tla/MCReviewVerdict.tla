--------------------------- MODULE MCReviewVerdict ---------------------------
(***************************************************************************)
(* Small instances of ReviewVerdict: two reviews that share a queue of     *)
(* one watch and no tool calls, or one review with up to two tool calls.   *)
(***************************************************************************)
EXTENDS ReviewVerdict

CONSTANTS r1, r2, p1, p2, k1, k2

TwoReviews == {r1, r2}
TwoPages == {p1, p2}
TwoCalls == {k1, k2}
AllOfFirst == [c \in TwoCalls |-> r1]

Spent == crashes = MaxCrashes /\ faults = MaxFaults
Fresh == crashes = 0 /\ faults = 0
Open == {p \in Pages : page[p].pc # "gone"}

\* Two reviews that share a queue of one watch; one review with a restart, a
\* failed write and two pages; the same with a tool call; and two calls of one
\* review, with evidence of the first that a page left before it closed.
MCInit ==
    /\ VerdictInit
    /\ \/ asked = {r1, r2} /\ calls = {} /\ Open = {p2} /\ Spent
       \/ asked = {r1} /\ calls = {} /\ Open = Pages /\ Fresh
       \/ asked = {r1} /\ calls = {k1} /\ evOutbox = {} /\ Open = {p2} /\ Fresh
       \/ /\ asked = {r1} /\ calls = TwoCalls /\ evOutbox = {[call |-> k1, page |-> p1]}
          /\ Open = {p2} /\ Spent
MCSpec == MCInit /\ [][VerdictNext]_verdictVars
=============================================================================
