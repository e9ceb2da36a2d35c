------------------------- MODULE AtMostOnceDelivery -------------------------
(***************************************************************************)
(* What the delivery transport promises to the rest of Local Review MCP:   *)
(* for each logical delivery, the message is shown at most once, what is   *)
(* known about it is true, and what is known for certain stays known.      *)
(* "Unsent" allows a retry; until then nothing can be shown.               *)
(***************************************************************************)
EXTENDS Naturals

CONSTANT Keys        \* logical delivery ids

VARIABLES
    shown,           \* how often the message of a key appears in the chat
    known            \* what the runtime knows about it

Knowledge == {"nothing", "delivered", "unsent", "refused", "unknown"}

DeliveryTypeOK ==
    /\ shown \in [Keys -> 0 .. 1]
    /\ known \in [Keys -> Knowledge]

DeliveryInit ==
    /\ shown = [k \in Keys |-> 0]
    /\ known = [k \in Keys |-> "nothing"]

\* The message appears.  A timed-out runtime may already be in doubt.
Show(k) ==
    /\ shown[k] = 0 /\ known[k] \in {"nothing", "unknown"}
    /\ shown' = [shown EXCEPT ![k] = 1]
    /\ UNCHANGED known

\* The runtime learns the truth.
LearnDelivered(k) ==
    /\ known[k] \in {"nothing", "unknown"} /\ shown[k] = 1
    /\ known' = [known EXCEPT ![k] = "delivered"]
    /\ UNCHANGED shown

LearnNotSent(k) ==
    /\ known[k] \in {"nothing", "unknown"} /\ shown[k] = 0
    /\ \E r \in {"unsent", "refused"} : known' = [known EXCEPT ![k] = r]
    /\ UNCHANGED shown

\* The runtime gives up waiting.
LoseTrack(k) ==
    /\ known[k] = "nothing"
    /\ known' = [known EXCEPT ![k] = "unknown"]
    /\ UNCHANGED shown

\* An unsent message is tried again.
Retry(k) ==
    /\ known[k] = "unsent"
    /\ known' = [known EXCEPT ![k] = "nothing"]
    /\ UNCHANGED shown

DeliveryNext ==
    \E k \in Keys :
        Show(k) \/ LearnDelivered(k) \/ LearnNotSent(k) \/ LoseTrack(k) \/ Retry(k)

DeliverySpec == DeliveryInit /\ [][DeliveryNext]_<<shown, known>>
=============================================================================
