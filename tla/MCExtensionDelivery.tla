------------------------ MODULE MCExtensionDelivery ------------------------
(***************************************************************************)
(* Small instances of ExtensionDelivery: two conversations with three      *)
(* documents and a lease of two ticks, so that leases of different ages    *)
(* overlap, and three commands of one review and one failure notice for a  *)
(* queue of two, so that retries, evictions and interrupted evictions      *)
(* happen; and one conversation, for the promotion of a late answer.       *)
(***************************************************************************)
EXTENDS ExtensionDelivery

CONSTANTS c1, c2, o1, o2, o3, r1, f1, w1

OneConversation == {c1}
TwoDocuments == {o1, o2}
TwoDocumentsOf == [o \in TwoDocuments |-> c1]

TwoConversations == {c1, c2}
ThreeDocuments == {o1, o2, o3}
ThreeDocumentsOf == [o \in ThreeDocuments |-> IF o = o3 THEN c2 ELSE c1]

Reviews == {r1}
Failures == {f1}
NoKeys == {}
OneCaller == {w1}
=============================================================================
