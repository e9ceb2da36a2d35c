------------------------ MODULE MCExtensionTransport ------------------------
(***************************************************************************)
(* Small instances of ExtensionTransport: one review delivery, two         *)
(* documents of one browser that show its conversation, each navigating    *)
(* once or not at all.                                                     *)
(***************************************************************************)
EXTENDS ExtensionTransport

CONSTANTS c1, d1, d2, b1, r1

OneConversation == {c1}
TwoDocuments == {d1, d2}
NoNavigation == [doc: TwoDocuments, epoch: 0 .. 0]
NoNavigationOf == [o \in NoNavigation |-> c1]
OneNavigation == [doc: TwoDocuments, epoch: 0 .. 1]
OneNavigationOf == [o \in OneNavigation |-> c1]
OneBrowser == {b1}
OneBrowserOf == [d \in TwoDocuments |-> b1]
Reviews == {r1}
NoneOf == {}
=============================================================================
