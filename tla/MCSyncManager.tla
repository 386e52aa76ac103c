--------------------------- MODULE MCSyncManager ----------------------------
(* Small instances of SyncManager.                                         *)
EXTENDS SyncManager

CONSTANTS k1, k2

TextBody == [kind |-> "text"]
TextOnly == {TextBody}
(* What the body is matters to EventProcessor only; a display command for  *)
(* a bitmap the app lacks goes the longest way.                            *)
Command == [kind |-> "display", key |-> k1]
CommandOnly == {Command}

(* With one producer, and an app that is not restarted, the store and the  *)
(* polling loop are a feed read in order and to the end (SyncManager.poll  *)
(* over EventStore).                                                       *)
ImplementsFairFeed == Feed!FairFeedSpec
=============================================================================
