----------------------------- MODULE EventFeed ------------------------------
(***************************************************************************)
(* What event synchronisation promises: a feed of numbered events that one *)
(* reader reads in the order in which they were published.  The reader     *)
(* never skips an event the feed still holds, and in the end it has read   *)
(* all of them.  The feed's process can lose what it published, the        *)
(* reader's process can lose what it read.                                 *)
(***************************************************************************)
EXTENDS Integers

CONSTANT Initial  \* events published at the start and after every loss

VARIABLES
  held,  \* numbers of the events the feed holds
  last,  \* the number published last
  read   \* numbers of the events the reader has

feedVars == <<held, last, read>>

FeedInit ==
  /\ held = 1..Initial
  /\ last = Initial
  /\ read = {}

Publish ==
  /\ last' = last + 1
  /\ held' = held \cup {last + 1}
  /\ UNCHANGED read

(* Reading p leaves no earlier event behind; p itself may meanwhile have   *)
(* been lost by the feed.                                                  *)
Read(p) ==
  /\ p \in (1..last) \ read
  /\ \A q \in held : q < p => q \in read
  /\ read' = read \cup {p}
  /\ UNCHANGED <<held, last>>

ReadHeld == \E p \in held : Read(p)

LoseFeed ==
  /\ held' = 1..Initial
  /\ UNCHANGED <<last, read>>

ForgetRead ==
  /\ read' = {}
  /\ UNCHANGED <<held, last>>

FeedNext ==
  \/ Publish
  \/ \E p \in 1..last : Read(p)
  \/ LoseFeed
  \/ ForgetRead

FeedSpec == FeedInit /\ [][FeedNext]_feedVars

FairFeedSpec == FeedSpec /\ WF_feedVars(ReadHeld)
=============================================================================
