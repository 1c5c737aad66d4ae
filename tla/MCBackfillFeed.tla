--------------------------- MODULE MCBackfillFeed ---------------------------
(***************************************************************************)
(* Bounds of the TLC runs of BackfillFeed.  Four videos, two of one day    *)
(* with an undated one between them.                                       *)
(***************************************************************************)
EXTENDS BackfillFeed

FeedDays == <<1, 2, 0, 2>>
PlainDays == <<1, 2, 3>>

Bounds(cmd, retry, outage, stop) ==
    [k \in Kinds |-> CASE k = "cmd" -> cmd [] k = "retry" -> retry [] k = "outage" -> outage
                       [] k = "stop" -> stop]

LimitWalk == Bounds(2, 1, 1, 1)
LimitStop == Bounds(1, 0, 0, 1)
=============================================================================
