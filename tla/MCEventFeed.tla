---------------------------- MODULE MCEventFeed -----------------------------
\* EventFeed with runs of a few lines, two of which may be dropped.
EXTENDS EventFeed

MCDroppable == {2, 5}

=============================================================================
