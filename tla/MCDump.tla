------------------------------- MODULE MCDump -------------------------------
\* Bounded instance of Dump: two databases that share a collection name, a
\* system collection that is not asked for, an excluded collection, a view on
\* the selected collection and a view that spans the system one too.
EXTENDS Dump

TwoDatabases == {"home", "aux"}
TheCollections == [home |-> {"docs", "_sys"}, aux |-> {"docs", "tmp"}]
TheViews == [home |-> {"narrow", "wide"}, aux |-> {}]
TheTargets == [narrow |-> {"docs"}, wide |-> {"docs", "_sys"}]
IncludedNames == {"docs", "tmp", "_sys"}
=============================================================================
