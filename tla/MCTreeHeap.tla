----------------------------- MODULE MCTreeHeap -----------------------------
EXTENDS TreeHeap

MCKeys == 1 .. 52
MCValLen == [v \in Vals |-> v]

\* The writes of keys or their deletions, in calls of at most six.
Calls(ks, v) ==
    [i \in 1 .. (Len(ks) + 5) \div 6 |->
        [j \in 1 .. Min({6, Len(ks) - 6 * (i - 1)}) |-> Writes(ks[6 * (i - 1) + j], v)]]
Ascending(n) == Calls([i \in 1 .. n |-> 2 * i], 1)
Descending(n) == Calls([i \in 1 .. n |-> 48 - 2 * i], 1)

\* An empty shard; one root page from its first split and one from being
\* full; three levels about to become four, at either end; leaves emptied by
\* deletions, on a small and on a full heap; one leaf of versions and dead
\* bytes.
Shard(ret, calls_) == [retention |-> ret, served |-> calls_]
Sparse == Ascending(25) \o Calls([i \in 1 .. 21 |-> 2 * i + 2], Gone)
Versions == [i \in 1 .. 4 |-> [j \in 1 .. 4 |-> Writes(2 * (1 + ((i + j) % 4)), 1 + (i % 2))]]
MCShards ==
    {Shard("keep", <<>>), Shard("keep", Ascending(4)), Shard("keep", Ascending(10)),
     Shard("keep", Ascending(22)), Shard("prune", Descending(22)),
     Shard("keep", Ascending(8) \o Calls(<<6, 8, 10, 12>>, Gone))}
    \cup [retention : {"keep", "archive"}, served : {Sparse, Versions \o Calls(<<2, 6>>, Gone)}]

\* Seven versions of one key, all but two archived when its leaf was full.
ArchivedShards == {Shard("archive", [i \in 1 .. 7 |-> <<Writes(3, 1 + (i % 2))>>])}
=============================================================================
