------------------------------- MODULE MCBoot -------------------------------
EXTENDS Boot

Mmap(lower, upper) == [type |-> "mmap", size |-> 4, lower |-> lower, upper |-> upper]
Other(size) == [type |-> "other", size |-> size, lower |-> 0, upper |-> 0]
End == [type |-> "end", size |-> 1, lower |-> 0, upper |-> 0]

MCInfos == {<<End>>, <<Mmap(1, 2), End>>, <<Other(3), Mmap(1, 3), End>>,
            <<Mmap(1, 2), Other(2), End>>, <<Other(1), Other(2), Mmap(2, 2), End>>}
MCTssAddrs == {0, 77, 4660, 64000}
=============================================================================
