---------------------------- MODULE MCSearchWalk ----------------------------
\* Small instances of SearchWalk: three publishers whose catalogs endorse each
\* other in several ways, and four addresses, two of them in one subnet.
EXTENDS SearchWalk, TLC

CONSTANTS pub1, pub2, pub3, addr1, addr2, addr3, addr4

MCSubnetOf == (addr1 :> 1) @@ (addr2 :> 1) @@ (addr3 :> 2) @@ (addr4 :> 3)
MCLists == (pub1 :> {<<addr1, Junk, addr2, addr3, addr4>>}) @@ (pub2 :> {<<addr4>>}) @@ (pub3 :> {})
MCFollows == <<Self, pub2>>
MCOptions == {[depth |-> 1, maxPublishers |-> 2], [depth |-> 2, maxPublishers |-> 3]}

Entries == <<Junk, [ih |-> 1, match |-> FALSE], [ih |-> 1, match |-> TRUE], [ih |-> 2, match |-> TRUE]>>
Catalog(endorse) == [endorse |-> endorse, entries |-> Entries]
MCWebs == {(pub2 :> Catalog(<<pub1, Junk, pub1, pub3>>)) @@ (pub1 :> Catalog(<<pub3, pub2>>)) @@ (pub3 :> Catalog(<<pub1>>)),
           (pub2 :> Catalog(<<Self, pub1>>)) @@ (pub1 :> Catalog(<<pub1, pub3>>)) @@ (pub3 :> Catalog(<<pub2>>))}
=============================================================================
