---------------------------- MODULE MCRetention ----------------------------
(* An instance of Retention, and of the inventories of Eviction, for TLC. *)
EXTENDS Retention

CONSTANTS s1, j1, r1, r2, e1,
          Leftover  \* the bytes a crash may have left in the trash of a root

MCLimits == [maxAge |-> 7, maxCompletedRuns |-> 3, perRoot |-> 5, userWide |-> 9, cacheMaxAge |-> 9]

\* Two roots: runs on both sides of the age limit, more than may be kept, one
\* that cannot be evicted; caches of which one is old and one cannot be deleted.
ARun(id, age, bytes, evictable) == [id |-> id, age |-> age, bytes |-> bytes, evictable |-> evictable]
ACache(id, age, bytes, stuck) == [id |-> id, age |-> age, bytes |-> bytes, stuck |-> stuck]

FirstRuns == {ARun(1, 8, 2, TRUE), ARun(2, 5, 1, TRUE), ARun(3, 5, 3, TRUE),
              ARun(4, 3, 4, FALSE), ARun(5, 1, 2, TRUE)}
FirstCaches == {ACache(1, 9, 4, FALSE), ACache(2, 4, 3, FALSE)}
SecondRuns == {ARun(1, 6, 2, TRUE), ARun(2, 4, 1, TRUE), ARun(3, 3, 3, TRUE)}
SecondCaches == {{}, {ACache(1, 10, 1, FALSE), ACache(2, 2, 1, TRUE)}}

MCInventory ==
  {<<[runs |-> a, caches |-> b, trash |-> t, slot |-> s, locked |-> FALSE],
     [runs |-> c, caches |-> d, trash |-> 0, slot |-> "free", locked |-> l]>> :
     a \in SUBSET FirstRuns, b \in SUBSET FirstCaches, t \in Leftover, s \in {"free", "held"},
     c \in SUBSET SecondRuns, d \in SecondCaches, l \in BOOLEAN}

=============================================================================
