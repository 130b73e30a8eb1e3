\* Three tasks of one type on each of the three adapters, two items each through a
\* channel with room for one.
SPECIFICATION Spec

CONSTANTS
    Owner = Owner
    None = None
    Stacks = {"tokio", "async_std", "embassy"}
    Spawns = 3
    TypeOf <- MCTypeOf
    Items = 2
    Capacity = 1

INVARIANT PoolBounded
INVARIANT HandlesTruthful
PROPERTY AbortEnds

\* Everything may have been spawned, joined and dropped.
CHECK_DEADLOCK FALSE
