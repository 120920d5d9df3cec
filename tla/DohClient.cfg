\* Two resolvers, two workers, a pool of one: it overflows and goes stale.
SPECIFICATION FairSpec
CONSTANTS
    Workers = {w1, w2}
    NumServers = 2
    PoolSize = 1
INVARIANT PoolInv
PROPERTY RefinesFailover
PROPERTY CallsReturn
