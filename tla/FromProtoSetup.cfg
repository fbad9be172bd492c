SPECIFICATION FairSpec
CONSTANTS
    Configs <- AllConfigs
    h1 = h1
    h2 = h2
    t1 = t1
    t2 = t2
    t3 = t3
    Hash = {h1, h2}
    Tables = {t1, t2, t3}
    TablesOf <- TwoVersions
    NoHash = NoHash
    Torn = Torn
    MaxFaults = 3
    MaxDeploys = 2
\* Once it runs, only the bounded faults and deployments change this part of the state;
\* a setup that RisingWave or ClickHouse saw interrupted may not start at all
CHECK_DEADLOCK FALSE
INVARIANTS
    RunsOnTables
    OneVersion
PROPERTY
    EventuallyRuns
