SPECIFICATION Spec
CONSTANTS
    p1 = p1
    p2 = p2
    g1 = g1
    g2 = g2
    s1 = s1
    wallet = wallet
    vault = vault
    pool = pool
    r1 = r1
    v1 = v1
    v2 = v2
    deal = deal
    None = None
    Players = {p1, p2}
    Guilds = {g1, g2}
    Substations = {s1}
    Addresses = {wallet, vault, pool}
    Vaults = {vault}
    Reactors = {r1}
    Providers = {v1, v2}
    Agreements = {deal}
    Inherited <- Worlds
    Kinds <- Economy
    Upkeep <- CrashAndReprocess
    DeleteMembers = FALSE
    ReprocessUnready = TRUE
    Deferral = {TRUE, FALSE}
    Fragile <- SomeRows
    MaxEvents = 2
    MaxTotal = 2
    MaxHeight = 3
    MaxUpkeep = 2
INVARIANTS
    ReadyMeansExact
CHECK_DEADLOCK FALSE
