------------------------------ MODULE ReadModel ------------------------------
(* The api_* projections and how they are kept equal to the state they are  *)
(* computed from.  Handlers change the canonical tables and mark the        *)
(* entities they touched; at the end of the transaction the marks are       *)
(* expanded to every row that depends on them, those rows are recomputed    *)
(* and the models are stamped with the height.  A bulk window may leave the *)
(* projections for later, a repair clears the stamps, a start rebuilds all  *)
(* models unless every stamp is at the cursor, and otherwise consumes the   *)
(* differences a nightly job found in the inventories.                      *)
(*                                                                          *)
(* A row is the tuple of the inputs its SQL reads: alpha_value is a         *)
(* function of the tokens held and of the banks that back them.             *)
EXTENDS Integers, FiniteSets, Functions

CONSTANTS
    Players, Guilds, Substations,   \* ids of structs.player, guild, substation
    Addresses,              \* addresses of the bank ledger
    Vaults,                 \* those that are the vault of a guild or player
    Reactors, Providers, Agreements,
    Inherited,              \* the tables a process starts from
    None,                   \* SQL NULL, or no row
    Kinds,                  \* the events that occur
    Upkeep,                 \* what interrupts or repairs besides ingest
    DeleteMembers,          \* players are deleted while in a guild or substation
    ReprocessUnready,       \* reprocess-errors runs on projections left behind
    Deferral,               \* the settings of BULK_DEFER_PROJECTIONS
    Fragile,                \* inventory rows the incremental path may get wrong
    MaxEvents,              \* bound: events of a transaction
    MaxTotal,               \* bound: events in all
    MaxHeight,              \* bound: the last height
    MaxUpkeep               \* bound: interruptions and repairs

Denoms == {"ualpha"} \cup Guilds    \* a guild stands for its token
Owners == Players \cup Guilds
EventKinds == { "player", "guild", "delete_guild", "substation", "delete_substation",
                "grid", "address", "vault", "pool", "transfer", "mint", "infusion",
                "agreement", "delete_provider", "delete_player" }
UpkeepKinds == { "crash", "sweep", "reconcile", "reprocess", "drift" }

\* the canonical tables, NULL where there is no row
Tables ==
    [ player : [Players -> [guild : Guilds \cup {None}, substation : Substations \cup {None}]
                           \cup {None}],
      guilds : SUBSET Guilds, substations : SUBSET Substations,
      grid : [Players \cup Substations -> Int],
      owner : [Addresses -> Owners \cup {None}],
      tag : [Addresses -> Guilds \cup {None}],
      ledger : [Addresses -> [Denoms -> Nat \cup {None}]],
      minted : [Guilds -> Int \cup {None}],
      fuel : [Reactors -> Int],
      providers : SUBSET Providers,
      agreement : [Agreements -> Providers \cup {None}] ]

ASSUME ReadModelAssumption ==
    /\ \A S \in {Players, Guilds, Substations, Addresses, Reactors, Providers, Agreements} :
          IsFiniteSet(S) /\ None \notin S
    /\ Players \cap Guilds = {} /\ Players \cap Substations = {}
    /\ Vaults \subseteq Addresses
    /\ None \notin Int /\ Inherited \subseteq Tables
    /\ Kinds \subseteq EventKinds /\ Upkeep \subseteq UpkeepKinds
    /\ DeleteMembers \in BOOLEAN /\ ReprocessUnready \in BOOLEAN
    /\ Deferral \subseteq BOOLEAN
    /\ Fragile \subseteq (Addresses \cup Owners) \X Denoms
    /\ MaxEvents \in Nat /\ MaxTotal \in Nat /\ MaxHeight \in Nat \ {0} /\ MaxUpkeep \in Nat

VARIABLES
    base,       \* the canonical tables
    api,        \* the projections
    height,     \* last_height of the cursor
    stamp,      \* source_height of every model in api_refresh_state
    pc,         \* "off", "start" or "run"
    defer,      \* its BULK_DEFER_PROJECTIONS
    stale,      \* projectionsStale of the process
    tx,         \* the open transaction
    drift,      \* api_inventory_drift: the owners of the rows found different
    off,        \* rows the incremental path got wrong since they were last rebuilt
    total, upkeep   \* counters of the bounds

vars == <<base, api, height, stamp, pc, defer, stale, tx, drift, off, total, upkeep>>

NoMarks == [ addresses |-> {}, players |-> {}, guilds |-> {}, substations |-> {},
             objects |-> {}, reactors |-> {}, providers |-> {} ]
NoDelta == [a \in Addresses |-> [d \in Denoms |-> None]]
NoTx == [kind |-> "none", base |-> None, dirty |-> NoMarks, delta |-> NoDelta, events |-> 0]

\* sums over NULLs: nothing to sum is NULL
Plus(x, y) == IF x = None THEN y ELSE IF y = None THEN x ELSE x + y
SumOr(x, f) == IF DOMAIN f = {} THEN x ELSE SumFunction(f)

-----------------------------------------------------------------------------
(* The rows, as each SQL statement computes them.                          *)

OwnerRow(b, inventory, o) ==
    [d \in Denoms |->
        LET held == {a \in Addresses : b.owner[a] = o /\ inventory[a][d] # None}
        IN  SumOr(None, [a \in held |-> inventory[a][d]])]

\* collateral from the ledger of the tagged pools, supply from mints and burns
BankRow(b, g) ==
    IF g \notin b.guilds THEN None
    ELSE LET pools == {a \in Addresses : b.tag[a] = g /\ b.ledger[a]["ualpha"] # None}
         IN  [ collateral |-> SumOr(None, [a \in pools |-> b.ledger[a]["ualpha"]]),
               supply |-> b.minted[g] ]

Existing(b) == {p \in Players : b.player[p] # None}
Members(b, g) == {p \in Existing(b) : b.player[p].guild = g}
Connected(b, s) == {p \in Existing(b) : b.player[p].substation = s}

PlayerRow(b, owned, bank, p) ==
    IF b.player[p] = None THEN None
    ELSE [ guild |-> b.player[p].guild,
           alpha |-> owned[p]["ualpha"],
           tokens |-> {<<g, owned[p][g], bank[g]>> : g \in {h \in Guilds : owned[p][h] # None}} ]

GuildRow(b, bank, g) ==
    IF g \notin b.guilds THEN None
    ELSE LET used == {s \in b.substations : Members(b, g) \cap Connected(b, s) # {}}
         IN  [ players |-> Cardinality(Members(b, g)),
               bank |-> bank[g],
               capacity |-> SumOr(0, [p \in Members(b, g) |-> b.grid[p]]),
               shared |-> SumOr(0, [s \in used |-> b.grid[s]]) ]

SubstationRow(b, s) ==
    IF s \notin b.substations THEN None
    ELSE [ players |-> Cardinality(Connected(b, s)),
           capacity |-> SumOr(0, [p \in Connected(b, s) |-> b.grid[p]]),
           shared |-> b.grid[s] ]

ProviderRow(b, v) ==
    IF v \notin b.providers THEN None ELSE Cardinality({x \in Agreements : b.agreement[x] = v})

\* what a rebuild from nothing gives
Expected(b) ==
    LET owned == [o \in Owners |-> OwnerRow(b, b.ledger, o)]
        bank == [g \in Guilds |-> BankRow(b, g)]
    IN  [ address |-> b.ledger, owner |-> owned, bank |-> bank,
          player |-> [p \in Players |-> PlayerRow(b, owned, bank, p)],
          guild |-> [g \in Guilds |-> GuildRow(b, bank, g)],
          substation |-> [s \in Substations |-> SubstationRow(b, s)],
          reactor |-> b.fuel,
          provider |-> [v \in Providers |-> ProviderRow(b, v)] ]

-----------------------------------------------------------------------------
(* From the marks of the handlers to the rows that depend on them.         *)

Marked(d, e) == [m \in DOMAIN d |-> d[m] \cup (e[m] \ {None})]
OwnersOf(b, d) == {b.owner[a] : a \in d.addresses} \ {None}

\* the owner of an address, and the guild it is the collateral pool of
WithAddresses(b, d) ==
    [d EXCEPT !.players = @ \cup (OwnersOf(b, d) \cap Players),
              !.guilds = @ \cup (OwnersOf(b, d) \cap Guilds)
                           \cup ({b.tag[a] : a \in d.addresses} \ {None})]

WithObjects(d) ==
    [d EXCEPT !.players = @ \cup (d.objects \cap Players),
              !.substations = @ \cup (d.objects \cap Substations)]

\* every player in reach, and the guild and the substation of each, once
WithPlayers(b, d) ==
    LET near == {p \in Existing(b) : \/ p \in d.players
                                     \/ b.player[p].guild \in d.guilds
                                     \/ b.player[p].substation \in d.substations}
    IN  Marked(d, [NoMarks EXCEPT !.players = near,
                                  !.guilds = {b.player[p].guild : p \in near},
                                  !.substations = {b.player[p].substation : p \in near}])

\* slip: a change of a guild's bank stops at its members
WithMembersOnly(inventory, d) == d

\* those who hold the token of a guild in reach, by the inventory so far
WithHolders(inventory, d) ==
    [d EXCEPT !.players = @ \cup {p \in Players : \E g \in d.guilds : inventory[p][g] # None}]

Expand(b, inventory, d) == WithHolders(inventory, WithPlayers(b, WithObjects(WithAddresses(b, d))))

\* whose inventory may have changed: the players marked by handlers and the
\* owners of marked addresses, and every guild of the expansion
InventoryOwners(b, marked, expanded) ==
    marked.players \cup (OwnersOf(b, marked) \cap Players) \cup expanded.guilds

Refreshed(old, ids, row(_)) == [x \in DOMAIN old |-> IF x \in ids THEN row(x) ELSE old[x]]

\* the models other than inventory, in the order in which they read each other
Models(b, a, d) ==
    LET bank == Refreshed(a.bank, d.guilds, LAMBDA g : BankRow(b, g))
    IN  [a EXCEPT
          !.bank = bank,
          !.player = Refreshed(@, d.players, LAMBDA p : PlayerRow(b, a.owner, bank, p)),
          !.guild = Refreshed(@, d.guilds, LAMBDA g : GuildRow(b, bank, g)),
          !.substation = Refreshed(@, d.substations, LAMBDA s : SubstationRow(b, s)),
          !.reactor = Refreshed(@, d.reactors, LAMBDA r : b.fuel[r]),
          !.provider = Refreshed(@, d.providers, LAMBDA v : ProviderRow(b, v))]

\* Recompute with the deltas of the ledger rows that the transaction inserted
Recomputed(b, a, marked, delta) ==
    LET d == Expand(b, a.owner, marked)
        inventory == [x \in Addresses |-> [m \in Denoms |-> Plus(a.address[x][m], delta[x][m])]]
        owned == Refreshed(a.owner, InventoryOwners(b, marked, d),
                           LAMBDA o : OwnerRow(b, inventory, o))
    IN  Models(b, [a EXCEPT !.address = inventory, !.owner = owned], d)

\* recomputeInventory: the rows of the named addresses and of all addresses of
\* the named owners, from the ledger
Repaired(b, a, d) ==
    LET owners == d.players \cup d.guilds
        named == d.addresses \cup {x \in Addresses : b.owner[x] \in owners}
        inventory == Refreshed(a.address, named, LAMBDA x : b.ledger[x])
    IN  [a EXCEPT !.address = inventory,
                  !.owner = Refreshed(@, owners, LAMBDA o : OwnerRow(b, inventory, o))]

\* slip: only the rows that were found different are repaired
RepairedKeysOnly(b, a, keys) ==
    [a EXCEPT !.address = Refreshed(@, keys \cap Addresses, LAMBDA x : b.ledger[x]),
              !.owner = Refreshed(@, keys \cap Owners, LAMBDA o : OwnerRow(b, a.address, o))]

\* consumeDrift, and the models that depend on what it repaired
WithoutDrift(b, a, keys) ==
    LET named == WithAddresses(b, [NoMarks EXCEPT !.addresses = keys \cap Addresses,
                                                  !.players = keys \cap Players,
                                                  !.guilds = keys \cap Guilds])
        repaired == Repaired(b, a, named)
    IN  Models(b, repaired, Expand(b, repaired.owner, named))

\* Backfill: every table is cleared, every id is marked
Rebuilt(b) ==
    LET owned == [o \in Owners |-> OwnerRow(b, b.ledger, o)]
        cleared == [ address |-> b.ledger, owner |-> owned,
                     bank |-> [g \in Guilds |-> None], player |-> [p \in Players |-> None],
                     guild |-> [g \in Guilds |-> None],
                     substation |-> [s \in Substations |-> None],
                     reactor |-> [r \in Reactors |-> None],
                     provider |-> [v \in Providers |-> None] ]
        all == [NoMarks EXCEPT !.addresses = {a \in Addresses : \E d \in Denoms : b.ledger[a][d] # None},
                               !.players = Existing(b), !.guilds = b.guilds,
                               !.substations = b.substations, !.reactors = Reactors,
                               !.providers = b.providers]
    IN  Models(b, cleared, Expand(b, owned, all))

-----------------------------------------------------------------------------
(* Handlers, inside the open transaction.                                  *)

Handling(kind) == tx.kind # "none" /\ kind \in Kinds

\* A handler's change of the tables, its marks and the ledger rows it adds
Handled(b, marks, delta) ==
    /\ tx.events < MaxEvents
    /\ total < MaxTotal /\ total' = total + 1
    /\ tx' = [tx EXCEPT !.base = b, !.dirty = Marked(@, marks), !.events = @ + 1,
                        !.delta = [a \in Addresses |-> [d \in Denoms |-> Plus(@[a][d], delta[a][d])]]]
    /\ UNCHANGED <<base, api, height, stamp, pc, defer, stale, drift, off, upkeep>>

Changed(b, marks) == Handled(b, marks, NoDelta)

\* what the player handler marks: where the player was and where it is now
MarksOfPlayer(b, p, g, s) ==
    LET before == IF b.player[p] = None THEN [guild |-> None, substation |-> None] ELSE b.player[p]
    IN  [NoMarks EXCEPT !.players = {p}, !.guilds = {before.guild, g},
                        !.substations = {before.substation, s}]

PlayerEvent ==
    /\ Handling("player")
    /\ \E p \in Players, g \in Guilds \cup {None}, s \in Substations \cup {None} :
        /\ Changed([tx.base EXCEPT !.player[p] = [guild |-> g, substation |-> s]],
                   MarksOfPlayer(tx.base, p, g, s))

\* EventDelete of a player marks the player alone
PlayerDeleted ==
    /\ Handling("delete_player")
    /\ \E p \in Existing(tx.base) :
        /\ ~DeleteMembers => tx.base.player[p] = [guild |-> None, substation |-> None]
        /\ Changed([tx.base EXCEPT !.player[p] = None], [NoMarks EXCEPT !.players = {p}])

\* the owners that are marked too have no row of their own in a guild's models
GuildEvent ==
    /\ Handling("guild")
    /\ \E g \in Guilds :
        /\ Changed([tx.base EXCEPT !.guilds = @ \cup {g}], [NoMarks EXCEPT !.guilds = {g}])

GuildDeleted ==
    /\ Handling("delete_guild")
    /\ \E g \in tx.base.guilds :
        /\ Changed([tx.base EXCEPT !.guilds = @ \ {g}], [NoMarks EXCEPT !.guilds = {g}])

SubstationEvent ==
    /\ Handling("substation")
    /\ \E s \in Substations :
        /\ Changed([tx.base EXCEPT !.substations = @ \cup {s}], [NoMarks EXCEPT !.substations = {s}])

SubstationDeleted ==
    /\ Handling("delete_substation")
    /\ \E s \in tx.base.substations :
        /\ Changed([tx.base EXCEPT !.substations = @ \ {s}], [NoMarks EXCEPT !.substations = {s}])

\* the capacity of a player, or the connection capacity of a substation
GridEvent ==
    /\ Handling("grid")
    /\ \E x \in Players \cup Substations :
        /\ Changed([tx.base EXCEPT !.grid[x] = 1 - @], [NoMarks EXCEPT !.objects = {x}])

\* EventAddress and EventAddressAssociation: approved for a player, or revoked
AddressEvent ==
    /\ Handling("address")
    /\ \E a \in Addresses \ Vaults, p \in Existing(tx.base), approved \in BOOLEAN :
        /\ Changed([tx.base EXCEPT !.owner[a] = IF approved THEN p ELSE None],
                   [NoMarks EXCEPT !.addresses = {a}, !.players = {tx.base.owner[a], p}])

\* the vault of a guild or a player is bound once
VaultEvent ==
    /\ Handling("vault")
    /\ \E a \in Vaults, o \in Owners :
        /\ tx.base.owner[a] \in {None, o}
        /\ \A x \in Vaults \ {a} : tx.base.owner[x] # o
        /\ Changed([tx.base EXCEPT !.owner[a] = o],
                   [NoMarks EXCEPT !.addresses = {a}, !.players = {o} \cap Players,
                                   !.guilds = {o} \cap Guilds])

\* EventGuildBankAddress: the collateral pool of a guild
PoolEvent ==
    /\ Handling("pool")
    /\ \E a \in Addresses, g \in Guilds :
        /\ Changed([tx.base EXCEPT !.tag[a] = g],
                   [NoMarks EXCEPT !.addresses = {a}, !.guilds = {tx.base.tag[a], g}])

Moved(a, b, d) ==
    [NoDelta EXCEPT ![a][d] = -1, ![b][d] = 1]
Added(l, delta) == [a \in Addresses |-> [d \in Denoms |-> Plus(l[a][d], delta[a][d])]]

\* bank movements: Dirty.Ledger marks both addresses
Transfer ==
    /\ Handling("transfer")
    /\ \E a \in Addresses, b \in Addresses, d \in Denoms :
        /\ a # b /\ tx.base.ledger[a][d] \notin {None, 0}
        /\ Handled([tx.base EXCEPT !.ledger = Added(@, Moved(a, b, d))],
                   [NoMarks EXCEPT !.addresses = {a, b}], Moved(a, b, d))

\* a mint or a burn of a guild's token also marks the guild
Mint ==
    /\ Handling("mint")
    /\ \E a \in Addresses, g \in Guilds, x \in {1, -1} :
        /\ x = -1 => tx.base.ledger[a][g] \notin {None, 0}
        /\ Handled([tx.base EXCEPT !.ledger[a][g] = Plus(@, x), !.minted[g] = Plus(@, x)],
                   [NoMarks EXCEPT !.addresses = {a}, !.guilds = {g}],
                   [NoDelta EXCEPT ![a][g] = x])

\* an infusion of a reactor, or its deletion
InfusionEvent ==
    /\ Handling("infusion")
    /\ \E a \in Addresses, r \in Reactors :
        /\ Changed([tx.base EXCEPT !.fuel[r] = 1 - @],
                   [NoMarks EXCEPT !.addresses = {a}, !.reactors = {r},
                                   !.players = {tx.base.owner[a]} \cap Players,
                                   !.guilds = {tx.base.owner[a]} \cap Guilds])

\* EventAgreement: an agreement that is there keeps its provider, whatever the
\* event names, and both are marked
AgreementEvent ==
    /\ Handling("agreement")
    /\ \E x \in Agreements, v \in Providers :
        /\ Changed([tx.base EXCEPT !.agreement[x] = IF @ = None THEN v ELSE @],
                   [NoMarks EXCEPT !.providers = {tx.base.agreement[x], v}])

\* the deletion of an agreement, or of its allocation
AgreementDeleted ==
    /\ Handling("agreement")
    /\ \E x \in Agreements :
        /\ tx.base.agreement[x] # None
        /\ Changed([tx.base EXCEPT !.agreement[x] = None],
                   [NoMarks EXCEPT !.providers = {tx.base.agreement[x]}])

\* the agreements of a provider go with it
ProviderDeleted ==
    /\ Handling("delete_provider")
    /\ \E v \in tx.base.providers :
        /\ Changed([tx.base EXCEPT !.providers = @ \ {v},
                                   !.agreement = [x \in Agreements |-> IF @[x] = v THEN None ELSE @[x]]],
                   [NoMarks EXCEPT !.providers = {v}])

-----------------------------------------------------------------------------
(* Transactions.  Lock makes them one at a time.                           *)

Begin(kind) ==
    /\ tx.kind = "none"
    /\ tx' = [NoTx EXCEPT !.kind = kind, !.base = base]

Ready == stamp = height

\* a streaming block, once deferred projections are rebuilt
BeginBlock ==
    /\ pc = "run" /\ ~stale /\ height < MaxHeight
    /\ Begin("block")
    /\ UNCHANGED <<base, api, height, stamp, pc, defer, stale, drift, off, total, upkeep>>

CommitBlock ==
    /\ tx.kind = "block"
    /\ base' = tx.base
    /\ api' = Recomputed(tx.base, api, tx.dirty, tx.delta)
    /\ height' = height + 1
    /\ stamp' = height + 1
    /\ tx' = NoTx
    /\ UNCHANGED <<pc, defer, stale, drift, off, total, upkeep>>

BeginWindow ==
    /\ pc = "run" /\ height < MaxHeight
    /\ Begin("window")
    /\ UNCHANGED <<base, api, height, stamp, pc, defer, stale, drift, off, total, upkeep>>

\* slip: projectionsStale is set although the window was projected
StaleAlways == TRUE

StaleAfter == stale \/ defer

\* a bulk window: one expansion of the union of its blocks' marks, or none
CommitWindow ==
    /\ tx.kind = "window"
    /\ base' = tx.base
    /\ height' = height + 1
    /\ \/ defer /\ UNCHANGED <<api, stamp>>
       \/ /\ ~defer
          /\ api' = Recomputed(tx.base, api, tx.dirty, tx.delta)
          /\ stamp' = height + 1
    /\ stale' = StaleAfter
    /\ tx' = NoTx
    /\ UNCHANGED <<pc, defer, drift, off, total, upkeep>>

\* the rebuild of every model at the cursor, which also consumes the drift
Backfill ==
    /\ api' = Rebuilt(base)
    /\ stamp' = height
    /\ drift' = {} /\ off' = {}

\* rebuildProjections: deferred projections come back before a block streams
RebuildDeferred ==
    /\ pc = "run" /\ stale /\ tx.kind = "none"
    /\ Backfill
    /\ stale' = FALSE
    /\ UNCHANGED <<base, height, pc, defer, tx, total, upkeep>>

-----------------------------------------------------------------------------
(* Start, repairs and interruptions.                                       *)

Interrupted(kind) == kind \in Upkeep /\ upkeep < MaxUpkeep /\ upkeep' = upkeep + 1

Start ==
    /\ pc = "off"
    /\ tx.kind = "none"
    /\ pc' = "start" /\ defer' \in Deferral
    /\ UNCHANGED <<base, api, height, stamp, stale, tx, drift, off, total, upkeep>>

\* a sweep of the start that changes canonical rows, or a genesis import
BeginSweep ==
    /\ pc = "start"
    /\ Begin("sweep") /\ Interrupted("sweep")
    /\ UNCHANGED <<base, api, height, stamp, pc, defer, stale, drift, off, total>>

\* Invalidate: no model is at a height any more
Invalidated == 0

CommitSweep ==
    /\ tx.kind = "sweep"
    /\ base' = tx.base
    /\ stamp' = Invalidated
    /\ tx' = NoTx
    /\ UNCHANGED <<api, height, pc, defer, stale, drift, off, total, upkeep>>

NeedsBackfill == ~Ready

\* the projections of a start: rebuilt, left for the catch-up of a node far
\* behind the tip, or cleared of drift
Prepare ==
    /\ pc = "start" /\ tx.kind = "none"
    /\ pc' = "run"
    /\ \/ NeedsBackfill /\ Backfill /\ stale' = FALSE
       \/ NeedsBackfill /\ defer /\ stale' = TRUE /\ UNCHANGED <<api, stamp, drift, off>>
       \/ /\ ~NeedsBackfill /\ stale' = FALSE
          /\ api' = IF drift = {} THEN api ELSE WithoutDrift(base, api, drift)
          /\ drift' = {} /\ off' = off \ drift
          /\ UNCHANGED stamp
    /\ UNCHANGED <<base, height, defer, tx, total, upkeep>>

\* reconcile-current-block: repairs and the rebuild in one transaction
BeginReconcile ==
    /\ pc = "off"
    /\ Begin("reconcile") /\ Interrupted("reconcile")
    /\ UNCHANGED <<base, api, height, stamp, pc, defer, stale, drift, off, total>>

CommitReconcile ==
    /\ tx.kind = "reconcile"
    /\ base' = tx.base
    /\ api' = Rebuilt(tx.base)
    /\ stamp' = height
    /\ drift' = {} /\ off' = {}
    /\ tx' = NoTx
    /\ UNCHANGED <<height, pc, defer, stale, total, upkeep>>

\* reprocess-errors: events of earlier blocks, projected at the cursor
BeginReprocess ==
    /\ pc = "off"
    /\ ~ReprocessUnready => Ready
    /\ Begin("reprocess") /\ Interrupted("reprocess")
    /\ UNCHANGED <<base, api, height, stamp, pc, defer, stale, drift, off, total>>

CommitReprocess ==
    /\ tx.kind = "reprocess"
    /\ base' = tx.base
    /\ api' = Recomputed(tx.base, api, tx.dirty, tx.delta)
    /\ stamp' = height
    /\ tx' = NoTx
    /\ UNCHANGED <<height, pc, defer, stale, drift, off, total, upkeep>>

\* the process stops or crashes; an open transaction is rolled back
Crash ==
    /\ pc # "off" \/ tx.kind # "none"
    /\ Interrupted("crash")
    /\ pc' = "off" /\ defer' = FALSE /\ stale' = FALSE /\ tx' = NoTx
    /\ UNCHANGED <<base, api, height, stamp, drift, off, total>>

\* What the nightly reconciler is there for: an inventory row went wrong.  Bound:
\* one row at a time, before the events and the interruptions.
RowGoesWrong ==
    \E row \in Fragile :
        /\ tx.kind = "none"
        /\ "drift" \in Upkeep /\ off = {} /\ upkeep = 0 /\ total = 0
        /\ api' = IF row[1] \in Addresses THEN [api EXCEPT !.address[row[1]][row[2]] = Plus(@, 1)]
                                          ELSE [api EXCEPT !.owner[row[1]][row[2]] = Plus(@, 1)]
        /\ off' = off \cup {row[1]}
        /\ UNCHANGED <<base, height, stamp, pc, defer, stale, tx, drift, total, upkeep>>

\* the owners whose inventory is not what the ledger says
Different ==
    LET e == Expected(base)
    IN  {a \in Addresses : api.address[a] # e.address[a]} \cup {o \in Owners : api.owner[o] # e.owner[o]}

\* the nightly reconciler records what differs
NightlyReconcile ==
    /\ tx.kind = "none"
    /\ ~(Different \subseteq drift)
    /\ drift' = drift \cup Different
    /\ UNCHANGED <<base, api, height, stamp, pc, defer, stale, tx, off, total, upkeep>>

-----------------------------------------------------------------------------
Init ==
    /\ base \in Inherited
    /\ api = Expected(base)
    /\ height = 1 /\ stamp = 1
    /\ pc = "off" /\ defer = FALSE /\ stale = FALSE
    /\ tx = NoTx
    /\ drift = {} /\ off = {}
    /\ total = 0 /\ upkeep = 0

Next ==
    \/ PlayerEvent \/ PlayerDeleted \/ GuildEvent \/ GuildDeleted
    \/ SubstationEvent \/ SubstationDeleted \/ GridEvent
    \/ AddressEvent \/ VaultEvent \/ PoolEvent \/ Transfer \/ Mint
    \/ InfusionEvent \/ AgreementEvent \/ AgreementDeleted \/ ProviderDeleted
    \/ BeginBlock \/ CommitBlock \/ BeginWindow \/ CommitWindow \/ RebuildDeferred
    \/ Start \/ BeginSweep \/ CommitSweep \/ Prepare
    \/ BeginReconcile \/ CommitReconcile \/ BeginReprocess \/ CommitReprocess
    \/ Crash \/ RowGoesWrong \/ NightlyReconcile

Spec == Init /\ [][Next]_vars

-----------------------------------------------------------------------------
(* Properties.                                                             *)

\* Type invariant of the tables, the process and its transaction; deferral is
\* remembered only by a process that runs with it.
TypeOK ==
    /\ base \in Tables
    /\ height \in 1..MaxHeight /\ stamp \in 0..height
    /\ pc \in {"off", "start", "run"} /\ stale \in BOOLEAN
    /\ tx.kind \in {"none", "block", "window", "sweep", "reconcile", "reprocess"}
    /\ stale => pc = "run" /\ defer
    /\ drift \subseteq Addresses \cup Owners /\ off \subseteq Addresses \cup Owners

\* Models stamped at the cursor are what a rebuild from nothing would give:
\* no dependency of a row on another entity escapes the marks and their
\* expansion, and nothing stamps rows that a window or a repair left behind.
ReadyMeansExact == Ready /\ off = {} => api = Expected(base)

\* Consuming the recorded differences leaves every model exact, whatever was
\* indexed since the row went wrong and since it was found.
DriftRepaired ==
    [][drift # {} /\ drift' = {} /\ off \subseteq drift => api' = Expected(base')]_vars
=============================================================================
