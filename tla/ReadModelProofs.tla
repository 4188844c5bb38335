-------------------------- MODULE ReadModelProofs --------------------------
(***************************************************************************)
(* Theorems about ReadModel: models stamped at the cursor are what a       *)
(* rebuild from nothing gives, and the repair of the recorded differences  *)
(* reaches every row that depends on them.                                 *)
(*                                                                         *)
(* The marks of a transaction cover the difference of its tables to those  *)
(* before it; what the expansion of the marks does not reach reads the     *)
(* same rows as before, so its row is the same.                            *)
(***************************************************************************)
EXTENDS ReadModel, TLAPS

-----------------------------------------------------------------------------
(* The inductive invariant.                                                *)

Marks(N) == [ addresses : SUBSET Addresses, players : SUBSET (Owners \cup N),
              guilds : SUBSET (Guilds \cup N), substations : SUBSET (Substations \cup N),
              objects : SUBSET (Players \cup Substations), reactors : SUBSET Reactors,
              providers : SUBSET (Providers \cup N) ]
Deltas == [Addresses -> [Denoms -> Int \cup {None}]]

\* a is a record of functions with the keys of the models
Shape(a) ==
    /\ a = [ address |-> a.address, owner |-> a.owner, bank |-> a.bank,
             player |-> a.player, guild |-> a.guild, substation |-> a.substation,
             reactor |-> a.reactor, provider |-> a.provider ]
    /\ a.address = [x \in Addresses |-> a.address[x]]
    /\ \A x \in Addresses : a.address[x] = [d \in Denoms |-> a.address[x][d]]
    /\ a.owner = [o \in Owners |-> a.owner[o]]
    /\ \A o \in Owners : a.owner[o] = [d \in Denoms |-> a.owner[o][d]]
    /\ a.bank = [g \in Guilds |-> a.bank[g]]
    /\ a.player = [p \in Players |-> a.player[p]]
    /\ a.guild = [g \in Guilds |-> a.guild[g]]
    /\ a.substation = [s \in Substations |-> a.substation[s]]
    /\ a.reactor = [r \in Reactors |-> a.reactor[r]]
    /\ a.provider = [v \in Providers |-> a.provider[v]]

\* The marks m cover every difference of the tables c from the tables b, and
\* the rows that b named where c names others.
CoversAddresses(b, c, m) ==
    \A a \in Addresses :
        /\ a \notin m.addresses => /\ c.owner[a] = b.owner[a] /\ c.tag[a] = b.tag[a]
                                   /\ c.ledger[a] = b.ledger[a]
        /\ c.owner[a] # b.owner[a] => b.owner[a] \in m.players \cup m.guilds \cup {None}
        /\ c.tag[a] # b.tag[a] => b.tag[a] \in m.guilds \cup {None}

CoversPlayers(b, c, m) ==
    \A p \in Players : c.player[p] # b.player[p] =>
        /\ p \in m.players
        /\ b.player[p] # None => /\ b.player[p].guild \in m.guilds \cup {None}
                                 /\ b.player[p].substation \in m.substations \cup {None}

CoversObjects(b, c, m) ==
    /\ \A g \in Guilds \ m.guilds : (g \in c.guilds <=> g \in b.guilds) /\ c.minted[g] = b.minted[g]
    /\ \A s \in Substations \ m.substations : s \in c.substations <=> s \in b.substations
    /\ \A x \in (Players \cup Substations) \ m.objects : c.grid[x] = b.grid[x]
    /\ \A r \in Reactors \ m.reactors : c.fuel[r] = b.fuel[r]

CoversProviders(b, c, m) ==
    /\ \A v \in Providers \ m.providers : v \in c.providers <=> v \in b.providers
    /\ \A x \in Agreements : c.agreement[x] # b.agreement[x] =>
           /\ b.agreement[x] \in m.providers \cup {None}
           /\ c.agreement[x] \in m.providers \cup {None}

Covers(b, c, m) ==
    CoversAddresses(b, c, m) /\ CoversPlayers(b, c, m) /\ CoversObjects(b, c, m)
    /\ CoversProviders(b, c, m)

\* the ledger rows that a transaction inserted are the difference of the sums
Booked(b, c, delta) ==
    \A a \in Addresses, d \in Denoms : c.ledger[a][d] = Plus(b.ledger[a][d], delta[a][d])

\* an owner whose inventory a wrong row may have reached
Reached(b, wrong, o) == o \in wrong \/ \E a \in Addresses \cap wrong : b.owner[a] = o

\* exact, but for wrong rows and the owners and players that they reached
Near(b, a, wrong) ==
    /\ \A x \in Addresses \ wrong : a.address[x] = Expected(b).address[x]
    /\ \A o \in Owners : ~Reached(b, wrong, o) => a.owner[o] = Expected(b).owner[o]
    /\ a.bank = Expected(b).bank
    /\ \A p \in Players : ~Reached(b, wrong, p) => a.player[p] = Expected(b).player[p]
    /\ a.guild = Expected(b).guild
    /\ a.substation = Expected(b).substation
    /\ a.reactor = Expected(b).reactor
    /\ a.provider = Expected(b).provider

-----------------------------------------------------------------------------
(* Rows that read the same give the same.                                  *)

\* The inventory of an owner reads the addresses that it owns.
LEMMA SameOwnerRow ==
    ASSUME NEW b, NEW c, NEW i, NEW j, NEW o,
           \A a \in Addresses : b.owner[a] = o <=> c.owner[a] = o,
           \A a \in Addresses : c.owner[a] = o => i[a] = j[a]
    PROVE  OwnerRow(b, i, o) = OwnerRow(c, j, o)
<1> DEFINE H(t, k, d) == {a \in Addresses : t.owner[a] = o /\ k[a][d] # None}
           F(t, k, d) == [a \in H(t, k, d) |-> k[a][d]]
<1>1. ASSUME NEW d PROVE F(b, i, d) = F(c, j, d)
  <2>1. H(b, i, d) = H(c, j, d)
    OBVIOUS
  <2>2. \A a \in H(c, j, d) : i[a][d] = j[a][d]
    OBVIOUS
  <2> HIDE DEF H
  <2>3. QED
    BY <2>1, <2>2
<1>2. OwnerRow(b, i, o) = [d \in Denoms |-> SumOr(None, F(b, i, d))]
  BY DEF OwnerRow
<1>3. OwnerRow(c, j, o) = [d \in Denoms |-> SumOr(None, F(c, j, d))]
  BY DEF OwnerRow
<1> HIDE DEF F
<1>4. QED
  BY <1>1, <1>2, <1>3

\* The bank of a guild reads its collateral pools and its supply.
LEMMA SameBankRow ==
    ASSUME NEW b, NEW c, NEW g,
           g \in b.guilds <=> g \in c.guilds, b.minted[g] = c.minted[g],
           \A a \in Addresses : b.tag[a] = g <=> c.tag[a] = g,
           \A a \in Addresses : c.tag[a] = g => b.ledger[a] = c.ledger[a]
    PROVE  BankRow(b, g) = BankRow(c, g)
<1> DEFINE H(t) == {a \in Addresses : t.tag[a] = g /\ t.ledger[a]["ualpha"] # None}
           F(t) == [a \in H(t) |-> t.ledger[a]["ualpha"]]
<1>1. F(b) = F(c)
  <2>1. H(b) = H(c)
    OBVIOUS
  <2>2. \A a \in H(c) : b.ledger[a]["ualpha"] = c.ledger[a]["ualpha"]
    OBVIOUS
  <2> HIDE DEF H
  <2>3. QED
    BY <2>1, <2>2
<1>2. BankRow(b, g) = IF g \notin b.guilds THEN None
                      ELSE [collateral |-> SumOr(None, F(b)), supply |-> b.minted[g]]
  BY DEF BankRow
<1>3. BankRow(c, g) = IF g \notin c.guilds THEN None
                      ELSE [collateral |-> SumOr(None, F(c)), supply |-> c.minted[g]]
  BY DEF BankRow
<1> HIDE DEF F
<1>4. QED
  BY <1>1, <1>2, <1>3

\* A player reads the own inventory, and the banks of the tokens in it.
LEMMA SamePlayerRow ==
    ASSUME NEW b, NEW c, NEW u, NEW v, NEW k, NEW l, NEW p,
           b.player[p] = c.player[p], u[p] = v[p],
           \A g \in Guilds : v[p][g] # None => k[g] = l[g]
    PROVE  PlayerRow(b, u, k, p) = PlayerRow(c, v, l, p)
<1>1. {<<g, u[p][g], k[g]>> : g \in {h \in Guilds : u[p][h] # None}}
        = {<<g, v[p][g], l[g]>> : g \in {h \in Guilds : v[p][h] # None}}
  OBVIOUS
<1>2. QED
  BY <1>1 DEF PlayerRow

\* A guild reads its members, their capacities and their substations.
LEMMA SameGuildRow ==
    ASSUME NEW b, NEW c, NEW k, NEW l, NEW g,
           g \in b.guilds <=> g \in c.guilds, k[g] = l[g],
           Members(b, g) = Members(c, g),
           \A p \in Members(c, g) : b.player[p] = c.player[p] /\ b.grid[p] = c.grid[p],
           \A p \in Members(c, g) : LET s == c.player[p].substation
                                    IN  /\ s \in b.substations <=> s \in c.substations
                                        /\ s \in c.substations => b.grid[s] = c.grid[s]
    PROVE  GuildRow(b, k, g) = GuildRow(c, l, g)
<1> DEFINE M == Members(c, g)
           U(t) == {s \in t.substations : M \cap Connected(t, s) # {}}
           F(t) == [p \in M |-> t.grid[p]]
           G(t) == [s \in U(t) |-> t.grid[s]]
<1>1. F(b) = F(c)
  OBVIOUS
<1>2. ASSUME NEW p \in M, NEW s
      PROVE  p \in Connected(b, s) <=> p \in Connected(c, s)
  BY DEF Connected, Existing, Members
<1>3. ASSUME NEW p \in M, NEW s, p \in Connected(c, s) PROVE s = c.player[p].substation
  BY <1>3 DEF Connected
<1>4. U(b) = U(c)
  <2>1. ASSUME NEW s PROVE M \cap Connected(b, s) = M \cap Connected(c, s)
    BY <1>2
  <2>2. ASSUME NEW s, M \cap Connected(c, s) # {} PROVE s \in b.substations <=> s \in c.substations
    BY <1>3, <2>2
  <2>3. QED
    BY <2>1, <2>2
<1>5. ASSUME NEW s \in U(c) PROVE b.grid[s] = c.grid[s]
  <2>1. PICK p \in M : p \in Connected(c, s)
    BY <1>5
  <2>2. s = c.player[p].substation /\ s \in c.substations
    BY <1>3, <2>1, <1>5
  <2>3. QED
    BY <2>2
<1>6. G(b) = G(c)
  <2> HIDE DEF U
  <2>1. QED
    BY <1>4, <1>5
<1>7. GuildRow(b, k, g) = IF g \notin b.guilds THEN None
                          ELSE [ players |-> Cardinality(M), bank |-> k[g],
                                 capacity |-> SumOr(0, F(b)), shared |-> SumOr(0, G(b)) ]
  BY DEF GuildRow
<1>8. GuildRow(c, l, g) = IF g \notin c.guilds THEN None
                          ELSE [ players |-> Cardinality(M), bank |-> l[g],
                                 capacity |-> SumOr(0, F(c)), shared |-> SumOr(0, G(c)) ]
  BY DEF GuildRow
<1> HIDE DEF F, G, M
<1>9. QED
  BY <1>1, <1>6, <1>7, <1>8

\* A substation reads the players connected to it, and their capacities.
LEMMA SameSubstationRow ==
    ASSUME NEW b, NEW c, NEW s,
           s \in b.substations <=> s \in c.substations,
           s \in c.substations => b.grid[s] = c.grid[s],
           Connected(b, s) = Connected(c, s),
           \A p \in Connected(c, s) : b.grid[p] = c.grid[p]
    PROVE  SubstationRow(b, s) = SubstationRow(c, s)
<1> DEFINE F(t) == [p \in Connected(c, s) |-> t.grid[p]]
<1>1. F(b) = F(c)
  OBVIOUS
<1>2. SubstationRow(b, s) = IF s \notin b.substations THEN None
        ELSE [ players |-> Cardinality(Connected(c, s)), capacity |-> SumOr(0, F(b)),
               shared |-> b.grid[s] ]
  BY DEF SubstationRow
<1>3. SubstationRow(c, s) = IF s \notin c.substations THEN None
        ELSE [ players |-> Cardinality(Connected(c, s)), capacity |-> SumOr(0, F(c)),
               shared |-> c.grid[s] ]
  BY DEF SubstationRow
<1> HIDE DEF F
<1>4. QED
  BY <1>1, <1>2, <1>3

-----------------------------------------------------------------------------
(* The recomputation of the marked rows.                                   *)

\* Models recomputes the rows it is given, and leaves all others.
LEMMA ModelRows ==
    ASSUME NEW b, NEW a, NEW d, Shape(a)
    PROVE  LET n == Models(b, a, d)
           IN  /\ Shape(n) /\ n.address = a.address /\ n.owner = a.owner
               /\ \A g \in Guilds :
                    n.bank[g] = IF g \in d.guilds THEN BankRow(b, g) ELSE a.bank[g]
               /\ \A p \in Players :
                    n.player[p] = IF p \in d.players THEN PlayerRow(b, a.owner, n.bank, p)
                                  ELSE a.player[p]
               /\ \A g \in Guilds :
                    n.guild[g] = IF g \in d.guilds THEN GuildRow(b, n.bank, g) ELSE a.guild[g]
               /\ \A s \in Substations :
                    n.substation[s] = IF s \in d.substations THEN SubstationRow(b, s)
                                      ELSE a.substation[s]
               /\ \A r \in Reactors :
                    n.reactor[r] = IF r \in d.reactors THEN b.fuel[r] ELSE a.reactor[r]
               /\ \A v \in Providers :
                    n.provider[v] = IF v \in d.providers THEN ProviderRow(b, v) ELSE a.provider[v]
<1> DEFINE bank == [g \in Guilds |-> IF g \in d.guilds THEN BankRow(b, g) ELSE a.bank[g]]
           player == [p \in Players |-> IF p \in d.players THEN PlayerRow(b, a.owner, bank, p)
                                        ELSE a.player[p]]
           guild == [g \in Guilds |-> IF g \in d.guilds THEN GuildRow(b, bank, g) ELSE a.guild[g]]
           substation == [s \in Substations |-> IF s \in d.substations THEN SubstationRow(b, s)
                                                ELSE a.substation[s]]
           reactor == [r \in Reactors |-> IF r \in d.reactors THEN b.fuel[r] ELSE a.reactor[r]]
           provider == [v \in Providers |-> IF v \in d.providers THEN ProviderRow(b, v)
                                            ELSE a.provider[v]]
           n == Models(b, a, d)
<1>1. /\ DOMAIN a.bank = Guilds /\ DOMAIN a.player = Players /\ DOMAIN a.guild = Guilds
      /\ DOMAIN a.substation = Substations /\ DOMAIN a.reactor = Reactors
      /\ DOMAIN a.provider = Providers
  BY DEF Shape
<1>2. n = [a EXCEPT !.bank = bank, !.player = player, !.guild = guild,
                    !.substation = substation, !.reactor = reactor, !.provider = provider]
  BY <1>1 DEF Models, Refreshed
<1> HIDE DEF n
<1>3. n = [ address |-> a.address, owner |-> a.owner, bank |-> bank, player |-> player,
            guild |-> guild, substation |-> substation, reactor |-> reactor,
            provider |-> provider ]
  <2> HIDE DEF bank, player, guild, substation, reactor, provider
  <2>1. a = [ address |-> a.address, owner |-> a.owner, bank |-> a.bank,
              player |-> a.player, guild |-> a.guild, substation |-> a.substation,
              reactor |-> a.reactor, provider |-> a.provider ]
    BY DEF Shape
  <2>2. QED
    BY <1>2, <2>1
<1>4. /\ n.address = a.address /\ n.owner = a.owner /\ n.bank = bank /\ n.player = player
      /\ n.guild = guild /\ n.substation = substation /\ n.reactor = reactor
      /\ n.provider = provider
  <2> HIDE DEF bank, player, guild, substation, reactor, provider
  <2>1. QED
    BY <1>3
<1>5. Shape(n)
  BY <1>3, <1>4 DEF Shape
<1>6. QED
  BY <1>4, <1>5 DEF n

\* The models of a rebuild from nothing.
LEMMA ExpectedRows ==
    ASSUME NEW b, b \in Tables
    PROVE  LET e == Expected(b)
           IN  /\ Shape(e) /\ e.address = b.ledger
               /\ \A o \in Owners : e.owner[o] = OwnerRow(b, b.ledger, o)
               /\ \A g \in Guilds : e.bank[g] = BankRow(b, g)
               /\ \A p \in Players : e.player[p] = PlayerRow(b, e.owner, e.bank, p)
               /\ \A g \in Guilds : e.guild[g] = GuildRow(b, e.bank, g)
               /\ \A s \in Substations : e.substation[s] = SubstationRow(b, s)
               /\ e.reactor = b.fuel
               /\ \A v \in Providers : e.provider[v] = ProviderRow(b, v)
<1> DEFINE owned == [o \in Owners |-> OwnerRow(b, b.ledger, o)]
           bank == [g \in Guilds |-> BankRow(b, g)]
           player == [p \in Players |-> PlayerRow(b, owned, bank, p)]
           guild == [g \in Guilds |-> GuildRow(b, bank, g)]
           substation == [s \in Substations |-> SubstationRow(b, s)]
           provider == [v \in Providers |-> ProviderRow(b, v)]
           e == Expected(b)
<1>1. e = [ address |-> b.ledger, owner |-> owned, bank |-> bank, player |-> player,
            guild |-> guild, substation |-> substation, reactor |-> b.fuel,
            provider |-> provider ]
  BY DEF Expected
<1> HIDE DEF e
<1>2. /\ e.address = b.ledger /\ e.owner = owned /\ e.bank = bank /\ e.player = player
      /\ e.guild = guild /\ e.substation = substation /\ e.reactor = b.fuel
      /\ e.provider = provider
  <2> HIDE DEF owned, bank, player, guild, substation, provider
  <2>1. QED
    BY <1>1
<1>3. /\ b.ledger = [x \in Addresses |-> b.ledger[x]]
      /\ \A x \in Addresses : b.ledger[x] = [d \in Denoms |-> b.ledger[x][d]]
      /\ b.fuel = [r \in Reactors |-> b.fuel[r]]
  BY DEF Tables
<1>4. \A o \in Owners : owned[o] = [d \in Denoms |-> owned[o][d]]
  BY DEF OwnerRow
<1>5. Shape(e)
  <2>1. /\ owned = [o \in Owners |-> owned[o]] /\ bank = [g \in Guilds |-> bank[g]]
        /\ player = [p \in Players |-> player[p]] /\ guild = [g \in Guilds |-> guild[g]]
        /\ substation = [s \in Substations |-> substation[s]]
        /\ provider = [v \in Providers |-> provider[v]]
    OBVIOUS
  <2> HIDE DEF owned, bank, player, guild, substation, provider
  <2>2. QED
    BY <1>1, <1>2, <1>3, <1>4, <2>1 DEF Shape
<1>6. QED
  BY <1>2, <1>5 DEF e

\* Exact everywhere is the rebuild.
LEMMA NearIsExpected ==
    ASSUME NEW b, b \in Tables, NEW a, Shape(a), Near(b, a, {})
    PROVE  a = Expected(b)
<1> DEFINE e == Expected(b)
<1>1. Shape(e)
  BY ExpectedRows
<1> HIDE DEF e
<1>2. a.address = e.address
  <2>1. \A x \in Addresses : a.address[x] = e.address[x]
    BY DEF Near, e
  <2>2. QED
    BY <1>1, <2>1 DEF Shape
<1>3. a.owner = e.owner
  <2>1. \A o \in Owners : a.owner[o] = e.owner[o]
    BY DEF Near, Reached, e
  <2>2. QED
    BY <1>1, <2>1 DEF Shape
<1>4. a.player = e.player
  <2>1. \A p \in Players : a.player[p] = e.player[p]
    BY DEF Near, Reached, e
  <2>2. QED
    BY <1>1, <2>1 DEF Shape
<1>5. /\ a.bank = e.bank /\ a.guild = e.guild /\ a.substation = e.substation
      /\ a.reactor = e.reactor /\ a.provider = e.provider
  BY DEF Near, e
<1>6. a = e
  BY <1>1, <1>2, <1>3, <1>4, <1>5 DEF Shape
<1>7. QED
  BY <1>6 DEF e

\* Models makes exact what it recomputes from exact inventories: the rest must
\* have been exact.
LEMMA ModelsNear ==
    ASSUME NEW b, b \in Tables, NEW a, Shape(a), NEW d, NEW wrong,
           \A x \in Addresses \ wrong : a.address[x] = b.ledger[x],
           \A o \in Owners : ~Reached(b, wrong, o) => a.owner[o] = Expected(b).owner[o],
           \A g \in Guilds \ d.guilds : /\ a.bank[g] = Expected(b).bank[g]
                                       /\ a.guild[g] = Expected(b).guild[g],
           \A p \in Players \ d.players :
               ~Reached(b, wrong, p) => a.player[p] = Expected(b).player[p],
           \A s \in Substations \ d.substations : a.substation[s] = Expected(b).substation[s],
           \A r \in Reactors \ d.reactors : a.reactor[r] = b.fuel[r],
           \A v \in Providers \ d.providers : a.provider[v] = Expected(b).provider[v]
    PROVE  Shape(Models(b, a, d)) /\ Near(b, Models(b, a, d), wrong)
<1> DEFINE n == Models(b, a, d)
           e == Expected(b)
<1>1. /\ Shape(n) /\ n.address = a.address /\ n.owner = a.owner
      /\ \A g \in Guilds : n.bank[g] = IF g \in d.guilds THEN BankRow(b, g) ELSE a.bank[g]
      /\ \A p \in Players : n.player[p] = IF p \in d.players THEN PlayerRow(b, a.owner, n.bank, p)
                                         ELSE a.player[p]
      /\ \A g \in Guilds : n.guild[g] = IF g \in d.guilds THEN GuildRow(b, n.bank, g)
                                       ELSE a.guild[g]
      /\ \A s \in Substations : n.substation[s] = IF s \in d.substations THEN SubstationRow(b, s)
                                                 ELSE a.substation[s]
      /\ \A r \in Reactors : n.reactor[r] = IF r \in d.reactors THEN b.fuel[r] ELSE a.reactor[r]
      /\ \A v \in Providers : n.provider[v] = IF v \in d.providers THEN ProviderRow(b, v)
                                             ELSE a.provider[v]
  BY ModelRows
<1>2. /\ Shape(e) /\ e.address = b.ledger
      /\ \A g \in Guilds : e.bank[g] = BankRow(b, g)
      /\ \A p \in Players : e.player[p] = PlayerRow(b, e.owner, e.bank, p)
      /\ \A g \in Guilds : e.guild[g] = GuildRow(b, e.bank, g)
      /\ \A s \in Substations : e.substation[s] = SubstationRow(b, s)
      /\ e.reactor = b.fuel
      /\ \A v \in Providers : e.provider[v] = ProviderRow(b, v)
  BY ExpectedRows
<1> HIDE DEF n, e
<1>3. n.bank = e.bank
  <2>1. \A g \in Guilds : n.bank[g] = e.bank[g]
    BY <1>1, <1>2 DEF e
  <2>2. QED
    BY <1>1, <1>2, <2>1 DEF Shape
<1>4. n.guild = e.guild
  <2>1. \A g \in Guilds : n.guild[g] = e.guild[g]
    BY <1>1, <1>2, <1>3 DEF e
  <2>2. QED
    BY <1>1, <1>2, <2>1 DEF Shape
<1>5. n.substation = e.substation
  <2>1. \A s \in Substations : n.substation[s] = e.substation[s]
    BY <1>1, <1>2 DEF e
  <2>2. QED
    BY <1>1, <1>2, <2>1 DEF Shape
<1>6. n.reactor = e.reactor
  <2>1. \A r \in Reactors : n.reactor[r] = e.reactor[r]
    BY <1>1, <1>2 DEF e
  <2>2. QED
    BY <1>1, <1>2, <2>1 DEF Shape
<1>7. n.provider = e.provider
  <2>1. \A v \in Providers : n.provider[v] = e.provider[v]
    BY <1>1, <1>2 DEF e
  <2>2. QED
    BY <1>1, <1>2, <2>1 DEF Shape
<1>8. ASSUME NEW p \in Players, ~Reached(b, wrong, p)
      PROVE  n.player[p] = e.player[p]
  <2>1. a.owner[p] = e.owner[p]
    BY <1>8 DEF e, Owners
  <2>2. PlayerRow(b, a.owner, n.bank, p) = PlayerRow(b, e.owner, e.bank, p)
    BY <2>1, <1>3, SamePlayerRow
  <2>3. QED
    BY <1>1, <1>2, <1>8, <2>2 DEF e
<1>9. QED
  BY <1>1, <1>2, <1>3, <1>4, <1>5, <1>6, <1>7, <1>8 DEF Near, n, e

-----------------------------------------------------------------------------
(* What the expansion of the marks reaches.                                *)

\* Marks are added, NULL is no mark.
LEMMA MarkedFields ==
    ASSUME NEW d \in Marks({}), NEW e \in Marks({None})
    PROVE  /\ Marked(d, e) \in Marks({})
           /\ Marked(d, e).addresses = d.addresses \cup (e.addresses \ {None})
           /\ Marked(d, e).players = d.players \cup (e.players \ {None})
           /\ Marked(d, e).guilds = d.guilds \cup (e.guilds \ {None})
           /\ Marked(d, e).substations = d.substations \cup (e.substations \ {None})
           /\ Marked(d, e).objects = d.objects \cup (e.objects \ {None})
           /\ Marked(d, e).reactors = d.reactors \cup (e.reactors \ {None})
           /\ Marked(d, e).providers = d.providers \cup (e.providers \ {None})
  BY ReadModelAssumption DEF Marks, Marked

\* Owners, guilds of a pool, players in reach with where they are, and holders.
LEMMA ExpandReach ==
    ASSUME NEW b \in Tables, NEW inventory, NEW m \in Marks({})
    PROVE  LET e == Expand(b, inventory, m)
           IN  /\ e \in Marks({})
               /\ m.players \subseteq e.players /\ m.guilds \subseteq e.guilds
               /\ m.substations \subseteq e.substations
               /\ m.reactors \subseteq e.reactors /\ m.providers \subseteq e.providers
               /\ OwnersOf(b, m) \cap Players \subseteq e.players
               /\ OwnersOf(b, m) \cap Guilds \subseteq e.guilds
               /\ \A a \in m.addresses : b.tag[a] # None => b.tag[a] \in e.guilds
               /\ \A p \in Existing(b) :
                    (\/ p \in m.players \/ p \in m.objects
                     \/ b.player[p].guild \in m.guilds
                     \/ b.player[p].substation \in m.substations
                     \/ b.player[p].substation \in m.objects) =>
                        /\ b.player[p].guild \in e.guilds \cup {None}
                        /\ b.player[p].substation \in e.substations \cup {None}
               /\ m.objects \cap Substations \subseteq e.substations
               /\ \A p \in Players, g \in e.guilds : inventory[p][g] # None => p \in e.players
<1> DEFINE d1 == WithAddresses(b, m)
           d2 == WithObjects(d1)
           d3 == WithPlayers(b, d2)
           e == WithHolders(inventory, d3)
<1>1. /\ d1 \in Marks({})
      /\ d1.players = m.players \cup (OwnersOf(b, m) \cap Players)
      /\ d1.guilds = m.guilds \cup (OwnersOf(b, m) \cap Guilds)
                              \cup ({b.tag[a] : a \in m.addresses} \ {None})
      /\ d1.addresses = m.addresses /\ d1.substations = m.substations /\ d1.objects = m.objects
      /\ d1.reactors = m.reactors /\ d1.providers = m.providers
  <2> DEFINE P == OwnersOf(b, m) \cap Players
             G == OwnersOf(b, m) \cap Guilds
             T == {b.tag[a] : a \in m.addresses} \ {None}
  <2>1. P \in SUBSET Owners /\ G \in SUBSET Guilds
    BY DEF Owners
  <2>2. T \in SUBSET Guilds
    <3>1. \A a \in m.addresses : b.tag[a] \in Guilds \cup {None}
      BY DEF Marks, Tables
    <3>2. QED
      BY <3>1
  <2>3. d1 = [m EXCEPT !.players = m.players \cup P, !.guilds = m.guilds \cup G \cup T]
    BY DEF WithAddresses
  <2> HIDE DEF P, G, T, d1
  <2>4. /\ d1 \in Marks({})
        /\ d1.players = m.players \cup P /\ d1.guilds = m.guilds \cup G \cup T
        /\ d1.addresses = m.addresses /\ d1.substations = m.substations /\ d1.objects = m.objects
        /\ d1.reactors = m.reactors /\ d1.providers = m.providers
    BY <2>1, <2>2, <2>3 DEF Marks
  <2>5. QED
    BY <2>4 DEF P, G, T
<1> HIDE DEF d1
<1>2. /\ d2 \in Marks({})
      /\ d2.players = d1.players \cup (d1.objects \cap Players)
      /\ d2.substations = d1.substations \cup (d1.objects \cap Substations)
      /\ d2.addresses = d1.addresses /\ d2.guilds = d1.guilds /\ d2.objects = d1.objects
      /\ d2.reactors = d1.reactors /\ d2.providers = d1.providers
  BY <1>1 DEF WithObjects, Marks, Owners
<1> HIDE DEF d2
<1> DEFINE near == {p \in Existing(b) : \/ p \in d2.players
                                        \/ b.player[p].guild \in d2.guilds
                                        \/ b.player[p].substation \in d2.substations}
           f == [NoMarks EXCEPT !.players = near,
                                !.guilds = {b.player[p].guild : p \in near},
                                !.substations = {b.player[p].substation : p \in near}]
<1>3. /\ f \in Marks({None})
      /\ f.players = near /\ f.guilds = {b.player[p].guild : p \in near}
      /\ f.substations = {b.player[p].substation : p \in near}
      /\ f.addresses = {} /\ f.objects = {} /\ f.reactors = {} /\ f.providers = {}
  <2> DEFINE G == {b.player[p].guild : p \in near}
             S == {b.player[p].substation : p \in near}
  <2>1. \A p \in near : /\ p \in Owners /\ b.player[p].guild \in Guilds \cup {None}
                       /\ b.player[p].substation \in Substations \cup {None}
    BY DEF Existing, Tables, Owners
  <2>2. near \in SUBSET (Owners \cup {None}) /\ G \in SUBSET (Guilds \cup {None})
        /\ S \in SUBSET (Substations \cup {None})
    BY <2>1
  <2>3. f = [ addresses |-> {}, players |-> near, guilds |-> G, substations |-> S,
              objects |-> {}, reactors |-> {}, providers |-> {} ]
    <3>1. f = [NoMarks EXCEPT !.players = near, !.guilds = G, !.substations = S]
      OBVIOUS
    <3> HIDE DEF near, G, S, f
    <3>2. QED
      BY <3>1 DEF NoMarks
  <2> HIDE DEF near, G, S, f
  <2>4. /\ f \in Marks({None})
        /\ f.players = near /\ f.guilds = G /\ f.substations = S
        /\ f.addresses = {} /\ f.objects = {} /\ f.reactors = {} /\ f.providers = {}
    BY <2>2, <2>3 DEF Marks
  <2>5. QED
    BY <2>4 DEF G, S
<1>4. d3 = Marked(d2, f)
  BY DEF WithPlayers
<1> HIDE DEF f, near, d3
<1>5. /\ d3 \in Marks({})
      /\ d3.players = d2.players \cup (near \ {None})
      /\ d3.guilds = d2.guilds \cup ({b.player[p].guild : p \in near} \ {None})
      /\ d3.substations = d2.substations \cup ({b.player[p].substation : p \in near} \ {None})
      /\ d3.reactors = d2.reactors \cup ({} \ {None})
      /\ d3.providers = d2.providers \cup ({} \ {None})
  <2>1. /\ d3 \in Marks({})
        /\ d3.players = d2.players \cup (f.players \ {None})
        /\ d3.guilds = d2.guilds \cup (f.guilds \ {None})
        /\ d3.substations = d2.substations \cup (f.substations \ {None})
        /\ d3.reactors = d2.reactors \cup (f.reactors \ {None})
        /\ d3.providers = d2.providers \cup (f.providers \ {None})
    <3>1. None \notin Addresses
      BY ReadModelAssumption
    <3>2. d2 \in Marks({}) /\ f \in Marks({None})
      BY <1>2, <1>3
    <3>3. /\ Marked(d2, f) \in Marks({})
          /\ Marked(d2, f).players = d2.players \cup (f.players \ {None})
          /\ Marked(d2, f).guilds = d2.guilds \cup (f.guilds \ {None})
          /\ Marked(d2, f).substations = d2.substations \cup (f.substations \ {None})
          /\ Marked(d2, f).reactors = d2.reactors \cup (f.reactors \ {None})
          /\ Marked(d2, f).providers = d2.providers \cup (f.providers \ {None})
      BY <3>1, <3>2 DEF Marks, Marked
    <3>4. QED
      BY <1>4, <3>3
  <2>2. QED
    BY <2>1, <1>3
<1>6. /\ e.players = d3.players \cup {p \in Players : \E g \in d3.guilds : inventory[p][g] # None}
      /\ e.guilds = d3.guilds /\ e.substations = d3.substations
      /\ e.reactors = d3.reactors /\ e.providers = d3.providers /\ e \in Marks({})
  BY <1>5 DEF WithHolders, Marks, Owners
<1>7. e = Expand(b, inventory, m)
  BY DEF Expand, d3, d2, d1
<1> HIDE DEF e
<1>8. ASSUME NEW p \in Existing(b),
             \/ p \in m.players \/ p \in m.objects
             \/ b.player[p].guild \in m.guilds
             \/ b.player[p].substation \in m.substations
             \/ b.player[p].substation \in m.objects
      PROVE  /\ b.player[p].guild \in e.guilds \cup {None}
             /\ b.player[p].substation \in e.substations \cup {None}
  <2>1. p \in Players /\ b.player[p].substation \in Substations \cup {None}
    BY DEF Existing, Tables
  <2>2. None \notin m.objects
    <3>1. m.objects \in SUBSET (Players \cup Substations) /\ None \notin Players \cup Substations
      BY ReadModelAssumption DEF Marks
    <3>2. QED
      BY <3>1
  <2>3. p \in near
    BY <1>1, <1>2, <1>8, <2>1, <2>2 DEF near
  <2>4. QED
    BY <1>5, <1>6, <2>3
<1>9. QED
  <2>1. /\ m.players \subseteq e.players /\ m.guilds \subseteq e.guilds
        /\ m.substations \subseteq e.substations
        /\ m.reactors \subseteq e.reactors /\ m.providers \subseteq e.providers
        /\ OwnersOf(b, m) \cap Players \subseteq e.players
        /\ OwnersOf(b, m) \cap Guilds \subseteq e.guilds
        /\ m.objects \cap Substations \subseteq e.substations
    BY <1>1, <1>2, <1>5, <1>6
  <2>2. \A a \in m.addresses : b.tag[a] # None => b.tag[a] \in e.guilds
    BY <1>1, <1>2, <1>5, <1>6
  <2>3. \A p \in Players, g \in e.guilds : inventory[p][g] # None => p \in e.players
    BY <1>6
  <2>4. QED
    BY <2>1, <2>2, <2>3, <1>6, <1>8, <1>7

-----------------------------------------------------------------------------
(* The recomputation at the end of a transaction.                          *)

\* An owner that is not recomputed owns what it owned, unchanged.
LEMMA OwnerUntouched ==
    ASSUME NEW b \in Tables, NEW c \in Tables, NEW m \in Marks({}), Covers(b, c, m),
           NEW inventory,
           NEW o \in Owners, o \notin InventoryOwners(c, m, Expand(c, inventory, m))
    PROVE  /\ \A a \in Addresses : b.owner[a] = o <=> c.owner[a] = o
           /\ \A a \in Addresses : c.owner[a] = o => b.ledger[a] = c.ledger[a]
<1> DEFINE e == Expand(c, inventory, m)
<1>1. /\ m.guilds \subseteq e.guilds
      /\ OwnersOf(c, m) \cap Guilds \subseteq e.guilds
  BY ExpandReach
<1> HIDE DEF e
<1>2. o \notin m.players /\ o \notin m.guilds /\ o \notin OwnersOf(c, m)
  <2>1. o \notin m.players \cup (OwnersOf(c, m) \cap Players) \cup e.guilds
    BY DEF InventoryOwners, e
  <2>2. QED
    BY <1>1, <2>1 DEF Owners
<1>3. o # None
  BY ReadModelAssumption DEF Owners
<1>4. ASSUME NEW a \in Addresses, c.owner[a] = o PROVE a \notin m.addresses
  BY <1>2, <1>3, <1>4 DEF OwnersOf
<1>5. ASSUME NEW a \in Addresses, b.owner[a] = o PROVE c.owner[a] = o
  BY <1>2, <1>3, <1>5 DEF Covers, CoversAddresses
<1>6. QED
  BY <1>4, <1>5 DEF Covers, CoversAddresses

\* A guild that is not reached has the same pools, supply, members and their
\* substations.
LEMMA GuildUntouched ==
    ASSUME NEW b \in Tables, NEW c \in Tables, NEW m \in Marks({}), Covers(b, c, m),
           NEW inventory,
           NEW g \in Guilds, g \notin Expand(c, inventory, m).guilds
    PROVE  /\ BankRow(b, g) = BankRow(c, g)
           /\ \A k, l : k[g] = l[g] => GuildRow(b, k, g) = GuildRow(c, l, g)
<1> DEFINE e == Expand(c, inventory, m)
<1>1. /\ m.guilds \subseteq e.guilds
      /\ \A a \in m.addresses : c.tag[a] # None => c.tag[a] \in e.guilds
      /\ \A p \in Existing(c) :
           (\/ p \in m.players \/ p \in m.objects
            \/ c.player[p].guild \in m.guilds
            \/ c.player[p].substation \in m.substations
            \/ c.player[p].substation \in m.objects) =>
               c.player[p].guild \in e.guilds \cup {None}
  BY ExpandReach
<1>2. g \notin e.guilds
  OBVIOUS
<1> HIDE DEF e
<1>3. g \notin m.guilds /\ g # None
  BY <1>1, <1>2, ReadModelAssumption
<1>4. (g \in b.guilds <=> g \in c.guilds) /\ b.minted[g] = c.minted[g]
  BY <1>3 DEF Covers, CoversObjects
<1>5. BankRow(b, g) = BankRow(c, g)
  <2>1. ASSUME NEW a \in Addresses, c.tag[a] = g PROVE a \notin m.addresses
    BY <1>1, <1>2, <1>3, <2>1
  <2>2. ASSUME NEW a \in Addresses, b.tag[a] = g PROVE c.tag[a] = g
    BY <1>3, <2>2 DEF Covers, CoversAddresses
  <2>3. /\ \A a \in Addresses : b.tag[a] = g <=> c.tag[a] = g
        /\ \A a \in Addresses : c.tag[a] = g => b.ledger[a] = c.ledger[a]
    BY <2>1, <2>2 DEF Covers, CoversAddresses
  <2>4. QED
    BY <1>4, <2>3, SameBankRow
<1>6. ASSUME NEW p \in Members(c, g)
      PROVE  /\ p \in Players /\ p \notin m.players /\ p \notin m.objects
             /\ c.player[p].substation \notin m.substations
             /\ c.player[p].substation \notin m.objects
  <2>1. p \in Existing(c) /\ c.player[p].guild = g /\ p \in Players
    BY DEF Members, Existing
  <2>2. QED
    BY <1>1, <1>2, <1>3, <2>1
<1>7. ASSUME NEW p \in Members(c, g) PROVE b.player[p] = c.player[p] /\ b.grid[p] = c.grid[p]
  <2>1. p \in Players /\ p \notin m.players /\ p \notin m.objects
    BY <1>6
  <2>2. QED
    BY <2>1 DEF Covers, CoversPlayers, CoversObjects
<1>8. Members(b, g) = Members(c, g)
  <2>1. ASSUME NEW p \in Members(b, g) PROVE p \in Members(c, g)
    <3>1. p \in Players /\ b.player[p] # None /\ b.player[p].guild = g
      BY DEF Members, Existing
    <3>2. c.player[p] = b.player[p]
      BY <1>3, <3>1 DEF Covers, CoversPlayers
    <3>3. QED
      BY <3>1, <3>2 DEF Members, Existing
  <2>2. ASSUME NEW p \in Members(c, g) PROVE p \in Members(b, g)
    BY <1>7 DEF Members, Existing
  <2>3. QED
    BY <2>1, <2>2
<1>9. ASSUME NEW p \in Members(c, g)
      PROVE  LET s == c.player[p].substation
             IN  /\ s \in b.substations <=> s \in c.substations
                 /\ s \in c.substations => b.grid[s] = c.grid[s]
  <2> DEFINE s == c.player[p].substation
  <2>1. s \notin m.substations /\ s \notin m.objects
    BY <1>6
  <2>2. b.substations \in SUBSET Substations /\ c.substations \in SUBSET Substations
    BY DEF Tables
  <2> HIDE DEF s
  <2>3. s \in b.substations <=> s \in c.substations
    BY <2>1, <2>2 DEF Covers, CoversObjects
  <2>4. s \in c.substations => b.grid[s] = c.grid[s]
    BY <2>1, <2>2 DEF Covers, CoversObjects
  <2>5. QED
    BY <2>3, <2>4 DEF s
<1>10. ASSUME NEW k, NEW l, k[g] = l[g] PROVE GuildRow(b, k, g) = GuildRow(c, l, g)
  BY <1>4, <1>7, <1>8, <1>9, <1>10, SameGuildRow
<1>11. QED
  BY <1>5, <1>10

\* A substation that is not reached has the same players and capacities.
LEMMA SubstationUntouched ==
    ASSUME NEW b \in Tables, NEW c \in Tables, NEW m \in Marks({}), Covers(b, c, m),
           NEW inventory,
           NEW s \in Substations, s \notin Expand(c, inventory, m).substations
    PROVE  SubstationRow(b, s) = SubstationRow(c, s)
<1> DEFINE e == Expand(c, inventory, m)
<1>1. /\ m.substations \subseteq e.substations
      /\ m.objects \cap Substations \subseteq e.substations
      /\ \A p \in Existing(c) :
           (p \in m.players \/ p \in m.objects) =>
               c.player[p].substation \in e.substations \cup {None}
  BY ExpandReach
<1>2. s \notin e.substations
  OBVIOUS
<1> HIDE DEF e
<1>3. s \notin m.substations /\ s \notin m.objects /\ s # None
  BY <1>1, <1>2, ReadModelAssumption
<1>4. (s \in b.substations <=> s \in c.substations) /\ b.grid[s] = c.grid[s]
  BY <1>3 DEF Covers, CoversObjects
<1>5. ASSUME NEW p \in Connected(c, s) PROVE p \in Players /\ p \notin m.players /\ p \notin m.objects
  <2>1. p \in Existing(c) /\ c.player[p].substation = s /\ p \in Players
    BY DEF Connected, Existing
  <2>2. QED
    BY <1>1, <1>2, <1>3, <2>1
<1>6. ASSUME NEW p \in Connected(c, s) PROVE b.player[p] = c.player[p] /\ b.grid[p] = c.grid[p]
  <2>1. p \in Players /\ p \notin m.players /\ p \notin m.objects
    BY <1>5
  <2>2. QED
    BY <2>1 DEF Covers, CoversPlayers, CoversObjects
<1>7. Connected(b, s) = Connected(c, s)
  <2>1. ASSUME NEW p \in Connected(b, s) PROVE p \in Connected(c, s)
    <3>1. p \in Players /\ b.player[p] # None /\ b.player[p].substation = s
      BY DEF Connected, Existing
    <3>2. c.player[p] = b.player[p]
      BY <1>3, <3>1 DEF Covers, CoversPlayers
    <3>3. QED
      BY <3>1, <3>2 DEF Connected, Existing
  <2>2. ASSUME NEW p \in Connected(c, s) PROVE p \in Connected(b, s)
    BY <1>6 DEF Connected, Existing
  <2>3. QED
    BY <2>1, <2>2
<1>8. QED
  BY <1>4, <1>6, <1>7, SameSubstationRow

\* A provider that is not marked has the same agreements.
LEMMA ProviderUntouched ==
    ASSUME NEW b \in Tables, NEW c \in Tables, NEW m \in Marks({}), Covers(b, c, m),
           NEW v \in Providers, v \notin m.providers
    PROVE  ProviderRow(b, v) = ProviderRow(c, v)
<1>1. v # None
  BY ReadModelAssumption
<1>2. v \in b.providers <=> v \in c.providers
  BY DEF Covers, CoversProviders
<1>3. \A x \in Agreements : b.agreement[x] = v <=> c.agreement[x] = v
  BY <1>1 DEF Covers, CoversProviders
<1>4. {x \in Agreements : b.agreement[x] = v} = {x \in Agreements : c.agreement[x] = v}
  BY <1>3
<1>5. QED
  BY <1>2, <1>4 DEF ProviderRow

\* A recomputation whose marks cover the changes keeps the models exact.
LEMMA RecomputedNear ==
    ASSUME NEW b \in Tables, NEW c \in Tables, NEW m \in Marks({}), Covers(b, c, m),
           NEW delta, Booked(b, c, delta),
           NEW a, Shape(a), NEW wrong, Near(b, a, wrong)
    PROVE  Shape(Recomputed(c, a, m, delta)) /\ Near(c, Recomputed(c, a, m, delta), wrong)
<1> DEFINE d == Expand(c, a.owner, m)
           inventory == [x \in Addresses |-> [k \in Denoms |-> Plus(a.address[x][k], delta[x][k])]]
           owners == InventoryOwners(c, m, d)
           owned == [o \in Owners |-> IF o \in owners THEN OwnerRow(c, inventory, o)
                                      ELSE a.owner[o]]
           i == [a EXCEPT !.address = inventory, !.owner = owned]
           f == Expected(b)
           n == Expected(c)
<1>1. Recomputed(c, a, m, delta) = Models(c, i, d)
  <2>1. DOMAIN a.owner = Owners
    BY DEF Shape
  <2>2. QED
    BY <2>1 DEF Recomputed, Refreshed
<1>2. /\ d \in Marks({})
      /\ m.players \subseteq d.players /\ m.reactors \subseteq d.reactors
      /\ m.providers \subseteq d.providers
      /\ OwnersOf(c, m) \cap Players \subseteq d.players
      /\ \A p \in Players, g \in d.guilds : a.owner[p][g] # None => p \in d.players
  BY ExpandReach
<1>3. \A o \in Owners \ owners :
         /\ \A x \in Addresses : b.owner[x] = o <=> c.owner[x] = o
         /\ \A x \in Addresses : c.owner[x] = o => b.ledger[x] = c.ledger[x]
  BY OwnerUntouched
<1>4. \A g \in Guilds \ d.guilds :
         /\ BankRow(b, g) = BankRow(c, g)
         /\ \A k, l : k[g] = l[g] => GuildRow(b, k, g) = GuildRow(c, l, g)
  BY GuildUntouched
<1>5. \A s \in Substations \ d.substations : SubstationRow(b, s) = SubstationRow(c, s)
  BY SubstationUntouched
<1>6. \A p \in Players \ d.players : p \in Owners \ owners
  <2>1. owners = m.players \cup (OwnersOf(c, m) \cap Players) \cup d.guilds
    BY DEF InventoryOwners
  <2>2. d.guilds \cap Players = {}
    <3>1. d.guilds \in SUBSET Guilds
      BY <1>2 DEF Marks
    <3>2. QED
      BY <3>1, ReadModelAssumption
  <2> HIDE DEF owners, d
  <2>3. QED
    BY <2>1, <2>2, <1>2 DEF Owners
<1> HIDE DEF d, owners
<1>7. ASSUME NEW o \in Owners, o \notin owners
      PROVE  /\ OwnerRow(b, b.ledger, o) = OwnerRow(c, c.ledger, o)
             /\ ~Reached(c, wrong, o) => ~Reached(b, wrong, o)
  <2>1. \A x \in Addresses : b.owner[x] = o <=> c.owner[x] = o
    BY <1>3, <1>7
  <2>2. \A x \in Addresses : c.owner[x] = o => b.ledger[x] = c.ledger[x]
    BY <1>3, <1>7
  <2>3. OwnerRow(b, b.ledger, o) = OwnerRow(c, c.ledger, o)
    BY <2>1, <2>2, SameOwnerRow
  <2>4. ~Reached(c, wrong, o) => ~Reached(b, wrong, o)
    BY <2>1 DEF Reached
  <2>5. QED
    BY <2>3, <2>4
<1>8. /\ f.address = b.ledger
      /\ \A o \in Owners : f.owner[o] = OwnerRow(b, b.ledger, o)
      /\ \A g \in Guilds : f.bank[g] = BankRow(b, g)
      /\ \A p \in Players : f.player[p] = PlayerRow(b, f.owner, f.bank, p)
      /\ \A g \in Guilds : f.guild[g] = GuildRow(b, f.bank, g)
      /\ \A s \in Substations : f.substation[s] = SubstationRow(b, s)
      /\ f.reactor = b.fuel
      /\ \A v \in Providers : f.provider[v] = ProviderRow(b, v)
  BY ExpectedRows
<1>9. /\ n.address = c.ledger
      /\ \A o \in Owners : n.owner[o] = OwnerRow(c, c.ledger, o)
      /\ \A g \in Guilds : n.bank[g] = BankRow(c, g)
      /\ \A p \in Players : n.player[p] = PlayerRow(c, n.owner, n.bank, p)
      /\ \A g \in Guilds : n.guild[g] = GuildRow(c, n.bank, g)
      /\ \A s \in Substations : n.substation[s] = SubstationRow(c, s)
      /\ n.reactor = c.fuel
      /\ \A v \in Providers : n.provider[v] = ProviderRow(c, v)
  BY ExpectedRows
<1>10. /\ \A x \in Addresses \ wrong : a.address[x] = f.address[x]
       /\ \A o \in Owners : ~Reached(b, wrong, o) => a.owner[o] = f.owner[o]
       /\ a.bank = f.bank
       /\ \A p \in Players : ~Reached(b, wrong, p) => a.player[p] = f.player[p]
       /\ a.guild = f.guild /\ a.substation = f.substation
       /\ a.reactor = f.reactor /\ a.provider = f.provider
  BY DEF Near
<1> HIDE DEF f, n
<1>11. \A x \in Addresses \ wrong : inventory[x] = c.ledger[x]
  <2>1. ASSUME NEW x \in Addresses \ wrong
        PROVE  inventory[x] = c.ledger[x]
    <3>1. a.address[x] = b.ledger[x]
      BY <1>8, <1>10
    <3>2. \A k \in Denoms : c.ledger[x][k] = Plus(b.ledger[x][k], delta[x][k])
      BY DEF Booked
    <3>3. c.ledger[x] = [k \in Denoms |-> c.ledger[x][k]]
      BY DEF Tables
    <3>4. inventory[x] = [k \in Denoms |-> Plus(a.address[x][k], delta[x][k])]
      OBVIOUS
    <3> HIDE DEF inventory
    <3>5. QED
      BY <3>1, <3>2, <3>3, <3>4
  <2>2. QED
    BY <2>1
<1>12. \A o \in Owners : ~Reached(c, wrong, o) => owned[o] = n.owner[o]
  <2>1. ASSUME NEW o \in Owners, ~Reached(c, wrong, o), o \in owners
        PROVE  owned[o] = n.owner[o]
    <3>1. \A x \in Addresses : c.owner[x] = o => inventory[x] = c.ledger[x]
      BY <1>11, <2>1 DEF Reached
    <3>2. OwnerRow(c, inventory, o) = OwnerRow(c, c.ledger, o)
      <4> HIDE DEF inventory
      <4>1. QED
        BY <3>1, SameOwnerRow
    <3>3. QED
      BY <1>9, <2>1, <3>2
  <2>2. ASSUME NEW o \in Owners, ~Reached(c, wrong, o), o \notin owners
        PROVE  owned[o] = n.owner[o]
    BY <1>7, <1>8, <1>9, <1>10, <2>2
  <2>3. QED
    BY <2>1, <2>2
<1>13. /\ Shape(i) /\ i.address = inventory /\ i.owner = owned /\ i.bank = a.bank
       /\ i.player = a.player /\ i.guild = a.guild /\ i.substation = a.substation
       /\ i.reactor = a.reactor /\ i.provider = a.provider
  <2>1. i = [ address |-> inventory, owner |-> owned, bank |-> a.bank,
              player |-> a.player, guild |-> a.guild, substation |-> a.substation,
              reactor |-> a.reactor, provider |-> a.provider ]
    <3>1. a = [ address |-> a.address, owner |-> a.owner, bank |-> a.bank,
                player |-> a.player, guild |-> a.guild, substation |-> a.substation,
                reactor |-> a.reactor, provider |-> a.provider ]
      BY DEF Shape
    <3>2. i = [a EXCEPT !.address = inventory, !.owner = owned]
      OBVIOUS
    <3> HIDE DEF inventory, owned, i
    <3>3. QED
      BY <3>1, <3>2
  <2>2. /\ inventory = [x \in Addresses |-> inventory[x]]
        /\ \A x \in Addresses : inventory[x] = [k \in Denoms |-> inventory[x][k]]
        /\ owned = [o \in Owners |-> owned[o]]
    OBVIOUS
  <2>3. ASSUME NEW o \in Owners PROVE owned[o] = [k \in Denoms |-> owned[o][k]]
    <3>1. OwnerRow(c, inventory, o) = [k \in Denoms |-> OwnerRow(c, inventory, o)[k]]
      BY DEF OwnerRow
    <3>2. a.owner[o] = [k \in Denoms |-> a.owner[o][k]]
      BY DEF Shape
    <3>3. owned[o] = IF o \in owners THEN OwnerRow(c, inventory, o) ELSE a.owner[o]
      OBVIOUS
    <3> HIDE DEF inventory, owned
    <3>4. QED
      BY <3>1, <3>2, <3>3
  <2> HIDE DEF inventory, owned, i
  <2>4. /\ i.address = inventory /\ i.owner = owned /\ i.bank = a.bank
        /\ i.player = a.player /\ i.guild = a.guild /\ i.substation = a.substation
        /\ i.reactor = a.reactor /\ i.provider = a.provider
    BY <2>1
  <2>5. QED
    BY <2>1, <2>2, <2>3, <2>4 DEF Shape
<1>14. \A g \in Guilds \ d.guilds : n.bank[g] = f.bank[g] /\ n.guild[g] = f.guild[g]
  <2>1. ASSUME NEW g \in Guilds \ d.guilds PROVE n.bank[g] = f.bank[g] /\ n.guild[g] = f.guild[g]
    <3>1. f.bank[g] = n.bank[g]
      BY <1>4, <1>8, <1>9
    <3>2. GuildRow(b, f.bank, g) = GuildRow(c, n.bank, g)
      BY <1>4, <3>1
    <3>3. QED
      BY <1>8, <1>9, <3>1, <3>2
  <2>2. QED
    BY <2>1
<1>15. ASSUME NEW p \in Players, p \notin d.players, ~Reached(c, wrong, p)
       PROVE  a.player[p] = n.player[p]
  <2>1. p \in Owners /\ p \notin owners
    BY <1>6, <1>15
  <2>2. ~Reached(b, wrong, p) /\ f.owner[p] = n.owner[p]
    BY <1>7, <1>8, <1>9, <1>15, <2>1
  <2>3. b.player[p] = c.player[p]
    BY <1>2, <1>15 DEF Covers, CoversPlayers
  <2>4. \A g \in Guilds : n.owner[p][g] # None => f.bank[g] = n.bank[g]
    BY <1>2, <1>10, <1>14, <1>15, <2>1, <2>2
  <2>5. PlayerRow(b, f.owner, f.bank, p) = PlayerRow(c, n.owner, n.bank, p)
    BY <2>2, <2>3, <2>4, SamePlayerRow
  <2>6. QED
    BY <1>8, <1>9, <1>10, <2>2, <2>5
<1>16. /\ \A s \in Substations \ d.substations : a.substation[s] = n.substation[s]
       /\ \A r \in Reactors \ d.reactors : a.reactor[r] = c.fuel[r]
       /\ \A v \in Providers \ d.providers : a.provider[v] = n.provider[v]
  <2>1. \A s \in Substations \ d.substations : a.substation[s] = n.substation[s]
    BY <1>5, <1>8, <1>9, <1>10
  <2>2. \A r \in Reactors \ d.reactors : b.fuel[r] = c.fuel[r]
    BY <1>2 DEF Covers, CoversObjects
  <2>3. \A v \in Providers \ d.providers : ProviderRow(b, v) = ProviderRow(c, v)
    BY <1>2, ProviderUntouched
  <2>4. QED
    BY <1>8, <1>9, <1>10, <2>1, <2>2, <2>3
<1> HIDE DEF i, inventory, owned
<1>17. /\ \A x \in Addresses \ wrong : i.address[x] = c.ledger[x]
       /\ \A o \in Owners : ~Reached(c, wrong, o) => i.owner[o] = n.owner[o]
       /\ \A g \in Guilds \ d.guilds : i.bank[g] = n.bank[g] /\ i.guild[g] = n.guild[g]
       /\ \A p \in Players \ d.players :
            ~Reached(c, wrong, p) => i.player[p] = n.player[p]
       /\ \A s \in Substations \ d.substations : i.substation[s] = n.substation[s]
       /\ \A r \in Reactors \ d.reactors : i.reactor[r] = c.fuel[r]
       /\ \A v \in Providers \ d.providers : i.provider[v] = n.provider[v]
  BY <1>10, <1>11, <1>12, <1>13, <1>14, <1>15, <1>16
<1>18. Shape(Models(c, i, d)) /\ Near(c, Models(c, i, d), wrong)
  BY <1>13, <1>17, ModelsNear DEF n
<1>19. QED
  BY <1>1, <1>18 DEF i, inventory, owned, owners, d

-----------------------------------------------------------------------------
(* Rebuilds and repairs.                                                   *)

\* The rebuild from cleared tables, with every id marked, is exact.
LEMMA RebuiltIsExpected ==
    ASSUME NEW b \in Tables
    PROVE  Shape(Rebuilt(b)) /\ Rebuilt(b) = Expected(b)
<1> DEFINE owned == [o \in Owners |-> OwnerRow(b, b.ledger, o)]
           cleared == [ address |-> b.ledger, owner |-> owned,
                        bank |-> [g \in Guilds |-> None], player |-> [p \in Players |-> None],
                        guild |-> [g \in Guilds |-> None],
                        substation |-> [s \in Substations |-> None],
                        reactor |-> [r \in Reactors |-> None],
                        provider |-> [v \in Providers |-> None] ]
           named == {a \in Addresses : \E k \in Denoms : b.ledger[a][k] # None}
           all == [NoMarks EXCEPT !.addresses = named,
                                  !.players = Existing(b), !.guilds = b.guilds,
                                  !.substations = b.substations, !.reactors = Reactors,
                                  !.providers = b.providers]
           d == Expand(b, owned, all)
           e == Expected(b)
<1>1. Rebuilt(b) = Models(b, cleared, d)
  BY DEF Rebuilt
<1>2. /\ all \in Marks({}) /\ all.players = Existing(b) /\ all.guilds = b.guilds
      /\ all.substations = b.substations /\ all.reactors = Reactors
      /\ all.providers = b.providers
  <2> DEFINE players == Existing(b)
  <2>1. all = [ addresses |-> named, players |-> players, guilds |-> b.guilds,
                substations |-> b.substations, objects |-> {}, reactors |-> Reactors,
                providers |-> b.providers ]
    <3>1. all = [NoMarks EXCEPT !.addresses = named,
                                !.players = players, !.guilds = b.guilds,
                                !.substations = b.substations, !.reactors = Reactors,
                                !.providers = b.providers]
      OBVIOUS
    <3> HIDE DEF all, named, players
    <3>2. QED
      BY <3>1 DEF NoMarks
  <2>2. /\ named \in SUBSET Addresses /\ players \in SUBSET Owners
        /\ b.guilds \in SUBSET Guilds /\ b.substations \in SUBSET Substations
        /\ b.providers \in SUBSET Providers
    BY DEF Existing, Owners, Tables
  <2> HIDE DEF all, named, players
  <2>3. /\ all \in Marks({}) /\ all.players = players /\ all.guilds = b.guilds
        /\ all.substations = b.substations /\ all.reactors = Reactors
        /\ all.providers = b.providers
    BY <2>1, <2>2 DEF Marks
  <2>4. QED
    BY <2>3 DEF players
<1> HIDE DEF all
<1>3. /\ Existing(b) \subseteq d.players /\ b.guilds \subseteq d.guilds
      /\ b.substations \subseteq d.substations /\ Reactors \subseteq d.reactors
      /\ b.providers \subseteq d.providers
  <2>1. /\ all.players \subseteq d.players /\ all.guilds \subseteq d.guilds
        /\ all.substations \subseteq d.substations /\ all.reactors \subseteq d.reactors
        /\ all.providers \subseteq d.providers
    BY <1>2, ExpandReach
  <2>2. QED
    BY <1>2, <2>1
<1> HIDE DEF d
<1>4. /\ \A o \in Owners : e.owner[o] = OwnerRow(b, b.ledger, o)
      /\ \A g \in Guilds : e.bank[g] = BankRow(b, g)
      /\ \A p \in Players : e.player[p] = PlayerRow(b, e.owner, e.bank, p)
      /\ \A g \in Guilds : e.guild[g] = GuildRow(b, e.bank, g)
      /\ \A s \in Substations : e.substation[s] = SubstationRow(b, s)
      /\ \A v \in Providers : e.provider[v] = ProviderRow(b, v)
  BY ExpectedRows
<1> HIDE DEF e
<1>5. /\ cleared.address = b.ledger /\ cleared.owner = owned
      /\ \A g \in Guilds : cleared.bank[g] = None /\ cleared.guild[g] = None
      /\ \A p \in Players : cleared.player[p] = None
      /\ \A s \in Substations : cleared.substation[s] = None
      /\ \A v \in Providers : cleared.provider[v] = None
  OBVIOUS
<1>6. Shape(cleared)
  <2>1. /\ b.ledger = [x \in Addresses |-> b.ledger[x]]
        /\ \A x \in Addresses : b.ledger[x] = [k \in Denoms |-> b.ledger[x][k]]
    BY DEF Tables
  <2>2. \A o \in Owners : owned[o] = [k \in Denoms |-> owned[o][k]]
    BY DEF OwnerRow
  <2>3. owned = [o \in Owners |-> owned[o]]
    OBVIOUS
  <2> HIDE DEF owned
  <2>4. QED
    BY <2>1, <2>2, <2>3 DEF Shape
<1>7. \A o \in Owners : owned[o] = e.owner[o]
  BY <1>4
<1> HIDE DEF cleared, owned
<1>8. /\ \A x \in Addresses \ {} : cleared.address[x] = b.ledger[x]
      /\ \A o \in Owners : ~Reached(b, {}, o) => cleared.owner[o] = e.owner[o]
      /\ \A g \in Guilds \ d.guilds : /\ cleared.bank[g] = e.bank[g]
                                     /\ cleared.guild[g] = e.guild[g]
      /\ \A p \in Players \ d.players :
            ~Reached(b, {}, p) => cleared.player[p] = e.player[p]
      /\ \A s \in Substations \ d.substations : cleared.substation[s] = e.substation[s]
      /\ \A r \in Reactors \ d.reactors : cleared.reactor[r] = b.fuel[r]
      /\ \A v \in Providers \ d.providers : cleared.provider[v] = e.provider[v]
  <2>1. \A g \in Guilds \ d.guilds : e.bank[g] = None /\ e.guild[g] = None
    BY <1>3, <1>4 DEF BankRow, GuildRow
  <2>2. \A p \in Players \ d.players : e.player[p] = None
    BY <1>3, <1>4 DEF PlayerRow, Existing
  <2>3. \A s \in Substations \ d.substations : e.substation[s] = None
    BY <1>3, <1>4 DEF SubstationRow
  <2>4. \A v \in Providers \ d.providers : e.provider[v] = None
    BY <1>3, <1>4 DEF ProviderRow
  <2>5. QED
    BY <1>3, <1>5, <1>7, <2>1, <2>2, <2>3, <2>4
<1>9. Shape(Models(b, cleared, d)) /\ Near(b, Models(b, cleared, d), {})
  BY <1>6, <1>8, ModelsNear DEF e
<1>10. QED
  BY <1>1, <1>9, NearIsExpected

\* Exact for a rebuild, whatever was wrong before.
LEMMA ExpectedNear ==
    ASSUME NEW b, NEW wrong
    PROVE  Near(b, Expected(b), wrong)
  BY DEF Near

\* The consumption of differences repairs the rows of the keys and whatever
\* they fed; the rest stays exact.
LEMMA WithoutDriftNear ==
    ASSUME NEW b \in Tables, NEW a, Shape(a), NEW wrong, Near(b, a, wrong), NEW keys
    PROVE  /\ Shape(WithoutDrift(b, a, keys))
           /\ Near(b, WithoutDrift(b, a, keys), wrong \ keys)
<1> DEFINE addresses == keys \cap Addresses
           m == [NoMarks EXCEPT !.addresses = addresses,
                                !.players = keys \cap Players, !.guilds = keys \cap Guilds]
           named == WithAddresses(b, m)
           i == Repaired(b, a, named)
           d == Expand(b, i.owner, named)
           e == Expected(b)
<1>1. WithoutDrift(b, a, keys) = Models(b, i, d)
  BY DEF WithoutDrift
<1>2. /\ m.addresses = addresses /\ m.players = keys \cap Players /\ m.guilds = keys \cap Guilds
      /\ m \in Marks({})
  <2> DEFINE P == keys \cap Players
             G == keys \cap Guilds
  <2>1. m = [ addresses |-> addresses, players |-> P, guilds |-> G, substations |-> {},
              objects |-> {}, reactors |-> {}, providers |-> {} ]
    <3>1. m = [NoMarks EXCEPT !.addresses = addresses, !.players = P, !.guilds = G]
      OBVIOUS
    <3> HIDE DEF m, addresses, P, G
    <3>2. QED
      BY <3>1 DEF NoMarks
  <2>2. addresses \in SUBSET Addresses /\ P \in SUBSET Owners /\ G \in SUBSET Guilds
    BY DEF Owners
  <2> HIDE DEF m, addresses, P, G
  <2>3. /\ m.addresses = addresses /\ m.players = P /\ m.guilds = G /\ m \in Marks({})
    BY <2>1, <2>2 DEF Marks
  <2>4. QED
    BY <2>3 DEF P, G
<1> HIDE DEF m
<1>3. /\ named \in Marks({}) /\ named.addresses = addresses
      /\ named.players = (keys \cap Players) \cup (OwnersOf(b, m) \cap Players)
      /\ named.guilds = (keys \cap Guilds) \cup (OwnersOf(b, m) \cap Guilds)
                        \cup ({b.tag[x] : x \in addresses} \ {None})
  <2>1. \A x \in addresses : b.tag[x] \in Guilds \cup {None}
    BY DEF Tables
  <2> DEFINE P == OwnersOf(b, m) \cap Players
             G == (OwnersOf(b, m) \cap Guilds)
             T == {b.tag[x] : x \in addresses} \ {None}
             KP == keys \cap Players
             KG == keys \cap Guilds
  <2>2. /\ P \in SUBSET Owners /\ G \in SUBSET Guilds /\ T \in SUBSET Guilds
        /\ KP \in SUBSET Owners /\ KG \in SUBSET Guilds
    BY <2>1 DEF Owners
  <2>3. named = [m EXCEPT !.players = m.players \cup P, !.guilds = m.guilds \cup G \cup T]
    BY <1>2 DEF WithAddresses
  <2>4. m.players = KP /\ m.guilds = KG /\ m.addresses = addresses /\ m \in Marks({})
    BY <1>2
  <2> HIDE DEF named, P, G, T, KP, KG, addresses
  <2>5. /\ named \in Marks({}) /\ named.addresses = addresses
        /\ named.players = KP \cup P /\ named.guilds = KG \cup G \cup T
    BY <2>2, <2>3, <2>4 DEF Marks
  <2>6. QED
    BY <2>5 DEF P, G, T, KP, KG
<1> HIDE DEF named
<1> DEFINE owners == named.players \cup named.guilds
           exact == named.addresses \cup {x \in Addresses : b.owner[x] \in owners}
           inventory == [x \in Addresses |-> IF x \in exact THEN b.ledger[x] ELSE a.address[x]]
           owned == [o \in Owners |-> IF o \in owners THEN OwnerRow(b, inventory, o)
                                      ELSE a.owner[o]]
<1>4. i = [a EXCEPT !.address = inventory, !.owner = owned]
  <2>1. DOMAIN a.owner = Owners /\ DOMAIN a.address = Addresses
    BY DEF Shape
  <2>2. QED
    BY <2>1 DEF Repaired, Refreshed
<1>5. /\ keys \cap Owners \subseteq owners
      /\ \A x \in keys \cap Addresses : b.owner[x] # None => b.owner[x] \in owners
      /\ keys \cap Addresses \subseteq exact
  <2>1. OwnersOf(b, m) = {b.owner[x] : x \in keys \cap Addresses} \ {None}
    BY <1>2 DEF OwnersOf
  <2>2. \A x \in keys \cap Addresses : b.owner[x] \in Players \cup Guilds \cup {None}
    BY DEF Tables, Owners
  <2>3. QED
    BY <1>3, <2>1, <2>2 DEF Owners
<1> HIDE DEF exact, owners, addresses
<1>6. /\ \A o \in Owners : e.owner[o] = OwnerRow(b, b.ledger, o)
      /\ e.address = b.ledger /\ e.reactor = b.fuel
  BY ExpectedRows
<1>7. /\ \A x \in Addresses \ wrong : a.address[x] = b.ledger[x]
      /\ \A o \in Owners : ~Reached(b, wrong, o) => a.owner[o] = e.owner[o]
      /\ a.bank = e.bank
      /\ \A p \in Players : ~Reached(b, wrong, p) => a.player[p] = e.player[p]
      /\ a.guild = e.guild /\ a.substation = e.substation
      /\ a.reactor = b.fuel /\ a.provider = e.provider
  BY <1>6 DEF Near
<1> HIDE DEF e
<1>8. \A x \in Addresses \ (wrong \ keys) : inventory[x] = b.ledger[x]
  BY <1>5, <1>7
<1>9. ASSUME NEW o \in Owners, o \notin owners, ~Reached(b, wrong \ keys, o)
      PROVE  ~Reached(b, wrong, o)
  <2>1. o \notin keys /\ o # None
    BY <1>5, <1>9, ReadModelAssumption DEF Owners
  <2>2. ASSUME NEW x \in Addresses \cap wrong, b.owner[x] = o PROVE FALSE
    BY <1>5, <1>9, <2>1, <2>2 DEF Reached
  <2>3. QED
    BY <1>9, <2>1, <2>2 DEF Reached
<1>10. \A o \in Owners : ~Reached(b, wrong \ keys, o) => owned[o] = e.owner[o]
  <2>1. ASSUME NEW o \in Owners, o \in owners PROVE owned[o] = e.owner[o]
    <3>1. \A x \in Addresses : b.owner[x] = o => inventory[x] = b.ledger[x]
      BY <2>1 DEF exact
    <3>2. OwnerRow(b, inventory, o) = OwnerRow(b, b.ledger, o)
      <4> HIDE DEF inventory
      <4>1. QED
        BY <3>1, SameOwnerRow
    <3>3. QED
      BY <1>6, <2>1, <3>2
  <2>2. ASSUME NEW o \in Owners, o \notin owners, ~Reached(b, wrong \ keys, o)
        PROVE  owned[o] = e.owner[o]
    BY <1>7, <1>9, <2>2
  <2>3. QED
    BY <2>1, <2>2
<1>11. /\ Shape(i) /\ i.address = inventory /\ i.owner = owned /\ i.bank = a.bank
       /\ i.player = a.player /\ i.guild = a.guild /\ i.substation = a.substation
       /\ i.reactor = a.reactor /\ i.provider = a.provider
  <2>1. i = [ address |-> inventory, owner |-> owned, bank |-> a.bank,
              player |-> a.player, guild |-> a.guild, substation |-> a.substation,
              reactor |-> a.reactor, provider |-> a.provider ]
    <3>1. a = [ address |-> a.address, owner |-> a.owner, bank |-> a.bank,
                player |-> a.player, guild |-> a.guild, substation |-> a.substation,
                reactor |-> a.reactor, provider |-> a.provider ]
      BY DEF Shape
    <3> HIDE DEF inventory, owned, i
    <3>2. QED
      BY <1>4, <3>1
  <2>2. ASSUME NEW x \in Addresses PROVE inventory[x] = [k \in Denoms |-> inventory[x][k]]
    <3>1. b.ledger[x] = [k \in Denoms |-> b.ledger[x][k]]
      BY DEF Tables
    <3>2. a.address[x] = [k \in Denoms |-> a.address[x][k]]
      BY DEF Shape
    <3>3. inventory[x] = IF x \in exact THEN b.ledger[x] ELSE a.address[x]
      OBVIOUS
    <3> HIDE DEF inventory
    <3>4. QED
      BY <3>1, <3>2, <3>3
  <2>3. ASSUME NEW o \in Owners PROVE owned[o] = [k \in Denoms |-> owned[o][k]]
    <3>1. OwnerRow(b, inventory, o) = [k \in Denoms |-> OwnerRow(b, inventory, o)[k]]
      BY DEF OwnerRow
    <3>2. a.owner[o] = [k \in Denoms |-> a.owner[o][k]]
      BY DEF Shape
    <3>3. owned[o] = IF o \in owners THEN OwnerRow(b, inventory, o) ELSE a.owner[o]
      OBVIOUS
    <3> HIDE DEF inventory, owned
    <3>4. QED
      BY <3>1, <3>2, <3>3
  <2>4. /\ inventory = [x \in Addresses |-> inventory[x]]
        /\ owned = [o \in Owners |-> owned[o]]
    OBVIOUS
  <2> HIDE DEF inventory, owned, i
  <2>5. /\ i.address = inventory /\ i.owner = owned /\ i.bank = a.bank
        /\ i.player = a.player /\ i.guild = a.guild /\ i.substation = a.substation
        /\ i.reactor = a.reactor /\ i.provider = a.provider
    BY <2>1
  <2>6. QED
    BY <2>1, <2>2, <2>3, <2>4, <2>5 DEF Shape
<1>12. named.players \subseteq d.players
  BY <1>3, ExpandReach
<1> HIDE DEF i, inventory, owned, d
<1>13. ASSUME NEW p \in Players, p \notin d.players, ~Reached(b, wrong \ keys, p)
       PROVE  i.player[p] = e.player[p]
  <2>1. p \in Owners /\ p \notin owners
    <3>1. named.guilds \in SUBSET Guilds
      BY <1>3 DEF Marks
    <3>2. QED
      BY <1>12, <1>13, <3>1, ReadModelAssumption DEF owners, Owners
  <2>2. ~Reached(b, wrong, p)
    BY <1>9, <1>13, <2>1
  <2>3. QED
    BY <1>7, <1>11, <2>2
<1>14. /\ \A x \in Addresses \ (wrong \ keys) : i.address[x] = b.ledger[x]
       /\ \A o \in Owners : ~Reached(b, wrong \ keys, o) => i.owner[o] = e.owner[o]
       /\ \A g \in Guilds \ d.guilds : i.bank[g] = e.bank[g] /\ i.guild[g] = e.guild[g]
       /\ \A p \in Players \ d.players :
            ~Reached(b, wrong \ keys, p) => i.player[p] = e.player[p]
       /\ \A s \in Substations \ d.substations : i.substation[s] = e.substation[s]
       /\ \A r \in Reactors \ d.reactors : i.reactor[r] = b.fuel[r]
       /\ \A v \in Providers \ d.providers : i.provider[v] = e.provider[v]
  BY <1>7, <1>8, <1>10, <1>11, <1>13
<1>15. Shape(Models(b, i, d)) /\ Near(b, Models(b, i, d), wrong \ keys)
  BY <1>11, <1>14, ModelsNear DEF e
<1>16. QED
  BY <1>1, <1>15 DEF i, d

-----------------------------------------------------------------------------
(* Transactions.                                                           *)

\* Marks of a part, and marks of the rest, are marks of the whole.
LEMMA CoversTransitive ==
    ASSUME NEW b \in Tables, NEW t \in Tables, NEW c \in Tables,
           NEW d \in Marks({}), NEW e \in Marks({None}),
           Covers(b, t, d), Covers(t, c, e)
    PROVE  Covers(b, c, Marked(d, e))
<1> DEFINE m == Marked(d, e)
<1>1. /\ m.addresses = d.addresses \cup (e.addresses \ {None})
      /\ m.players = d.players \cup (e.players \ {None})
      /\ m.guilds = d.guilds \cup (e.guilds \ {None})
      /\ m.substations = d.substations \cup (e.substations \ {None})
      /\ m.objects = d.objects \cup (e.objects \ {None})
      /\ m.reactors = d.reactors \cup (e.reactors \ {None})
      /\ m.providers = d.providers \cup (e.providers \ {None})
  BY MarkedFields
<1> HIDE DEF m
<1>2. /\ None \notin Addresses /\ None \notin Players /\ None \notin Guilds
      /\ None \notin Substations /\ None \notin Reactors /\ None \notin Providers
  BY ReadModelAssumption
<1>3. CoversAddresses(b, c, m)
  BY <1>1, <1>2 DEF Covers, CoversAddresses
<1>4. CoversPlayers(b, c, m)
  <2>1. ASSUME NEW p \in Players, c.player[p] # b.player[p], t.player[p] = b.player[p]
        PROVE  /\ p \in m.players
               /\ b.player[p] # None => /\ b.player[p].guild \in m.guilds \cup {None}
                                        /\ b.player[p].substation \in m.substations \cup {None}
    <3>1. c.player[p] # t.player[p]
      BY <2>1
    <3>2. /\ p \in e.players
          /\ t.player[p] # None => /\ t.player[p].guild \in e.guilds \cup {None}
                                   /\ t.player[p].substation \in e.substations \cup {None}
      BY <3>1 DEF Covers, CoversPlayers
    <3>3. QED
      BY <1>1, <1>2, <2>1, <3>2
  <2>2. ASSUME NEW p \in Players, t.player[p] # b.player[p]
        PROVE  /\ p \in m.players
               /\ b.player[p] # None => /\ b.player[p].guild \in m.guilds \cup {None}
                                        /\ b.player[p].substation \in m.substations \cup {None}
    BY <1>1, <2>2 DEF Covers, CoversPlayers
  <2>3. QED
    BY <2>1, <2>2 DEF CoversPlayers
<1>5. CoversObjects(b, c, m)
  BY <1>1, <1>2 DEF Covers, CoversObjects
<1>6. CoversProviders(b, c, m)
  BY <1>1, <1>2 DEF Covers, CoversProviders
<1>7. QED
  BY <1>3, <1>4, <1>5, <1>6 DEF Covers, m

\* Deltas add up.
LEMMA PlusAssociative ==
    ASSUME NEW x \in Int \cup {None}, NEW y \in Int \cup {None}, NEW z \in Int \cup {None}
    PROVE  /\ Plus(x, y) \in Int \cup {None}
           /\ Plus(Plus(x, y), z) = Plus(x, Plus(y, z))
<1>1. None \notin Int
  BY ReadModelAssumption
<1>2. QED
  BY <1>1 DEF Plus

\* Ledger rows of two parts are those of the whole.
LEMMA BookedTransitive ==
    ASSUME NEW b \in Tables, NEW t \in Tables, NEW c \in Tables,
           NEW d \in Deltas, NEW e \in Deltas, Booked(b, t, d), Booked(t, c, e)
    PROVE  LET s == [a \in Addresses |-> [k \in Denoms |-> Plus(d[a][k], e[a][k])]]
           IN  s \in Deltas /\ Booked(b, c, s)
<1> DEFINE s == [a \in Addresses |-> [k \in Denoms |-> Plus(d[a][k], e[a][k])]]
<1>1. \A a \in Addresses, k \in Denoms :
         d[a][k] \in Int \cup {None} /\ e[a][k] \in Int \cup {None}
  BY DEF Deltas
<1>2. \A a \in Addresses, k \in Denoms : b.ledger[a][k] \in Int \cup {None}
  BY DEF Tables
<1>3. \A a \in Addresses, k \in Denoms : Plus(d[a][k], e[a][k]) \in Int \cup {None}
  BY <1>1, PlusAssociative
<1>4. s \in Deltas
  BY <1>3 DEF Deltas
<1>5. ASSUME NEW a \in Addresses, NEW k \in Denoms
      PROVE  c.ledger[a][k] = Plus(b.ledger[a][k], s[a][k])
  <2>1. /\ c.ledger[a][k] = Plus(t.ledger[a][k], e[a][k])
        /\ t.ledger[a][k] = Plus(b.ledger[a][k], d[a][k])
    BY DEF Booked
  <2>2. Plus(Plus(b.ledger[a][k], d[a][k]), e[a][k]) = Plus(b.ledger[a][k], Plus(d[a][k], e[a][k]))
    <3> DEFINE x == b.ledger[a][k]
               y == d[a][k]
               z == e[a][k]
    <3>1. x \in Int \cup {None} /\ y \in Int \cup {None} /\ z \in Int \cup {None}
      BY <1>1, <1>2
    <3> HIDE DEF x, y, z
    <3>2. Plus(Plus(x, y), z) = Plus(x, Plus(y, z))
      BY <3>1, PlusAssociative
    <3>3. QED
      BY <3>2 DEF x, y, z
  <2>3. s[a][k] = Plus(d[a][k], e[a][k])
    OBVIOUS
  <2>4. QED
    BY <2>1, <2>2, <2>3
<1>6. QED
  BY <1>4, <1>5 DEF Booked

-----------------------------------------------------------------------------
(* The handlers: what each changes is covered by what it marks.            *)

\* a legal change of the tables with legal marks
Tracked(t, b, m) == b \in Tables /\ m \in Marks({None}) /\ Covers(t, b, m)

\* A player joins, moves or leaves.
LEMMA PlayerTracked ==
    ASSUME NEW t \in Tables, NEW p \in Players, NEW g \in Guilds \cup {None},
           NEW s \in Substations \cup {None}
    PROVE  LET b == [t EXCEPT !.player[p] = [guild |-> g, substation |-> s]]
           IN  Tracked(t, b, MarksOfPlayer(t, p, g, s)) /\ b.ledger = t.ledger
<1> DEFINE b == [t EXCEPT !.player[p] = [guild |-> g, substation |-> s]]
           m == MarksOfPlayer(t, p, g, s)
<1>1. /\ b \in Tables
      /\ b.player = [t.player EXCEPT ![p] = [guild |-> g, substation |-> s]]
      /\ b.guilds = t.guilds /\ b.substations = t.substations /\ b.grid = t.grid
      /\ b.owner = t.owner /\ b.tag = t.tag /\ b.ledger = t.ledger /\ b.minted = t.minted
      /\ b.fuel = t.fuel /\ b.providers = t.providers /\ b.agreement = t.agreement
  BY DEF Tables
<1>2. /\ m \in Marks({None}) /\ p \in m.players
      /\ t.player[p] # None => /\ t.player[p].guild \in m.guilds
                               /\ t.player[p].substation \in m.substations
  BY DEF MarksOfPlayer, NoMarks, Marks, Tables, Owners
<1> HIDE DEF b, m
<1>3. CoversPlayers(t, b, m)
  <2>1. \A q \in Players : q # p => b.player[q] = t.player[q]
    BY <1>1 DEF Tables
  <2>2. QED
    BY <1>2, <2>1 DEF CoversPlayers
<1>4. CoversAddresses(t, b, m) /\ CoversObjects(t, b, m) /\ CoversProviders(t, b, m)
  BY <1>1 DEF CoversAddresses, CoversObjects, CoversProviders
<1>5. QED
  BY <1>1, <1>2, <1>3, <1>4 DEF Tracked, Covers, b, m

\* A deleted player was in no guild and no substation.
LEMMA PlayerDeletedTracked ==
    ASSUME NEW t \in Tables, NEW p \in Players,
           t.player[p] = [guild |-> None, substation |-> None]
    PROVE  LET b == [t EXCEPT !.player[p] = None]
           IN  Tracked(t, b, [NoMarks EXCEPT !.players = {p}]) /\ b.ledger = t.ledger
<1> DEFINE b == [t EXCEPT !.player[p] = None]
           m == [NoMarks EXCEPT !.players = {p}]
<1>1. /\ b \in Tables
      /\ b.player = [t.player EXCEPT ![p] = None]
      /\ b.guilds = t.guilds /\ b.substations = t.substations /\ b.grid = t.grid
      /\ b.owner = t.owner /\ b.tag = t.tag /\ b.ledger = t.ledger
      /\ b.minted = t.minted /\ b.fuel = t.fuel /\ b.providers = t.providers
      /\ b.agreement = t.agreement
  BY DEF Tables, Owners
<1>2. /\ m \in Marks({None})
      /\ p \in m.players
  BY DEF NoMarks, Marks, Tables, Owners
<1> HIDE DEF b, m
<1>3. CoversAddresses(t, b, m)
  BY <1>1 DEF CoversAddresses
<1>4. CoversPlayers(t, b, m)
  BY <1>1, <1>2 DEF CoversPlayers, Tables
<1>5. CoversObjects(t, b, m)
  BY <1>1 DEF CoversObjects
<1>6. CoversProviders(t, b, m)
  BY <1>1 DEF CoversProviders
<1>7. QED
  BY <1>1, <1>2, <1>3, <1>4, <1>5, <1>6 DEF Tracked, Covers, b, m

\* A guild appears.
LEMMA GuildTracked ==
    ASSUME NEW t \in Tables, NEW x \in Guilds
    PROVE  LET b == [t EXCEPT !.guilds = @ \cup {x}]
           IN  Tracked(t, b, [NoMarks EXCEPT !.guilds = {x}]) /\ b.ledger = t.ledger
<1> DEFINE b == [t EXCEPT !.guilds = @ \cup {x}]
           m == [NoMarks EXCEPT !.guilds = {x}]
<1>1. /\ b \in Tables
      /\ b.guilds = t.guilds \cup {x}
      /\ b.player = t.player /\ b.substations = t.substations /\ b.grid = t.grid
      /\ b.owner = t.owner /\ b.tag = t.tag /\ b.ledger = t.ledger
      /\ b.minted = t.minted /\ b.fuel = t.fuel /\ b.providers = t.providers
      /\ b.agreement = t.agreement
  BY DEF Tables, Owners
<1>2. /\ m \in Marks({None})
      /\ x \in m.guilds
  BY DEF NoMarks, Marks, Tables, Owners
<1> HIDE DEF b, m
<1>3. CoversAddresses(t, b, m)
  BY <1>1 DEF CoversAddresses
<1>4. CoversPlayers(t, b, m)
  BY <1>1 DEF CoversPlayers
<1>5. CoversObjects(t, b, m)
  BY <1>1, <1>2 DEF CoversObjects, Tables
<1>6. CoversProviders(t, b, m)
  BY <1>1 DEF CoversProviders
<1>7. QED
  BY <1>1, <1>2, <1>3, <1>4, <1>5, <1>6 DEF Tracked, Covers, b, m

\* A guild goes.
LEMMA GuildDeletedTracked ==
    ASSUME NEW t \in Tables, NEW x \in Guilds
    PROVE  LET b == [t EXCEPT !.guilds = @ \ {x}]
           IN  Tracked(t, b, [NoMarks EXCEPT !.guilds = {x}]) /\ b.ledger = t.ledger
<1> DEFINE b == [t EXCEPT !.guilds = @ \ {x}]
           m == [NoMarks EXCEPT !.guilds = {x}]
<1>1. /\ b \in Tables
      /\ b.guilds = t.guilds \ {x}
      /\ b.player = t.player /\ b.substations = t.substations /\ b.grid = t.grid
      /\ b.owner = t.owner /\ b.tag = t.tag /\ b.ledger = t.ledger
      /\ b.minted = t.minted /\ b.fuel = t.fuel /\ b.providers = t.providers
      /\ b.agreement = t.agreement
  BY DEF Tables, Owners
<1>2. /\ m \in Marks({None})
      /\ x \in m.guilds
  BY DEF NoMarks, Marks, Tables, Owners
<1> HIDE DEF b, m
<1>3. CoversAddresses(t, b, m)
  BY <1>1 DEF CoversAddresses
<1>4. CoversPlayers(t, b, m)
  BY <1>1 DEF CoversPlayers
<1>5. CoversObjects(t, b, m)
  BY <1>1, <1>2 DEF CoversObjects, Tables
<1>6. CoversProviders(t, b, m)
  BY <1>1 DEF CoversProviders
<1>7. QED
  BY <1>1, <1>2, <1>3, <1>4, <1>5, <1>6 DEF Tracked, Covers, b, m

\* A substation appears.
LEMMA SubstationTracked ==
    ASSUME NEW t \in Tables, NEW x \in Substations
    PROVE  LET b == [t EXCEPT !.substations = @ \cup {x}]
           IN  Tracked(t, b, [NoMarks EXCEPT !.substations = {x}]) /\ b.ledger = t.ledger
<1> DEFINE b == [t EXCEPT !.substations = @ \cup {x}]
           m == [NoMarks EXCEPT !.substations = {x}]
<1>1. /\ b \in Tables
      /\ b.substations = t.substations \cup {x}
      /\ b.player = t.player /\ b.guilds = t.guilds /\ b.grid = t.grid
      /\ b.owner = t.owner /\ b.tag = t.tag /\ b.ledger = t.ledger
      /\ b.minted = t.minted /\ b.fuel = t.fuel /\ b.providers = t.providers
      /\ b.agreement = t.agreement
  BY DEF Tables, Owners
<1>2. /\ m \in Marks({None})
      /\ x \in m.substations
  BY DEF NoMarks, Marks, Tables, Owners
<1> HIDE DEF b, m
<1>3. CoversAddresses(t, b, m)
  BY <1>1 DEF CoversAddresses
<1>4. CoversPlayers(t, b, m)
  BY <1>1 DEF CoversPlayers
<1>5. CoversObjects(t, b, m)
  BY <1>1, <1>2 DEF CoversObjects, Tables
<1>6. CoversProviders(t, b, m)
  BY <1>1 DEF CoversProviders
<1>7. QED
  BY <1>1, <1>2, <1>3, <1>4, <1>5, <1>6 DEF Tracked, Covers, b, m

\* A substation goes.
LEMMA SubstationDeletedTracked ==
    ASSUME NEW t \in Tables, NEW x \in Substations
    PROVE  LET b == [t EXCEPT !.substations = @ \ {x}]
           IN  Tracked(t, b, [NoMarks EXCEPT !.substations = {x}]) /\ b.ledger = t.ledger
<1> DEFINE b == [t EXCEPT !.substations = @ \ {x}]
           m == [NoMarks EXCEPT !.substations = {x}]
<1>1. /\ b \in Tables
      /\ b.substations = t.substations \ {x}
      /\ b.player = t.player /\ b.guilds = t.guilds /\ b.grid = t.grid
      /\ b.owner = t.owner /\ b.tag = t.tag /\ b.ledger = t.ledger
      /\ b.minted = t.minted /\ b.fuel = t.fuel /\ b.providers = t.providers
      /\ b.agreement = t.agreement
  BY DEF Tables, Owners
<1>2. /\ m \in Marks({None})
      /\ x \in m.substations
  BY DEF NoMarks, Marks, Tables, Owners
<1> HIDE DEF b, m
<1>3. CoversAddresses(t, b, m)
  BY <1>1 DEF CoversAddresses
<1>4. CoversPlayers(t, b, m)
  BY <1>1 DEF CoversPlayers
<1>5. CoversObjects(t, b, m)
  BY <1>1, <1>2 DEF CoversObjects, Tables
<1>6. CoversProviders(t, b, m)
  BY <1>1 DEF CoversProviders
<1>7. QED
  BY <1>1, <1>2, <1>3, <1>4, <1>5, <1>6 DEF Tracked, Covers, b, m

\* The capacity of a player or a substation.
LEMMA GridTracked ==
    ASSUME NEW t \in Tables, NEW x \in Players \cup Substations
    PROVE  LET b == [t EXCEPT !.grid[x] = 1 - @]
           IN  Tracked(t, b, [NoMarks EXCEPT !.objects = {x}]) /\ b.ledger = t.ledger
<1> DEFINE b == [t EXCEPT !.grid[x] = 1 - @]
           m == [NoMarks EXCEPT !.objects = {x}]
<1>1. /\ b \in Tables
      /\ b.grid = [t.grid EXCEPT ![x] = 1 - t.grid[x]]
      /\ b.player = t.player /\ b.guilds = t.guilds /\ b.substations = t.substations
      /\ b.owner = t.owner /\ b.tag = t.tag /\ b.ledger = t.ledger
      /\ b.minted = t.minted /\ b.fuel = t.fuel /\ b.providers = t.providers
      /\ b.agreement = t.agreement
  <2> DEFINE k == [t.grid EXCEPT ![x] = 1 - t.grid[x]]
  <2>1. k \in [Players \cup Substations -> Int] /\ b = [t EXCEPT !.grid = k]
    <3>1. t.grid \in [Players \cup Substations -> Int]
      BY DEF Tables
    <3>2. QED
      BY <3>1
  <2> HIDE DEF k, b
  <2>2. QED
    BY <2>1 DEF Tables, k
<1>2. /\ m \in Marks({None})
      /\ x \in m.objects
  BY DEF NoMarks, Marks, Tables, Owners
<1> HIDE DEF b, m
<1>3. CoversAddresses(t, b, m)
  BY <1>1 DEF CoversAddresses
<1>4. CoversPlayers(t, b, m)
  BY <1>1 DEF CoversPlayers
<1>5. CoversObjects(t, b, m)
  BY <1>1, <1>2 DEF CoversObjects, Tables
<1>6. CoversProviders(t, b, m)
  BY <1>1 DEF CoversProviders
<1>7. QED
  BY <1>1, <1>2, <1>3, <1>4, <1>5, <1>6 DEF Tracked, Covers, b, m

\* An address is approved for a player, or revoked.
LEMMA AddressTracked ==
    ASSUME NEW t \in Tables, NEW a \in Addresses, NEW p \in Players,
           NEW v \in Owners \cup {None}
    PROVE  LET b == [t EXCEPT !.owner[a] = v]
           IN  Tracked(t, b, [NoMarks EXCEPT !.addresses = {a}, !.players = {t.owner[a], p}]) /\ b.ledger = t.ledger
<1> DEFINE b == [t EXCEPT !.owner[a] = v]
           m == [NoMarks EXCEPT !.addresses = {a}, !.players = {t.owner[a], p}]
<1>1. /\ b \in Tables
      /\ b.owner = [t.owner EXCEPT ![a] = v]
      /\ b.player = t.player /\ b.guilds = t.guilds /\ b.substations = t.substations
      /\ b.grid = t.grid /\ b.tag = t.tag /\ b.ledger = t.ledger /\ b.minted = t.minted
      /\ b.fuel = t.fuel /\ b.providers = t.providers /\ b.agreement = t.agreement
  BY DEF Tables, Owners
<1>2. /\ m \in Marks({None})
      /\ a \in m.addresses /\ t.owner[a] \in m.players
  <2> DEFINE P == {t.owner[a], p}
  <2>1. P \in SUBSET (Owners \cup {None}) /\ t.owner[a] \in P
    BY DEF Tables, Owners
  <2> HIDE DEF P
  <2>2. QED
    BY <2>1 DEF NoMarks, Marks, P
<1> HIDE DEF b, m
<1>3. CoversAddresses(t, b, m)
  BY <1>1, <1>2 DEF CoversAddresses, Tables
<1>4. CoversPlayers(t, b, m)
  BY <1>1 DEF CoversPlayers
<1>5. CoversObjects(t, b, m)
  BY <1>1 DEF CoversObjects
<1>6. CoversProviders(t, b, m)
  BY <1>1 DEF CoversProviders
<1>7. QED
  BY <1>1, <1>2, <1>3, <1>4, <1>5, <1>6 DEF Tracked, Covers, b, m

\* A vault is bound once.
LEMMA VaultTracked ==
    ASSUME NEW t \in Tables, NEW a \in Addresses, NEW o \in Owners, t.owner[a] \in {None, o}
    PROVE  LET b == [t EXCEPT !.owner[a] = o]
           IN  Tracked(t, b, [NoMarks EXCEPT !.addresses = {a}, !.players = {o} \cap Players,
                                    !.guilds = {o} \cap Guilds]) /\ b.ledger = t.ledger
<1> DEFINE b == [t EXCEPT !.owner[a] = o]
           m == [NoMarks EXCEPT !.addresses = {a}, !.players = {o} \cap Players,
                                    !.guilds = {o} \cap Guilds]
<1>1. /\ b \in Tables
      /\ b.owner = [t.owner EXCEPT ![a] = o]
      /\ b.player = t.player /\ b.guilds = t.guilds /\ b.substations = t.substations
      /\ b.grid = t.grid /\ b.tag = t.tag /\ b.ledger = t.ledger /\ b.minted = t.minted
      /\ b.fuel = t.fuel /\ b.providers = t.providers /\ b.agreement = t.agreement
  BY DEF Tables, Owners
<1>2. /\ m \in Marks({None})
      /\ a \in m.addresses
  BY DEF NoMarks, Marks, Tables, Owners
<1> HIDE DEF b, m
<1>3. CoversAddresses(t, b, m)
  BY <1>1, <1>2 DEF CoversAddresses, Tables
<1>4. CoversPlayers(t, b, m)
  BY <1>1 DEF CoversPlayers
<1>5. CoversObjects(t, b, m)
  BY <1>1 DEF CoversObjects
<1>6. CoversProviders(t, b, m)
  BY <1>1 DEF CoversProviders
<1>7. QED
  BY <1>1, <1>2, <1>3, <1>4, <1>5, <1>6 DEF Tracked, Covers, b, m

\* The collateral pool of a guild.
LEMMA PoolTracked ==
    ASSUME NEW t \in Tables, NEW a \in Addresses, NEW g \in Guilds
    PROVE  LET b == [t EXCEPT !.tag[a] = g]
           IN  Tracked(t, b, [NoMarks EXCEPT !.addresses = {a}, !.guilds = {t.tag[a], g}]) /\ b.ledger = t.ledger
<1> DEFINE b == [t EXCEPT !.tag[a] = g]
           m == [NoMarks EXCEPT !.addresses = {a}, !.guilds = {t.tag[a], g}]
<1>1. /\ b \in Tables
      /\ b.tag = [t.tag EXCEPT ![a] = g]
      /\ b.player = t.player /\ b.guilds = t.guilds /\ b.substations = t.substations
      /\ b.grid = t.grid /\ b.owner = t.owner /\ b.ledger = t.ledger
      /\ b.minted = t.minted /\ b.fuel = t.fuel /\ b.providers = t.providers
      /\ b.agreement = t.agreement
  BY DEF Tables, Owners
<1>2. /\ m \in Marks({None})
      /\ a \in m.addresses /\ t.tag[a] \in m.guilds
  BY DEF NoMarks, Marks, Tables, Owners
<1> HIDE DEF b, m
<1>3. CoversAddresses(t, b, m)
  BY <1>1, <1>2 DEF CoversAddresses, Tables
<1>4. CoversPlayers(t, b, m)
  BY <1>1 DEF CoversPlayers
<1>5. CoversObjects(t, b, m)
  BY <1>1 DEF CoversObjects
<1>6. CoversProviders(t, b, m)
  BY <1>1 DEF CoversProviders
<1>7. QED
  BY <1>1, <1>2, <1>3, <1>4, <1>5, <1>6 DEF Tracked, Covers, b, m

\* The fuel of a reactor.
LEMMA InfusionTracked ==
    ASSUME NEW t \in Tables, NEW a \in Addresses, NEW r \in Reactors
    PROVE  LET b == [t EXCEPT !.fuel[r] = 1 - @]
           IN  Tracked(t, b, [NoMarks EXCEPT !.addresses = {a}, !.reactors = {r},
                                    !.players = {t.owner[a]} \cap Players,
                                    !.guilds = {t.owner[a]} \cap Guilds]) /\ b.ledger = t.ledger
<1> DEFINE b == [t EXCEPT !.fuel[r] = 1 - @]
           m == [NoMarks EXCEPT !.addresses = {a}, !.reactors = {r},
                                    !.players = {t.owner[a]} \cap Players,
                                    !.guilds = {t.owner[a]} \cap Guilds]
<1>1. /\ b \in Tables
      /\ b.fuel = [t.fuel EXCEPT ![r] = 1 - t.fuel[r]]
      /\ b.player = t.player /\ b.guilds = t.guilds /\ b.substations = t.substations
      /\ b.grid = t.grid /\ b.owner = t.owner /\ b.tag = t.tag /\ b.ledger = t.ledger
      /\ b.minted = t.minted /\ b.providers = t.providers /\ b.agreement = t.agreement
  <2> DEFINE k == [t.fuel EXCEPT ![r] = 1 - t.fuel[r]]
  <2>1. k \in [Reactors -> Int] /\ b = [t EXCEPT !.fuel = k]
    <3>1. t.fuel \in [Reactors -> Int]
      BY DEF Tables
    <3>2. QED
      BY <3>1
  <2> HIDE DEF k, b
  <2>2. QED
    BY <2>1 DEF Tables, k
<1>2. /\ m \in Marks({None})
      /\ r \in m.reactors
  BY DEF NoMarks, Marks, Tables, Owners
<1> HIDE DEF b, m
<1>3. CoversAddresses(t, b, m)
  BY <1>1 DEF CoversAddresses
<1>4. CoversPlayers(t, b, m)
  BY <1>1 DEF CoversPlayers
<1>5. CoversObjects(t, b, m)
  BY <1>1, <1>2 DEF CoversObjects, Tables
<1>6. CoversProviders(t, b, m)
  BY <1>1 DEF CoversProviders
<1>7. QED
  BY <1>1, <1>2, <1>3, <1>4, <1>5, <1>6 DEF Tracked, Covers, b, m

\* An agreement, or its deletion.
LEMMA AgreementTracked ==
    ASSUME NEW t \in Tables, NEW x \in Agreements, NEW v \in Providers \cup {None},
           NEW S \in SUBSET (Providers \cup {None}), t.agreement[x] \in S, v \in S \cup {None}
    PROVE  LET b == [t EXCEPT !.agreement[x] = v]
           IN  Tracked(t, b, [NoMarks EXCEPT !.providers = S]) /\ b.ledger = t.ledger
<1> DEFINE b == [t EXCEPT !.agreement[x] = v]
           m == [NoMarks EXCEPT !.providers = S]
<1>1. /\ b \in Tables
      /\ b.agreement = [t.agreement EXCEPT ![x] = v]
      /\ b.player = t.player /\ b.guilds = t.guilds /\ b.substations = t.substations
      /\ b.grid = t.grid /\ b.owner = t.owner /\ b.tag = t.tag /\ b.ledger = t.ledger
      /\ b.minted = t.minted /\ b.fuel = t.fuel /\ b.providers = t.providers
  BY DEF Tables, Owners
<1>2. /\ m \in Marks({None})
      /\ t.agreement[x] \in m.providers /\ v \in m.providers \cup {None}
  BY DEF NoMarks, Marks, Tables, Owners
<1> HIDE DEF b, m
<1>3. CoversAddresses(t, b, m)
  BY <1>1 DEF CoversAddresses
<1>4. CoversPlayers(t, b, m)
  BY <1>1 DEF CoversPlayers
<1>5. CoversObjects(t, b, m)
  BY <1>1 DEF CoversObjects
<1>6. CoversProviders(t, b, m)
  BY <1>1, <1>2 DEF CoversProviders, Tables
<1>7. QED
  BY <1>1, <1>2, <1>3, <1>4, <1>5, <1>6 DEF Tracked, Covers, b, m

\* A provider goes with its agreements.
LEMMA ProviderDeletedTracked ==
    ASSUME NEW t \in Tables, NEW v \in Providers
    PROVE  LET b == [t EXCEPT !.providers = @ \ {v},
                              !.agreement = [x \in Agreements |-> IF @[x] = v THEN None ELSE @[x]]]
           IN  Tracked(t, b, [NoMarks EXCEPT !.providers = {v}]) /\ b.ledger = t.ledger
<1> DEFINE b == [t EXCEPT !.providers = @ \ {v},
                              !.agreement = [x \in Agreements |-> IF @[x] = v THEN None ELSE @[x]]]
           m == [NoMarks EXCEPT !.providers = {v}]
<1>1. /\ b \in Tables
      /\ b.providers = t.providers \ {v}
      /\ b.agreement = [x \in Agreements |-> IF t.agreement[x] = v THEN None ELSE t.agreement[x]]
      /\ b.player = t.player /\ b.guilds = t.guilds /\ b.substations = t.substations
      /\ b.grid = t.grid /\ b.owner = t.owner /\ b.tag = t.tag /\ b.ledger = t.ledger
      /\ b.minted = t.minted /\ b.fuel = t.fuel
  BY DEF Tables, Owners
<1>2. /\ m \in Marks({None})
      /\ v \in m.providers
  BY DEF NoMarks, Marks, Tables, Owners
<1> HIDE DEF b, m
<1>3. CoversAddresses(t, b, m)
  BY <1>1 DEF CoversAddresses
<1>4. CoversPlayers(t, b, m)
  BY <1>1 DEF CoversPlayers
<1>5. CoversObjects(t, b, m)
  BY <1>1 DEF CoversObjects
<1>6. CoversProviders(t, b, m)
  BY <1>1, <1>2 DEF CoversProviders, Tables
<1>7. QED
  BY <1>1, <1>2, <1>3, <1>4, <1>5, <1>6 DEF Tracked, Covers, b, m

\* Coins move between two addresses.
LEMMA TransferTracked ==
    ASSUME NEW t \in Tables, NEW x \in Addresses, NEW y \in Addresses, NEW d \in Denoms,
           x # y, t.ledger[x][d] \notin {None, 0}
    PROVE  LET b == [t EXCEPT !.ledger = Added(@, Moved(x, y, d))]
           IN  /\ Tracked(t, b, [NoMarks EXCEPT !.addresses = {x, y}])
               /\ Moved(x, y, d) \in Deltas /\ Booked(t, b, Moved(x, y, d))
<1> DEFINE delta == Moved(x, y, d)
           l == Added(t.ledger, delta)
           b == [t EXCEPT !.ledger = l]
           m == [NoMarks EXCEPT !.addresses = {x, y}]
<1>1. None \notin Int
  BY ReadModelAssumption
<1>2. /\ delta \in Deltas
      /\ delta[x][d] = -1 /\ delta[y][d] = 1
      /\ \A a \in Addresses, k \in Denoms : k # d \/ a \notin {x, y} => delta[a][k] = None
  <2> DEFINE one == [NoDelta EXCEPT ![x][d] = -1]
             two == [one EXCEPT ![y][d] = 1]
  <2>1. NoDelta \in Deltas /\ \A a \in Addresses, k \in Denoms : NoDelta[a][k] = None
    BY DEF NoDelta, Deltas
  <2>2. /\ one \in Deltas /\ one[x][d] = -1
        /\ \A a \in Addresses, k \in Denoms : k # d \/ a # x => one[a][k] = None
    BY <2>1 DEF Deltas
  <2> HIDE DEF one
  <2>3. /\ two \in Deltas /\ two[y][d] = 1 /\ two[x][d] = one[x][d]
        /\ \A a \in Addresses, k \in Denoms : k # d \/ a # y => two[a][k] = one[a][k]
    BY <2>2 DEF Deltas
  <2>4. delta = two
    BY DEF Moved, one
  <2> HIDE DEF two, delta
  <2>5. QED
    BY <2>2, <2>3, <2>4
<1> HIDE DEF delta
<1>3. /\ \A a \in Addresses, k \in Denoms : l[a][k] = Plus(t.ledger[a][k], delta[a][k])
      /\ \A a \in Addresses : l[a] = [k \in Denoms |-> l[a][k]]
      /\ l = [a \in Addresses |-> l[a]]
  BY DEF Added
<1> HIDE DEF l
<1>4. ASSUME NEW a \in Addresses, NEW k \in Denoms PROVE l[a][k] \in Nat \cup {None}
  <2>1. t.ledger[a][k] \in Nat \cup {None} /\ t.ledger[x][d] \in Nat \cup {None}
    BY DEF Tables
  <2>2. l[a][k] = Plus(t.ledger[a][k], delta[a][k])
    BY <1>3
  <2>3. delta[a][k] = IF a = x /\ k = d THEN -1 ELSE IF a = y /\ k = d THEN 1 ELSE None
    BY <1>2
  <2>4. QED
    BY <1>1, <2>1, <2>2, <2>3 DEF Plus
<1>5. l \in [Addresses -> [Denoms -> Nat \cup {None}]]
  BY <1>3, <1>4
<1>6. /\ b \in Tables /\ b.ledger = l
      /\ b.player = t.player /\ b.guilds = t.guilds /\ b.substations = t.substations
      /\ b.grid = t.grid /\ b.owner = t.owner /\ b.tag = t.tag /\ b.minted = t.minted
      /\ b.fuel = t.fuel /\ b.providers = t.providers /\ b.agreement = t.agreement
  BY <1>5 DEF Tables
<1>7. m \in Marks({None}) /\ m.addresses = {x, y}
  BY DEF NoMarks, Marks
<1> HIDE DEF b, m
<1>8. CoversAddresses(t, b, m)
  <2>1. ASSUME NEW a \in Addresses, a \notin {x, y} PROVE l[a] = t.ledger[a]
    <3>1. \A k \in Denoms : l[a][k] = t.ledger[a][k]
      BY <1>2, <1>3, <2>1 DEF Plus
    <3>2. t.ledger[a] = [k \in Denoms |-> t.ledger[a][k]]
      BY DEF Tables
    <3>3. QED
      BY <1>3, <3>1, <3>2
  <2>2. QED
    BY <1>6, <1>7, <2>1 DEF CoversAddresses
<1>9. CoversPlayers(t, b, m) /\ CoversObjects(t, b, m) /\ CoversProviders(t, b, m)
  BY <1>6 DEF CoversPlayers, CoversObjects, CoversProviders
<1>10. Booked(t, b, delta)
  BY <1>3, <1>6 DEF Booked
<1>11. QED
  BY <1>2, <1>6, <1>7, <1>8, <1>9, <1>10 DEF Tracked, Covers, b, m, l, delta

\* A token of a guild is minted or burnt.
LEMMA MintTracked ==
    ASSUME NEW t \in Tables, NEW x \in Addresses, NEW g \in Guilds, NEW n \in {1, -1},
           n = -1 => t.ledger[x][g] \notin {None, 0}
    PROVE  LET b == [t EXCEPT !.ledger[x][g] = Plus(@, n), !.minted[g] = Plus(@, n)]
               delta == [NoDelta EXCEPT ![x][g] = n]
           IN  /\ Tracked(t, b, [NoMarks EXCEPT !.addresses = {x}, !.guilds = {g}])
               /\ delta \in Deltas /\ Booked(t, b, delta)
<1> DEFINE delta == [NoDelta EXCEPT ![x][g] = n]
           l == [t.ledger EXCEPT ![x][g] = Plus(t.ledger[x][g], n)]
           u == [t.minted EXCEPT ![g] = Plus(t.minted[g], n)]
           b == [t EXCEPT !.ledger = l, !.minted = u]
           m == [NoMarks EXCEPT !.addresses = {x}, !.guilds = {g}]
<1>1. None \notin Int /\ g \in Denoms
  BY ReadModelAssumption DEF Denoms
<1>2. /\ delta \in Deltas /\ delta[x][g] = n
      /\ \A a \in Addresses, k \in Denoms : k # g \/ a # x => delta[a][k] = None
  BY <1>1 DEF NoDelta, Deltas
<1> HIDE DEF delta
<1>3. Plus(t.ledger[x][g], n) \in Nat \cup {None} /\ Plus(t.minted[g], n) \in Int \cup {None}
  <2>1. t.ledger[x][g] \in Nat \cup {None} /\ t.minted[g] \in Int \cup {None}
    BY <1>1 DEF Tables
  <2>2. QED
    BY <1>1, <2>1 DEF Plus
<1>4. /\ t.ledger \in [Addresses -> [Denoms -> Nat \cup {None}]]
      /\ t.minted \in [Guilds -> Int \cup {None}]
  BY DEF Tables
<1>5. /\ l \in [Addresses -> [Denoms -> Nat \cup {None}]]
      /\ \A a \in Addresses, k \in Denoms :
           l[a][k] = IF a = x /\ k = g THEN Plus(t.ledger[x][g], n) ELSE t.ledger[a][k]
      /\ \A a \in Addresses : a # x => l[a] = t.ledger[a]
  BY <1>1, <1>3, <1>4
<1>6. /\ u \in [Guilds -> Int \cup {None}]
      /\ \A h \in Guilds : h # g => u[h] = t.minted[h]
  BY <1>3, <1>4
<1>7. b = [t EXCEPT !.ledger[x][g] = Plus(@, n), !.minted[g] = Plus(@, n)]
  OBVIOUS
<1> HIDE DEF l, u
<1>8. /\ b \in Tables /\ b.ledger = l /\ b.minted = u
      /\ b.player = t.player /\ b.guilds = t.guilds /\ b.substations = t.substations
      /\ b.grid = t.grid /\ b.owner = t.owner /\ b.tag = t.tag
      /\ b.fuel = t.fuel /\ b.providers = t.providers /\ b.agreement = t.agreement
  BY <1>5, <1>6 DEF Tables
<1>9. m \in Marks({None}) /\ m.addresses = {x} /\ m.guilds = {g}
  BY DEF NoMarks, Marks
<1> HIDE DEF b, m
<1>10. CoversAddresses(t, b, m)
  BY <1>5, <1>8, <1>9 DEF CoversAddresses
<1>11. CoversObjects(t, b, m)
  BY <1>6, <1>8, <1>9 DEF CoversObjects
<1>12. CoversPlayers(t, b, m) /\ CoversProviders(t, b, m)
  BY <1>8 DEF CoversPlayers, CoversProviders
<1>13. Booked(t, b, delta)
  <2>1. ASSUME NEW a \in Addresses, NEW k \in Denoms
        PROVE  l[a][k] = Plus(t.ledger[a][k], delta[a][k])
    <3>1. t.ledger[a][k] \in Nat \cup {None}
      BY <1>4
    <3>2. CASE a = x /\ k = g
      BY <1>2, <1>5, <3>2
    <3>3. CASE ~(a = x /\ k = g)
      <4>1. delta[a][k] = None /\ l[a][k] = t.ledger[a][k]
        BY <1>2, <1>5, <3>3
      <4>2. QED
        BY <4>1 DEF Plus
    <3>4. QED
      BY <3>2, <3>3
  <2>2. QED
    BY <1>8, <2>1 DEF Booked
<1>14. QED
  BY <1>2, <1>7, <1>8, <1>9, <1>10, <1>11, <1>12, <1>13 DEF Tracked, Covers, m, delta

-----------------------------------------------------------------------------
(* Types of the machine.                                                   *)

TxKinds == {"none", "block", "window", "sweep", "reconcile", "reprocess"}
Transactions == [ kind : TxKinds, base : Tables \cup {None}, dirty : Marks({}),
                  delta : Deltas, events : Nat ]

Typed ==
    /\ TypeOK
    /\ tx \in Transactions
    /\ tx.kind # "none" => tx.base \in Tables
    /\ tx.kind \in {"block", "window"} => pc = "run" /\ height < MaxHeight

Handler ==
    \/ PlayerEvent \/ PlayerDeleted \/ GuildEvent \/ GuildDeleted
    \/ SubstationEvent \/ SubstationDeleted \/ GridEvent
    \/ AddressEvent \/ VaultEvent \/ PoolEvent \/ Transfer \/ Mint
    \/ InfusionEvent \/ AgreementEvent \/ AgreementDeleted \/ ProviderDeleted

\* No ledger row: nothing to book.
LEMMA NothingBooked ==
    ASSUME NEW t, NEW b, b.ledger = t.ledger
    PROVE  NoDelta \in Deltas /\ Booked(t, b, NoDelta)
  BY DEF NoDelta, Deltas, Booked, Plus

\* A deletion of a player in a guild leaves legal tables as well.
LEMMA PlayerDeletedTyped ==
    ASSUME NEW t \in Tables, NEW p \in Players
    PROVE  LET b == [t EXCEPT !.player[p] = None]
           IN  b \in Tables /\ [NoMarks EXCEPT !.players = {p}] \in Marks({None})
  BY DEF Tables, NoMarks, Marks, Owners

\* a handler's change, its marks and its ledger rows
Handles(b, m, delta) ==
    /\ tx.kind # "none"
    /\ Handled(b, m, delta)
    /\ ~DeleteMembers => Covers(tx.base, b, m)
    /\ Booked(tx.base, b, delta)

\* Every handler changes tables, and marks what it changed.
LEMMA HandlerStep ==
    ASSUME Typed, Handler
    PROVE  \E b \in Tables, m \in Marks({None}), delta \in Deltas : Handles(b, m, delta)
<1> DEFINE Goal == \E b \in Tables, m \in Marks({None}), delta \in Deltas : Handles(b, m, delta)
<1>1. tx.kind # "none" /\ tx.base \in Tables
  BY DEF Typed, Handler, Handling, PlayerEvent, PlayerDeleted, GuildEvent, GuildDeleted,
         SubstationEvent, SubstationDeleted, GridEvent, AddressEvent, VaultEvent, PoolEvent,
         Transfer, Mint, InfusionEvent, AgreementEvent, AgreementDeleted, ProviderDeleted
<1> SUFFICES Goal
  OBVIOUS
<1> HIDE DEF Goal
<1>2. PICK t : t = tx.base
  OBVIOUS
<1>3. t \in Tables
  BY <1>1, <1>2
<1>4. ASSUME NEW b, NEW m, NEW delta \in Deltas, Tracked(t, b, m), Booked(t, b, delta),
             Handled(b, m, delta)
      PROVE  Goal
  BY <1>1, <1>2, <1>4 DEF Goal, Handles, Tracked
<1>5. ASSUME NEW b, NEW m, Tracked(t, b, m), b.ledger = t.ledger, Changed(b, m)
      PROVE  Goal
  <2>1. NoDelta \in Deltas /\ Booked(t, b, NoDelta)
    BY <1>5, NothingBooked
  <2>2. QED
    BY <1>4, <1>5, <2>1 DEF Changed
<1>6. CASE PlayerEvent
  <2>1. PICK p \in Players, g \in Guilds \cup {None}, s \in Substations \cup {None} :
           Changed([t EXCEPT !.player[p] = [guild |-> g, substation |-> s]],
                   MarksOfPlayer(t, p, g, s))
    BY <1>2, <1>6 DEF PlayerEvent
  <2> DEFINE b == [t EXCEPT !.player[p] = [guild |-> g, substation |-> s]]
             m == MarksOfPlayer(t, p, g, s)
  <2>2. Tracked(t, b, m) /\ b.ledger = t.ledger
    BY <1>3, PlayerTracked
  <2> HIDE DEF b, m
  <2>3. Changed(b, m)
    BY <2>1 DEF b, m
  <2>4. QED
    BY <1>5, <2>2, <2>3
<1>7. CASE PlayerDeleted
  <2>1. PICK p \in Existing(t) :
         /\ ~DeleteMembers => t.player[p] = [guild |-> None, substation |-> None]
         /\ Changed([t EXCEPT !.player[p] = None], [NoMarks EXCEPT !.players = {p}])
    BY <1>2, <1>7 DEF PlayerDeleted
  <2> DEFINE b == [t EXCEPT !.player[p] = None]
             m == [NoMarks EXCEPT !.players = {p}]
  <2>2. p \in Players
    BY DEF Existing
  <2>3. /\ b \in Tables /\ m \in Marks({None})
        /\ ~DeleteMembers => Covers(t, b, m)
        /\ b.ledger = t.ledger
    <3>1. b \in Tables /\ m \in Marks({None})
      BY <1>3, <2>2, PlayerDeletedTyped
    <3>2. ~DeleteMembers => Tracked(t, b, m)
      BY <1>3, <2>1, <2>2, PlayerDeletedTracked
    <3>3. b.ledger = t.ledger
      BY <1>3 DEF Tables
    <3>4. QED
      BY <3>1, <3>2, <3>3 DEF Tracked
  <2>4. Handled(b, m, NoDelta)
    BY <2>1 DEF Changed
  <2> HIDE DEF b, m
  <2>5. NoDelta \in Deltas /\ Booked(t, b, NoDelta)
    BY <2>3, NothingBooked
  <2>6. QED
    BY <1>1, <1>2, <2>3, <2>4, <2>5 DEF Goal, Handles
<1>8. CASE GuildEvent
  <2>1. PICK x \in Guilds :
         /\ Changed([t EXCEPT !.guilds = @ \cup {x}],
                   [NoMarks EXCEPT !.guilds = {x}])
    BY <1>2, <1>8 DEF GuildEvent
  <2> DEFINE b == [t EXCEPT !.guilds = @ \cup {x}]
             m == [NoMarks EXCEPT !.guilds = {x}]
  <2>2. Tracked(t, b, m) /\ b.ledger = t.ledger
    BY <1>3, <2>1, GuildTracked
  <2> HIDE DEF b, m
  <2>3. Changed(b, m)
    BY <2>1 DEF b, m
  <2>4. QED
    BY <1>5, <2>2, <2>3
<1>9. CASE GuildDeleted
  <2>1. PICK x \in Guilds :
         /\ Changed([t EXCEPT !.guilds = @ \ {x}],
                   [NoMarks EXCEPT !.guilds = {x}])
    BY <1>2, <1>3, <1>9 DEF GuildDeleted, Tables
  <2> DEFINE b == [t EXCEPT !.guilds = @ \ {x}]
             m == [NoMarks EXCEPT !.guilds = {x}]
  <2>2. Tracked(t, b, m) /\ b.ledger = t.ledger
    BY <1>3, <2>1, GuildDeletedTracked
  <2> HIDE DEF b, m
  <2>3. Changed(b, m)
    BY <2>1 DEF b, m
  <2>4. QED
    BY <1>5, <2>2, <2>3
<1>10. CASE SubstationEvent
  <2>1. PICK x \in Substations :
         /\ Changed([t EXCEPT !.substations = @ \cup {x}],
                   [NoMarks EXCEPT !.substations = {x}])
    BY <1>2, <1>10 DEF SubstationEvent
  <2> DEFINE b == [t EXCEPT !.substations = @ \cup {x}]
             m == [NoMarks EXCEPT !.substations = {x}]
  <2>2. Tracked(t, b, m) /\ b.ledger = t.ledger
    BY <1>3, <2>1, SubstationTracked
  <2> HIDE DEF b, m
  <2>3. Changed(b, m)
    BY <2>1 DEF b, m
  <2>4. QED
    BY <1>5, <2>2, <2>3
<1>11. CASE SubstationDeleted
  <2>1. PICK x \in Substations :
         /\ Changed([t EXCEPT !.substations = @ \ {x}],
                   [NoMarks EXCEPT !.substations = {x}])
    BY <1>2, <1>3, <1>11 DEF SubstationDeleted, Tables
  <2> DEFINE b == [t EXCEPT !.substations = @ \ {x}]
             m == [NoMarks EXCEPT !.substations = {x}]
  <2>2. Tracked(t, b, m) /\ b.ledger = t.ledger
    BY <1>3, <2>1, SubstationDeletedTracked
  <2> HIDE DEF b, m
  <2>3. Changed(b, m)
    BY <2>1 DEF b, m
  <2>4. QED
    BY <1>5, <2>2, <2>3
<1>12. CASE GridEvent
  <2>1. PICK x \in Players \cup Substations :
         /\ Changed([t EXCEPT !.grid[x] = 1 - @],
                   [NoMarks EXCEPT !.objects = {x}])
    BY <1>2, <1>12 DEF GridEvent
  <2> DEFINE b == [t EXCEPT !.grid[x] = 1 - @]
             m == [NoMarks EXCEPT !.objects = {x}]
  <2>2. Tracked(t, b, m) /\ b.ledger = t.ledger
    BY <1>3, <2>1, GridTracked
  <2> HIDE DEF b, m
  <2>3. Changed(b, m)
    BY <2>1 DEF b, m
  <2>4. QED
    BY <1>5, <2>2, <2>3
<1>13. CASE AddressEvent
  <2>1. PICK a \in Addresses, p \in Players, v \in Owners \cup {None} :
         /\ Changed([t EXCEPT !.owner[a] = v],
                   [NoMarks EXCEPT !.addresses = {a}, !.players = {t.owner[a], p}])
    BY <1>2, <1>13 DEF AddressEvent, Existing, Owners
  <2> DEFINE b == [t EXCEPT !.owner[a] = v]
             m == [NoMarks EXCEPT !.addresses = {a}, !.players = {t.owner[a], p}]
  <2>2. Tracked(t, b, m) /\ b.ledger = t.ledger
    BY <1>3, <2>1, AddressTracked
  <2> HIDE DEF b, m
  <2>3. Changed(b, m)
    BY <2>1 DEF b, m
  <2>4. QED
    BY <1>5, <2>2, <2>3
<1>14. CASE VaultEvent
  <2>1. PICK a \in Addresses, o \in Owners :
         /\ t.owner[a] \in {None, o}
         /\ Changed([t EXCEPT !.owner[a] = o],
                   [NoMarks EXCEPT !.addresses = {a}, !.players = {o} \cap Players,
                            !.guilds = {o} \cap Guilds])
    BY <1>2, <1>14, ReadModelAssumption DEF VaultEvent
  <2> DEFINE b == [t EXCEPT !.owner[a] = o]
             m == [NoMarks EXCEPT !.addresses = {a}, !.players = {o} \cap Players,
                            !.guilds = {o} \cap Guilds]
  <2>2. Tracked(t, b, m) /\ b.ledger = t.ledger
    BY <1>3, <2>1, VaultTracked
  <2> HIDE DEF b, m
  <2>3. Changed(b, m)
    BY <2>1 DEF b, m
  <2>4. QED
    BY <1>5, <2>2, <2>3
<1>15. CASE PoolEvent
  <2>1. PICK a \in Addresses, g \in Guilds :
         /\ Changed([t EXCEPT !.tag[a] = g],
                   [NoMarks EXCEPT !.addresses = {a}, !.guilds = {t.tag[a], g}])
    BY <1>2, <1>15 DEF PoolEvent
  <2> DEFINE b == [t EXCEPT !.tag[a] = g]
             m == [NoMarks EXCEPT !.addresses = {a}, !.guilds = {t.tag[a], g}]
  <2>2. Tracked(t, b, m) /\ b.ledger = t.ledger
    BY <1>3, <2>1, PoolTracked
  <2> HIDE DEF b, m
  <2>3. Changed(b, m)
    BY <2>1 DEF b, m
  <2>4. QED
    BY <1>5, <2>2, <2>3
<1>16. CASE Transfer
  <2>1. PICK x \in Addresses, y \in Addresses, d \in Denoms :
         /\ x # y /\ t.ledger[x][d] \notin {None, 0}
         /\ Handled([t EXCEPT !.ledger = Added(@, Moved(x, y, d))],
                   [NoMarks EXCEPT !.addresses = {x, y}], Moved(x, y, d))
    BY <1>2, <1>16 DEF Transfer
  <2> DEFINE b == [t EXCEPT !.ledger = Added(@, Moved(x, y, d))]
             m == [NoMarks EXCEPT !.addresses = {x, y}]
             delta == Moved(x, y, d)
  <2>2. Tracked(t, b, m) /\ delta \in Deltas /\ Booked(t, b, delta)
    BY <1>3, <2>1, TransferTracked
  <2> HIDE DEF b, m, delta
  <2>3. Handled(b, m, delta)
    BY <2>1 DEF b, m, delta
  <2>4. QED
    BY <1>4, <2>2, <2>3
<1>17. CASE Mint
  <2>1. PICK x \in Addresses, g \in Guilds, n \in {1, -1} :
         /\ n = -1 => t.ledger[x][g] \notin {None, 0}
         /\ Handled([t EXCEPT !.ledger[x][g] = Plus(@, n), !.minted[g] = Plus(@, n)],
                   [NoMarks EXCEPT !.addresses = {x}, !.guilds = {g}], [NoDelta EXCEPT ![x][g] = n])
    BY <1>2, <1>17 DEF Mint
  <2> DEFINE b == [t EXCEPT !.ledger[x][g] = Plus(@, n), !.minted[g] = Plus(@, n)]
             m == [NoMarks EXCEPT !.addresses = {x}, !.guilds = {g}]
             delta == [NoDelta EXCEPT ![x][g] = n]
  <2>2. Tracked(t, b, m) /\ delta \in Deltas /\ Booked(t, b, delta)
    BY <1>3, <2>1, MintTracked
  <2> HIDE DEF b, m, delta
  <2>3. Handled(b, m, delta)
    BY <2>1 DEF b, m, delta
  <2>4. QED
    BY <1>4, <2>2, <2>3
<1>18. CASE InfusionEvent
  <2>1. PICK a \in Addresses, r \in Reactors :
         /\ Changed([t EXCEPT !.fuel[r] = 1 - @],
                   [NoMarks EXCEPT !.addresses = {a}, !.reactors = {r},
                            !.players = {t.owner[a]} \cap Players,
                            !.guilds = {t.owner[a]} \cap Guilds])
    BY <1>2, <1>18 DEF InfusionEvent
  <2> DEFINE b == [t EXCEPT !.fuel[r] = 1 - @]
             m == [NoMarks EXCEPT !.addresses = {a}, !.reactors = {r},
                            !.players = {t.owner[a]} \cap Players,
                            !.guilds = {t.owner[a]} \cap Guilds]
  <2>2. Tracked(t, b, m) /\ b.ledger = t.ledger
    BY <1>3, <2>1, InfusionTracked
  <2> HIDE DEF b, m
  <2>3. Changed(b, m)
    BY <2>1 DEF b, m
  <2>4. QED
    BY <1>5, <2>2, <2>3
<1>19. CASE AgreementEvent
  <2>1. PICK x \in Agreements, v \in Providers :
         /\ Changed([t EXCEPT !.agreement[x] = IF @ = None THEN v ELSE @],
                   [NoMarks EXCEPT !.providers = {t.agreement[x], v}])
    BY <1>2, <1>19 DEF AgreementEvent
  <2> DEFINE kept == IF t.agreement[x] = None THEN v ELSE t.agreement[x]
             S == {t.agreement[x], v}
             b == [t EXCEPT !.agreement[x] = kept]
             m == [NoMarks EXCEPT !.providers = S]
  <2>2. kept \in Providers \cup {None} /\ kept \in S /\ S \in SUBSET (Providers \cup {None})
    BY <1>3 DEF Tables
  <2>3. Changed(b, m)
    BY <2>1
  <2> HIDE DEF kept
  <2>4. Tracked(t, b, m) /\ b.ledger = t.ledger
    BY <1>3, <2>2, AgreementTracked
  <2> HIDE DEF b, m, S
  <2>5. QED
    BY <1>5, <2>3, <2>4
<1>21. CASE AgreementDeleted
  <2>1. PICK x \in Agreements :
         /\ Changed([t EXCEPT !.agreement[x] = None],
                   [NoMarks EXCEPT !.providers = {t.agreement[x]}])
    BY <1>2, <1>21 DEF AgreementDeleted
  <2> DEFINE S == {t.agreement[x]}
             b == [t EXCEPT !.agreement[x] = None]
             m == [NoMarks EXCEPT !.providers = S]
  <2>2. S \in SUBSET (Providers \cup {None}) /\ t.agreement[x] \in S
    BY <1>3 DEF Tables
  <2>3. Tracked(t, b, m) /\ b.ledger = t.ledger
    BY <1>3, <2>2, AgreementTracked
  <2>4. Changed(b, m)
    BY <2>1
  <2> HIDE DEF b, m, S
  <2>5. QED
    BY <1>5, <2>3, <2>4
<1>20. CASE ProviderDeleted
  <2>1. PICK v \in Providers :
         /\ Changed([t EXCEPT !.providers = @ \ {v},
                      !.agreement = [x \in Agreements |-> IF @[x] = v THEN None ELSE @[x]]],
                   [NoMarks EXCEPT !.providers = {v}])
    BY <1>2, <1>3, <1>20 DEF ProviderDeleted, Tables
  <2> DEFINE b == [t EXCEPT !.providers = @ \ {v},
                      !.agreement = [x \in Agreements |-> IF @[x] = v THEN None ELSE @[x]]]
             m == [NoMarks EXCEPT !.providers = {v}]
  <2>2. Tracked(t, b, m) /\ b.ledger = t.ledger
    BY <1>3, <2>1, ProviderDeletedTracked
  <2> HIDE DEF b, m
  <2>3. Changed(b, m)
    BY <2>1 DEF b, m
  <2>4. QED
    BY <1>5, <2>2, <2>3
<1>22. QED
  BY <1>6, <1>7, <1>8, <1>9, <1>10, <1>11, <1>12, <1>13, <1>14, <1>15, <1>16, <1>17, <1>18,
     <1>19, <1>20, <1>21 DEF Handler

\* The end of a transaction leaves none open.
LEMMA ClosedType == NoTx \in Transactions /\ NoTx.kind = "none"
<1>1. NoMarks \in Marks({}) /\ NoDelta \in Deltas
  BY DEF NoMarks, Marks, NoDelta, Deltas
<1>2. QED
  BY <1>1 DEF NoTx, Transactions, TxKinds

\* The machine starts with legal tables.
LEMMA TypedInit == Init => Typed
<1> SUFFICES ASSUME Init PROVE Typed
  OBVIOUS
<1>1. base \in Tables
  BY ReadModelAssumption DEF Init
<1>2. tx \in Transactions /\ tx.kind = "none"
  BY ClosedType DEF Init
<1>3. height \in 1..MaxHeight /\ stamp \in 0..height
  BY ReadModelAssumption DEF Init
<1>4. TypeOK
  BY <1>1, <1>2, <1>3 DEF Init, TypeOK
<1>5. QED
  BY <1>1, <1>2, <1>4 DEF Typed

\* A transaction begins on the tables as they are.
LEMMA BegunType ==
    ASSUME NEW k \in TxKinds, base \in Tables, Begin(k)
    PROVE  /\ tx' \in Transactions /\ tx'.kind = k /\ tx'.base = base
           /\ tx'.dirty = NoMarks /\ tx'.delta = NoDelta
<1>1. NoMarks \in Marks({}) /\ NoDelta \in Deltas
  BY DEF NoMarks, Marks, NoDelta, Deltas
<1>2. tx' = [kind |-> k, base |-> base, dirty |-> NoMarks, delta |-> NoDelta, events |-> 0]
  BY DEF Begin, NoTx
<1>3. QED
  BY <1>1, <1>2 DEF Transactions

\* A handler extends the open transaction.
LEMMA HandledTx ==
    ASSUME Typed, NEW b \in Tables, NEW m \in Marks({None}), NEW delta \in Deltas,
           Handles(b, m, delta)
    PROVE  LET s == [a \in Addresses |-> [d \in Denoms |-> Plus(tx.delta[a][d], delta[a][d])]]
           IN  /\ tx' \in Transactions /\ tx'.kind = tx.kind /\ tx'.base = b
               /\ tx'.dirty = Marked(tx.dirty, m) /\ tx'.delta = s
<1> DEFINE s == [a \in Addresses |-> [d \in Denoms |-> Plus(tx.delta[a][d], delta[a][d])]]
           n == Marked(tx.dirty, m)
<1>1. tx \in Transactions /\ tx.dirty \in Marks({}) /\ tx.delta \in Deltas /\ tx.events \in Nat
  BY DEF Typed, Transactions
<1>2. n \in Marks({})
  BY <1>1, MarkedFields
<1>3. s \in Deltas
  <2>1. \A a \in Addresses, d \in Denoms :
          tx.delta[a][d] \in Int \cup {None} /\ delta[a][d] \in Int \cup {None}
    BY <1>1 DEF Deltas
  <2>2. \A a \in Addresses, d \in Denoms : Plus(tx.delta[a][d], delta[a][d]) \in Int \cup {None}
    BY <2>1, PlusAssociative
  <2>3. QED
    BY <2>2 DEF Deltas
<1>4. tx' = [tx EXCEPT !.base = b, !.dirty = n, !.events = tx.events + 1, !.delta = s]
  BY DEF Handles, Handled
<1> HIDE DEF s, n
<1>5. /\ tx' \in Transactions /\ tx'.kind = tx.kind /\ tx'.base = b /\ tx'.dirty = n
      /\ tx'.delta = s
  <2>1. tx = [ kind |-> tx.kind, base |-> tx.base, dirty |-> tx.dirty, delta |-> tx.delta,
               events |-> tx.events ]
    BY <1>1 DEF Transactions
  <2>2. tx' = [ kind |-> tx.kind, base |-> b, dirty |-> n, delta |-> s,
                events |-> tx.events + 1 ]
    BY <1>4, <2>1
  <2>3. tx.kind \in TxKinds /\ tx.events + 1 \in Nat
    BY <1>1 DEF Transactions
  <2>4. QED
    BY <1>2, <1>3, <2>2, <2>3 DEF Transactions
<1>6. QED
  BY <1>5 DEF s, n

\* Every step keeps the types.
LEMMA TypedStep ==
    ASSUME Typed, [Next]_vars
    PROVE  Typed'
<1>1. /\ base \in Tables /\ height \in 1..MaxHeight /\ stamp \in 0..height
      /\ pc \in {"off", "start", "run"} /\ stale \in BOOLEAN
      /\ stale => pc = "run" /\ defer
      /\ drift \subseteq Addresses \cup Owners /\ off \subseteq Addresses \cup Owners
      /\ MaxHeight \in Nat
      /\ tx \in Transactions /\ tx.kind \in TxKinds
      /\ tx.kind # "none" => tx.base \in Tables
      /\ tx.kind \in {"block", "window"} => pc = "run" /\ height < MaxHeight
  BY ReadModelAssumption DEF Typed, TypeOK, Transactions
<1>2. NoTx \in Transactions /\ NoTx.kind = "none"
  BY ClosedType
<1>3. \A k \in TxKinds : Begin(k) => /\ tx' \in Transactions /\ tx'.kind = k /\ tx'.base = base
  BY <1>1, BegunType
<1>4. CASE Handler
  <2>1. PICK b \in Tables, m \in Marks({None}), delta \in Deltas : Handles(b, m, delta)
    BY <1>4, HandlerStep
  <2>2. tx' \in Transactions /\ tx'.kind = tx.kind /\ tx'.base = b
    BY <2>1, HandledTx
  <2>3. UNCHANGED <<base, height, stamp, pc, stale, defer, drift, off>>
    BY <2>1 DEF Handles, Handled
  <2>4. QED
    BY <1>1, <2>2, <2>3 DEF Typed, TypeOK, Transactions
<1>5. CASE BeginBlock \/ BeginWindow
  <2>1. /\ pc = "run" /\ height < MaxHeight
        /\ UNCHANGED <<base, height, stamp, pc, stale, defer, drift, off>>
        /\ Begin("block") \/ Begin("window")
    BY <1>5 DEF BeginBlock, BeginWindow
  <2>2. tx' \in Transactions /\ tx'.base = base /\ tx'.kind \in {"block", "window"}
    BY <1>3, <2>1 DEF TxKinds
  <2>3. QED
    BY <1>1, <2>1, <2>2 DEF Typed, TypeOK, TxKinds
<1>6. CASE BeginSweep \/ BeginReconcile \/ BeginReprocess
  <2>1. /\ UNCHANGED <<base, height, stamp, pc, stale, defer, drift, off>>
        /\ Begin("sweep") \/ Begin("reconcile") \/ Begin("reprocess")
    BY <1>6 DEF BeginSweep, BeginReconcile, BeginReprocess
  <2>2. tx' \in Transactions /\ tx'.base = base /\ tx'.kind \in {"sweep", "reconcile", "reprocess"}
    BY <1>3, <2>1 DEF TxKinds
  <2>3. QED
    BY <1>1, <2>1, <2>2 DEF Typed, TypeOK, TxKinds
<1>7. CASE CommitBlock
  <2>1. tx.kind = "block" /\ base' = tx.base /\ height' = height + 1 /\ stamp' = height + 1
        /\ tx' = NoTx /\ UNCHANGED <<pc, defer, stale, drift, off>>
    BY <1>7 DEF CommitBlock
  <2>2. QED
    BY <1>1, <1>2, <2>1 DEF Typed, TypeOK, TxKinds
<1>8. CASE CommitWindow
  <2>1. /\ tx.kind = "window" /\ base' = tx.base /\ height' = height + 1
        /\ stamp' = stamp \/ stamp' = height + 1
        /\ stale' = (stale \/ defer)
        /\ tx' = NoTx /\ UNCHANGED <<pc, defer, drift, off>>
    BY <1>8 DEF CommitWindow, StaleAfter
  <2>2. stale' \in BOOLEAN /\ (stale' => defer)
    BY <1>1, <2>1
  <2>3. QED
    BY <1>1, <1>2, <2>1, <2>2 DEF Typed, TypeOK, TxKinds
<1>9. CASE RebuildDeferred
  <2>1. /\ tx.kind = "none" /\ stamp' = height /\ drift' = {} /\ off' = {}
        /\ ~stale' /\ stale' \in BOOLEAN
        /\ UNCHANGED <<base, height, pc, defer, tx>>
    BY <1>9 DEF RebuildDeferred, Backfill
  <2>2. QED
    BY <1>1, <2>1 DEF Typed, TypeOK, TxKinds
<1>10. CASE Start
  <2>1. /\ pc = "off" /\ tx.kind = "none" /\ pc' = "start"
        /\ UNCHANGED <<base, height, stamp, stale, tx, drift, off>>
    BY <1>10 DEF Start
  <2>2. ~stale
    BY <1>1, <2>1
  <2>3. QED
    BY <1>1, <2>1, <2>2 DEF Typed, TypeOK, TxKinds
<1>11. CASE CommitSweep
  <2>1. /\ tx.kind = "sweep" /\ base' = tx.base /\ stamp' = 0 /\ tx' = NoTx
        /\ UNCHANGED <<height, pc, defer, stale, drift, off>>
    BY <1>11 DEF CommitSweep, Invalidated
  <2>2. QED
    BY <1>1, <1>2, <2>1 DEF Typed, TypeOK, TxKinds
<1>12. CASE Prepare
  <2>1. /\ pc = "start" /\ tx.kind = "none" /\ pc' = "run"
        /\ UNCHANGED <<base, height, defer, tx>>
    BY <1>12 DEF Prepare
  <2>2. \/ stamp' = height /\ drift' = {} /\ off' = {} /\ ~stale' /\ stale' \in BOOLEAN
        \/ defer /\ UNCHANGED <<stamp, drift, off>> /\ stale' \in BOOLEAN
        \/ UNCHANGED stamp /\ drift' = {} /\ off' = off \ drift /\ ~stale' /\ stale' \in BOOLEAN
    BY <1>12 DEF Prepare, Backfill
  <2>3. /\ stamp' \in 0..height /\ stale' \in BOOLEAN /\ (stale' => defer)
        /\ drift' \subseteq Addresses \cup Owners /\ off' \subseteq Addresses \cup Owners
    BY <1>1, <2>2
  <2>4. QED
    BY <1>1, <2>1, <2>3 DEF Typed, TypeOK, TxKinds
<1>13. CASE CommitReconcile
  <2>1. /\ tx.kind = "reconcile" /\ base' = tx.base /\ stamp' = height
        /\ drift' = {} /\ off' = {} /\ tx' = NoTx
        /\ UNCHANGED <<height, pc, defer, stale>>
    BY <1>13 DEF CommitReconcile
  <2>2. QED
    BY <1>1, <1>2, <2>1 DEF Typed, TypeOK, TxKinds
<1>14. CASE CommitReprocess
  <2>1. /\ tx.kind = "reprocess" /\ base' = tx.base /\ stamp' = height /\ tx' = NoTx
        /\ UNCHANGED <<height, pc, defer, stale, drift, off>>
    BY <1>14 DEF CommitReprocess
  <2>2. QED
    BY <1>1, <1>2, <2>1 DEF Typed, TypeOK, TxKinds
<1>15. CASE Crash
  <2>1. /\ pc' = "off" /\ defer' = FALSE /\ stale' = FALSE /\ tx' = NoTx
        /\ UNCHANGED <<base, height, stamp, drift, off>>
    BY <1>15 DEF Crash
  <2>2. QED
    BY <1>1, <1>2, <2>1 DEF Typed, TypeOK, TxKinds
<1>16. CASE RowGoesWrong
  <2>1. PICK row \in Fragile :
          /\ off' = off \cup {row[1]}
          /\ UNCHANGED <<base, height, stamp, pc, defer, stale, tx, drift>>
    BY <1>16 DEF RowGoesWrong
  <2>2. row[1] \in Addresses \cup Owners
    BY <2>1, ReadModelAssumption
  <2>3. QED
    BY <1>1, <2>1, <2>2 DEF Typed, TypeOK, TxKinds
<1>17. CASE NightlyReconcile
  <2>1. /\ drift' = drift \cup Different
        /\ UNCHANGED <<base, height, stamp, pc, defer, stale, tx, off>>
    BY <1>17 DEF NightlyReconcile
  <2>2. Different \subseteq Addresses \cup Owners
    BY DEF Different
  <2>3. QED
    BY <1>1, <2>1, <2>2 DEF Typed, TypeOK, TxKinds
<1>18. CASE UNCHANGED vars
  BY <1>18 DEF vars, Typed, TypeOK
<1>19. QED
  BY <1>4, <1>5, <1>6, <1>7, <1>8, <1>9, <1>10, <1>11, <1>12, <1>13, <1>14, <1>15, <1>16,
     <1>17, <1>18 DEF Next, Handler

\* The tables, the cursor and the stamps, the process and its transaction keep
\* their types, and only a process with deferral is ever behind.
THEOREM TypeCorrect == Spec => []TypeOK
<1>1. Init => Typed
  BY TypedInit
<1>2. Typed /\ [Next]_vars => Typed'
  BY TypedStep
<1>3. Typed => TypeOK
  BY DEF Typed
<1>4. QED
  BY <1>1, <1>2, <1>3, PTL DEF Spec

-----------------------------------------------------------------------------
(* Exactness.  Two settings of the runs are excluded, each an operation    *)
(* that the code allows and that breaks it: a player deleted while in a    *)
(* guild or substation, and a reprocessing on projections left behind.     *)

Exact ==
    /\ Shape(api)
    /\ tx.kind # "none" => Covers(base, tx.base, tx.dirty) /\ Booked(base, tx.base, tx.delta)
    /\ Ready => Near(base, api, off)
    /\ pc = "run" /\ ~stale => Ready
    /\ tx.kind = "block" => ~stale
    /\ tx.kind = "reprocess" => Ready
    /\ tx.kind = "sweep" => pc = "start"

\* Nothing changed, nothing marked.
LEMMA BegunExact ==
    ASSUME NEW b, NEW m, m = NoMarks
    PROVE  Covers(b, b, m) /\ Booked(b, b, NoDelta)
<1>1. Covers(b, b, m)
  BY DEF Covers, CoversAddresses, CoversPlayers, CoversObjects, CoversProviders
<1>2. QED
  BY <1>1, NothingBooked

\* The first models are those of a rebuild.
LEMMA ExactInit == Init => Exact
<1> SUFFICES ASSUME Init PROVE Exact
  OBVIOUS
<1>1. /\ base \in Tables /\ tx.kind = "none" /\ tx.kind # "block" /\ tx.kind # "reprocess"
      /\ tx.kind # "sweep"
  BY ReadModelAssumption DEF Init, NoTx
<1>2. api = Expected(base) /\ pc # "run"
  BY DEF Init
<1>3. Shape(api)
  BY <1>1, <1>2, ExpectedRows
<1>4. Near(base, api, off)
  BY <1>2, ExpectedNear
<1>5. QED
  BY <1>1, <1>2, <1>3, <1>4 DEF Exact

\* What a handler does is covered as the transaction goes on.
LEMMA HandledCovers ==
    ASSUME ~DeleteMembers, Typed, Exact, NEW b \in Tables, NEW m \in Marks({None}),
           NEW delta \in Deltas, Handles(b, m, delta)
    PROVE  Covers(base, tx'.base, tx'.dirty) /\ Booked(base, tx'.base, tx'.delta)
<1> DEFINE s == [a \in Addresses |-> [d \in Denoms |-> Plus(tx.delta[a][d], delta[a][d])]]
           n == Marked(tx.dirty, m)
<1>1. /\ base \in Tables /\ tx.base \in Tables /\ tx.dirty \in Marks({}) /\ tx.delta \in Deltas
      /\ Covers(base, tx.base, tx.dirty) /\ Booked(base, tx.base, tx.delta)
      /\ Covers(tx.base, b, m) /\ Booked(tx.base, b, delta)
  BY DEF Typed, TypeOK, Transactions, Handles, Exact
<1>2. Covers(base, b, n)
  BY <1>1, CoversTransitive
<1>3. Booked(base, b, s)
  BY <1>1, BookedTransitive
<1>4. tx'.base = b /\ tx'.dirty = n /\ tx'.delta = s
  BY HandledTx
<1> HIDE DEF n, s
<1>5. QED
  BY <1>2, <1>3, <1>4

\* The recomputation that ends a transaction on exact models.
LEMMA CommitNear ==
    ASSUME Typed, Exact, tx.kind # "none", Ready
    PROVE  LET n == Recomputed(tx.base, api, tx.dirty, tx.delta)
           IN  Shape(n) /\ Near(tx.base, n, off)
<1>1. /\ base \in Tables /\ tx.base \in Tables /\ tx.dirty \in Marks({})
      /\ Covers(base, tx.base, tx.dirty) /\ Booked(base, tx.base, tx.delta)
      /\ Shape(api) /\ Near(base, api, off)
  BY DEF Typed, TypeOK, Transactions, Exact
<1>2. QED
  BY <1>1, RecomputedNear

\* A row that goes wrong touches no other row yet.
LEMMA WrongAddress ==
    ASSUME NEW b, NEW a, Shape(a), NEW wrong, NEW x \in Addresses, NEW k \in Denoms
    PROVE  LET n == [a EXCEPT !.address[x][k] = Plus(@, 1)]
           IN  Shape(n) /\ (Near(b, a, wrong) => Near(b, n, wrong \cup {x}))
<1> DEFINE address == [a.address EXCEPT ![x][k] = Plus(a.address[x][k], 1)]
           n == [a EXCEPT !.address = address]
<1>1. /\ address = [y \in Addresses |-> address[y]]
      /\ \A y \in Addresses : address[y] = [d \in Denoms |-> address[y][d]]
      /\ \A y \in Addresses : y # x => address[y] = a.address[y]
  <2>1. /\ a.address = [y \in Addresses |-> a.address[y]]
        /\ \A y \in Addresses : a.address[y] = [d \in Denoms |-> a.address[y][d]]
    BY DEF Shape
  <2>2. address = [y \in Addresses |-> IF y = x THEN [a.address[x] EXCEPT ![k] = Plus(a.address[x][k], 1)]
                                       ELSE a.address[y]]
    BY <2>1
  <2> HIDE DEF address
  <2>3. QED
    BY <2>1, <2>2
<1> HIDE DEF address
<1>2. n = [ address |-> address, owner |-> a.owner, bank |-> a.bank,
            player |-> a.player, guild |-> a.guild, substation |-> a.substation,
            reactor |-> a.reactor, provider |-> a.provider ]
  <2>1. a = [ address |-> a.address, owner |-> a.owner, bank |-> a.bank,
              player |-> a.player, guild |-> a.guild, substation |-> a.substation,
              reactor |-> a.reactor, provider |-> a.provider ]
    BY DEF Shape
  <2>2. n = [a EXCEPT !.address = address]
    OBVIOUS
  <2> HIDE DEF n
  <2>3. QED
    BY <2>1, <2>2
<1>3. n = [a EXCEPT !.address[x][k] = Plus(@, 1)]
  BY DEF address
<1> HIDE DEF n
<1>4. /\ n.address = address /\ n.owner = a.owner /\ n.bank = a.bank
      /\ n.player = a.player /\ n.guild = a.guild /\ n.substation = a.substation
      /\ n.reactor = a.reactor /\ n.provider = a.provider
  BY <1>2
<1>5. Shape(n)
  BY <1>1, <1>2, <1>4 DEF Shape
<1>6. \A o : ~Reached(b, wrong \cup {x}, o) => ~Reached(b, wrong, o)
  BY DEF Reached
<1>7. Near(b, a, wrong) => Near(b, n, wrong \cup {x})
  BY <1>1, <1>4, <1>6 DEF Near
<1>8. QED
  BY <1>3, <1>5, <1>7

\* Likewise for the row of an owner.
LEMMA WrongOwner ==
    ASSUME NEW b, NEW a, Shape(a), NEW wrong, NEW x \in Owners, NEW k \in Denoms
    PROVE  LET n == [a EXCEPT !.owner[x][k] = Plus(@, 1)]
           IN  Shape(n) /\ (Near(b, a, wrong) => Near(b, n, wrong \cup {x}))
<1> DEFINE owned == [a.owner EXCEPT ![x][k] = Plus(a.owner[x][k], 1)]
           n == [a EXCEPT !.owner = owned]
<1>1. /\ owned = [y \in Owners |-> owned[y]]
      /\ \A y \in Owners : owned[y] = [d \in Denoms |-> owned[y][d]]
      /\ \A y \in Owners : y # x => owned[y] = a.owner[y]
  <2>1. /\ a.owner = [y \in Owners |-> a.owner[y]]
        /\ \A y \in Owners : a.owner[y] = [d \in Denoms |-> a.owner[y][d]]
    BY DEF Shape
  <2>2. owned = [y \in Owners |-> IF y = x THEN [a.owner[x] EXCEPT ![k] = Plus(a.owner[x][k], 1)]
                                  ELSE a.owner[y]]
    BY <2>1
  <2> HIDE DEF owned
  <2>3. QED
    BY <2>1, <2>2
<1> HIDE DEF owned
<1>2. n = [ address |-> a.address, owner |-> owned, bank |-> a.bank,
            player |-> a.player, guild |-> a.guild, substation |-> a.substation,
            reactor |-> a.reactor, provider |-> a.provider ]
  <2>1. a = [ address |-> a.address, owner |-> a.owner, bank |-> a.bank,
              player |-> a.player, guild |-> a.guild, substation |-> a.substation,
              reactor |-> a.reactor, provider |-> a.provider ]
    BY DEF Shape
  <2>2. n = [a EXCEPT !.owner = owned]
    OBVIOUS
  <2> HIDE DEF n
  <2>3. QED
    BY <2>1, <2>2
<1>3. n = [a EXCEPT !.owner[x][k] = Plus(@, 1)]
  BY DEF owned
<1> HIDE DEF n
<1>4. /\ n.address = a.address /\ n.owner = owned /\ n.bank = a.bank
      /\ n.player = a.player /\ n.guild = a.guild /\ n.substation = a.substation
      /\ n.reactor = a.reactor /\ n.provider = a.provider
  BY <1>2
<1>5. Shape(n)
  BY <1>1, <1>2, <1>4 DEF Shape
<1>6. /\ \A o : ~Reached(b, wrong \cup {x}, o) => ~Reached(b, wrong, o)
      /\ Reached(b, wrong \cup {x}, x)
  BY DEF Reached
<1>7. Near(b, a, wrong) => Near(b, n, wrong \cup {x})
  BY <1>1, <1>4, <1>6 DEF Near
<1>8. QED
  BY <1>3, <1>5, <1>7

\* Every step keeps stamped models exact.
LEMMA ExactStep ==
    ASSUME ~DeleteMembers, ~ReprocessUnready, Typed, Exact, [Next]_vars
    PROVE  Exact'
<1>1. /\ base \in Tables /\ height \in Nat /\ stamp \in 0..height /\ height > 0
      /\ stale => pc = "run" /\ defer
      /\ tx.kind # "none" => tx.base \in Tables
      /\ tx.kind \in {"block", "window"} => pc = "run"
  BY ReadModelAssumption DEF Typed, TypeOK
<1>2. /\ Shape(api)
      /\ tx.kind # "none" => Covers(base, tx.base, tx.dirty) /\ Booked(base, tx.base, tx.delta)
      /\ Ready => Near(base, api, off)
      /\ pc = "run" /\ ~stale => Ready
      /\ tx.kind = "block" => ~stale
      /\ tx.kind = "reprocess" => Ready
      /\ tx.kind = "sweep" => pc = "start"
  BY DEF Exact
<1>3. /\ NoTx.kind = "none" /\ NoTx.kind # "block" /\ NoTx.kind # "reprocess"
      /\ NoTx.kind # "sweep"
  BY DEF NoTx
<1>4. ASSUME NEW k \in TxKinds, Begin(k)
      PROVE  /\ tx'.kind = k /\ Covers(base, tx'.base, tx'.dirty)
             /\ Booked(base, tx'.base, tx'.delta)
  <2>1. tx'.kind = k /\ tx'.base = base /\ tx'.dirty = NoMarks /\ tx'.delta = NoDelta
    BY <1>1, <1>4, BegunType
  <2>2. Covers(base, base, NoMarks) /\ Booked(base, base, NoDelta)
    BY BegunExact
  <2>3. QED
    BY <2>1, <2>2
<1>5. CASE Handler
  <2>1. PICK b \in Tables, m \in Marks({None}), delta \in Deltas : Handles(b, m, delta)
    BY <1>5, HandlerStep
  <2>2. Covers(base, tx'.base, tx'.dirty) /\ Booked(base, tx'.base, tx'.delta)
    BY <2>1, HandledCovers
  <2>3. tx'.kind = tx.kind
    BY <2>1, HandledTx
  <2>4. UNCHANGED <<base, api, height, stamp, pc, stale, off>>
    BY <2>1 DEF Handles, Handled
  <2>5. QED
    BY <1>2, <2>2, <2>3, <2>4 DEF Exact, Ready
<1>6. CASE BeginBlock \/ BeginWindow \/ BeginSweep \/ BeginReconcile \/ BeginReprocess
  <2>1. /\ UNCHANGED <<base, api, height, stamp, pc, stale, off>>
        /\ \/ Begin("block") /\ ~stale
           \/ Begin("window") \/ Begin("reconcile")
           \/ Begin("sweep") /\ pc = "start"
           \/ Begin("reprocess") /\ Ready
    BY <1>6 DEF BeginBlock, BeginWindow, BeginSweep, BeginReconcile, BeginReprocess
  <2>2. /\ Covers(base, tx'.base, tx'.dirty) /\ Booked(base, tx'.base, tx'.delta)
        /\ tx'.kind = "block" => ~stale
        /\ tx'.kind = "reprocess" => Ready
        /\ tx'.kind = "sweep" => pc = "start"
    BY <1>4, <2>1 DEF TxKinds
  <2>3. QED
    BY <1>2, <2>1, <2>2 DEF Exact, Ready
<1>7. CASE CommitBlock
  <2>1. /\ tx.kind = "block" /\ base' = tx.base /\ tx' = NoTx
        /\ api' = Recomputed(tx.base, api, tx.dirty, tx.delta)
        /\ height' = height + 1 /\ stamp' = height + 1
        /\ UNCHANGED <<pc, stale, off>>
    BY <1>7 DEF CommitBlock
  <2>2. Shape(api') /\ Near(base', api', off')
    BY <1>1, <1>2, <2>1, CommitNear
  <2>3. Ready'
    BY <2>1 DEF Ready
  <2>4. QED
    BY <1>3, <2>1, <2>2, <2>3 DEF Exact
<1>8. CASE CommitWindow
  <2>1. /\ tx.kind = "window" /\ base' = tx.base /\ tx' = NoTx
        /\ height' = height + 1 /\ UNCHANGED <<pc, off>>
        /\ (stale' <=> stale \/ defer)
        /\ \/ defer /\ UNCHANGED <<api, stamp>>
           \/ /\ ~defer
              /\ api' = Recomputed(tx.base, api, tx.dirty, tx.delta)
              /\ stamp' = height + 1
    BY <1>8 DEF CommitWindow, StaleAfter
  <2>2. CASE defer
    <3>1. UNCHANGED <<api, stamp>> /\ stale'
      BY <2>1, <2>2
    <3>2. ~Ready'
      BY <1>1, <2>1, <3>1 DEF Ready
    <3>3. QED
      BY <1>2, <1>3, <2>1, <3>1, <3>2 DEF Exact
  <2>3. CASE ~defer
    <3>1. ~stale /\ pc = "run" /\ Ready
      BY <1>1, <1>2, <2>1, <2>3
    <3>2. api' = Recomputed(tx.base, api, tx.dirty, tx.delta) /\ Ready'
      BY <2>1, <2>3 DEF Ready
    <3>3. Shape(api') /\ Near(base', api', off')
      BY <2>1, <3>1, <3>2, CommitNear
    <3>4. QED
      BY <1>3, <2>1, <3>2, <3>3 DEF Exact
  <2>4. QED
    BY <2>2, <2>3
<1>9. CASE RebuildDeferred
  <2>1. /\ tx.kind = "none" /\ api' = Rebuilt(base) /\ stamp' = height
        /\ UNCHANGED <<base, height, tx>>
    BY <1>9 DEF RebuildDeferred, Backfill
  <2>2. Shape(api') /\ Near(base', api', off')
    BY <1>1, <2>1, RebuiltIsExpected, ExpectedNear
  <2>3. Ready'
    BY <2>1 DEF Ready
  <2>4. QED
    BY <2>1, <2>2, <2>3 DEF Exact
<1>10. CASE Start
  <2>1. /\ tx.kind = "none" /\ pc' = "start"
        /\ UNCHANGED <<base, api, height, stamp, stale, tx, off>>
    BY <1>10 DEF Start
  <2>2. QED
    BY <1>2, <2>1 DEF Exact, Ready
<1>11. CASE CommitSweep
  <2>1. /\ tx.kind = "sweep" /\ stamp' = 0 /\ tx' = NoTx
        /\ UNCHANGED <<api, height, pc, stale, off>>
    BY <1>11 DEF CommitSweep, Invalidated
  <2>2. ~Ready'
    BY <1>1, <2>1 DEF Ready
  <2>3. pc' # "run"
    BY <1>2, <2>1
  <2>4. QED
    BY <1>2, <1>3, <2>1, <2>2, <2>3 DEF Exact
<1>12. CASE Prepare
  <2>1. /\ tx.kind = "none" /\ UNCHANGED <<base, height, tx>> /\ pc' = "run"
    BY <1>12 DEF Prepare
  <2>2. CASE Backfill /\ stale' = FALSE
    <3>1. api' = Rebuilt(base) /\ stamp' = height
      BY <2>2 DEF Backfill
    <3>2. Shape(api') /\ Near(base', api', off')
      BY <1>1, <2>1, <3>1, RebuiltIsExpected, ExpectedNear
    <3>3. Ready'
      BY <2>1, <3>1 DEF Ready
    <3>4. QED
      BY <2>1, <3>2, <3>3 DEF Exact
  <2>3. CASE stale' = TRUE /\ UNCHANGED <<api, stamp, drift, off>>
    BY <1>2, <2>1, <2>3 DEF Exact, Ready
  <2>4. CASE /\ Ready /\ stale' = FALSE
             /\ api' = IF drift = {} THEN api ELSE WithoutDrift(base, api, drift)
             /\ off' = off \ drift /\ UNCHANGED stamp
    <3>1. Near(base, api, off)
      BY <1>2, <2>4
    <3>2. Shape(api') /\ Near(base, api', off')
      <4>1. CASE drift = {}
        <5>1. api' = api /\ off' = off
          BY <2>4, <4>1
        <5>2. QED
          BY <1>2, <3>1, <5>1
      <4>2. CASE drift # {}
        <5>1. api' = WithoutDrift(base, api, drift) /\ off' = off \ drift
          BY <2>4, <4>2
        <5>2. QED
          BY <1>1, <1>2, <3>1, <5>1, WithoutDriftNear
      <4>3. QED
        BY <4>1, <4>2
    <3>3. Ready'
      BY <2>1, <2>4 DEF Ready
    <3>4. QED
      BY <2>1, <3>2, <3>3 DEF Exact
  <2>5. QED
    BY <1>12, <2>2, <2>3, <2>4 DEF Prepare, NeedsBackfill
<1>13. CASE CommitReconcile
  <2>1. /\ tx.kind = "reconcile" /\ base' = tx.base /\ api' = Rebuilt(tx.base)
        /\ stamp' = height /\ tx' = NoTx /\ UNCHANGED <<height, pc, stale>>
    BY <1>13 DEF CommitReconcile
  <2>2. Shape(api') /\ Near(base', api', off')
    BY <1>1, <2>1, RebuiltIsExpected, ExpectedNear
  <2>3. Ready'
    BY <2>1 DEF Ready
  <2>4. QED
    BY <1>3, <2>1, <2>2, <2>3 DEF Exact
<1>14. CASE CommitReprocess
  <2>1. /\ tx.kind = "reprocess" /\ base' = tx.base /\ tx' = NoTx
        /\ api' = Recomputed(tx.base, api, tx.dirty, tx.delta)
        /\ stamp' = height /\ UNCHANGED <<height, pc, stale, off>>
    BY <1>14 DEF CommitReprocess
  <2>2. Shape(api') /\ Near(base', api', off')
    BY <1>2, <2>1, CommitNear
  <2>3. Ready'
    BY <2>1 DEF Ready
  <2>4. QED
    BY <1>3, <2>1, <2>2, <2>3 DEF Exact
<1>15. CASE Crash
  <2>1. /\ pc' = "off" /\ tx' = NoTx /\ UNCHANGED <<base, api, height, stamp, off>>
    BY <1>15 DEF Crash
  <2>2. QED
    BY <1>2, <1>3, <2>1 DEF Exact, Ready
<1>16. CASE RowGoesWrong
  <2>1. PICK row \in Fragile :
          /\ off' = off \cup {row[1]}
          /\ api' = IF row[1] \in Addresses
                      THEN [api EXCEPT !.address[row[1]][row[2]] = Plus(@, 1)]
                      ELSE [api EXCEPT !.owner[row[1]][row[2]] = Plus(@, 1)]
          /\ UNCHANGED <<base, height, stamp, pc, stale, tx>>
    BY <1>16 DEF RowGoesWrong
  <2>2. PICK x, k, wrong, a :
          x = row[1] /\ k = row[2] /\ wrong = off /\ a = api
    OBVIOUS
  <2>3. x \in Addresses \cup Owners /\ k \in Denoms
    BY <2>1, <2>2, ReadModelAssumption
  <2>4. PICK n : n = api'
    OBVIOUS
  <2>5. PICK b : b = base
    OBVIOUS
  <2>6. Shape(n) /\ (Near(b, a, wrong) => Near(b, n, wrong \cup {x}))
    <3>1. CASE x \in Addresses
      <4>1. n = [a EXCEPT !.address[x][k] = Plus(@, 1)]
        BY <2>1, <2>2, <2>4, <3>1
      <4>2. QED
        BY <1>2, <2>2, <2>3, <3>1, <4>1, WrongAddress
    <3>2. CASE x \notin Addresses
      <4>1. n = [a EXCEPT !.owner[x][k] = Plus(@, 1)] /\ x \in Owners
        BY <2>1, <2>2, <2>3, <2>4, <3>2
      <4>2. QED
        BY <1>2, <2>2, <2>3, <4>1, WrongOwner
    <3>3. QED
      BY <3>1, <3>2
  <2>7. Shape(api') /\ (Near(base, api, off) => Near(base', api', off'))
    BY <2>1, <2>2, <2>4, <2>5, <2>6
  <2>8. QED
    BY <1>2, <2>1, <2>7 DEF Exact, Ready
<1>17. CASE NightlyReconcile
  <2>1. UNCHANGED <<base, api, height, stamp, pc, stale, tx, off>>
    BY <1>17 DEF NightlyReconcile
  <2>2. QED
    BY <1>2, <2>1 DEF Exact, Ready
<1>18. CASE UNCHANGED vars
  BY <1>2, <1>18 DEF vars, Exact, Ready
<1>19. QED
  BY <1>5, <1>6, <1>7, <1>8, <1>9, <1>10, <1>11, <1>12, <1>13, <1>14, <1>15, <1>16,
     <1>17, <1>18 DEF Next, Handler

\* The invariant of the machine, for the settings that are not excluded.
LEMMA ExactInvariant ==
    ASSUME ~DeleteMembers, ~ReprocessUnready
    PROVE  Spec => [](Typed /\ Exact)
<1>1. Init => Typed /\ Exact
  BY TypedInit, ExactInit
<1>2. Typed /\ Exact /\ [Next]_vars => (Typed /\ Exact)'
  BY TypedStep, ExactStep
<1>3. QED
  BY <1>1, <1>2, PTL DEF Spec

-----------------------------------------------------------------------------
(* The theorems.                                                           *)

\* Models stamped at the height of the cursor are what a rebuild from nothing
\* would give, whatever the handlers, windows, repairs, sweeps and crashes since:
\* no dependency of a row escapes the marks and their expansion, and nothing
\* stamps rows that were left behind.
THEOREM StampedModelsExact ==
    ASSUME ~DeleteMembers, ~ReprocessUnready
    PROVE  Spec => []ReadyMeansExact
<1>1. Typed /\ Exact => ReadyMeansExact
  <2>1. ASSUME Typed, Exact, Ready, off = {} PROVE api = Expected(base)
    <3>1. base \in Tables /\ Shape(api) /\ Near(base, api, {})
      BY <2>1 DEF Typed, TypeOK, Exact
    <3>2. QED
      BY <3>1, NearIsExpected
  <2>2. QED
    BY <2>1 DEF ReadyMeansExact
<1>2. QED
  BY <1>1, ExactInvariant, PTL

\* The consumption of the recorded differences makes every model exact, if they
\* name every row that went wrong: whatever was indexed in between, the wrong
\* rows have reached none but their owners and the players among them.
THEOREM DriftIsRepaired ==
    ASSUME ~DeleteMembers, ~ReprocessUnready
    PROVE  Spec => DriftRepaired
<1>1. ASSUME Typed, Exact, [Next]_vars, drift # {}, drift' = {}, off \subseteq drift
      PROVE  api' = Expected(base')
  <2>1. /\ base \in Tables /\ Shape(api)
        /\ tx.kind # "none" => tx.base \in Tables
        /\ Ready => Near(base, api, off)
    BY <1>1 DEF Typed, TypeOK, Exact
  <2>2. CASE RebuildDeferred
    <3>1. api' = Rebuilt(base) /\ base' = base
      BY <2>2 DEF RebuildDeferred, Backfill
    <3>2. QED
      BY <2>1, <3>1, RebuiltIsExpected
  <2>3. CASE CommitReconcile
    <3>1. api' = Rebuilt(tx.base) /\ base' = tx.base /\ tx.base \in Tables
      BY <2>1, <2>3 DEF CommitReconcile
    <3>2. QED
      BY <3>1, RebuiltIsExpected
  <2>4. CASE Prepare
    <3>1. base' = base
      BY <2>4 DEF Prepare
    <3>2. CASE Backfill
      BY <2>1, <3>1, <3>2, RebuiltIsExpected DEF Backfill
    <3>3. CASE Ready /\ api' = WithoutDrift(base, api, drift)
      <4>1. /\ Shape(WithoutDrift(base, api, drift))
            /\ Near(base, WithoutDrift(base, api, drift), off \ drift)
        BY <2>1, <3>3, WithoutDriftNear
      <4>2. off \ drift = {}
        BY <1>1
      <4>3. Shape(api') /\ Near(base, api', {})
        BY <3>3, <4>1, <4>2
      <4>4. PICK n : n = api'
        OBVIOUS
      <4>5. n = Expected(base)
        BY <2>1, <4>3, <4>4, NearIsExpected
      <4>6. QED
        BY <3>1, <4>4, <4>5
    <3>4. QED
      BY <1>1, <2>4, <3>2, <3>3 DEF Prepare, NeedsBackfill
  <2>5. CASE NightlyReconcile
    BY <1>1, <2>5 DEF NightlyReconcile
  <2>6. ASSUME Handler \/ UNCHANGED vars \/ BeginBlock \/ CommitBlock \/ BeginWindow
               \/ CommitWindow \/ Start \/ BeginSweep \/ CommitSweep \/ BeginReconcile
               \/ BeginReprocess \/ CommitReprocess \/ Crash \/ RowGoesWrong
        PROVE  drift' = drift
    <3>1. CASE Handler
      <4>1. PICK b \in Tables, m \in Marks({None}), delta \in Deltas : Handles(b, m, delta)
        BY <1>1, <3>1, HandlerStep
      <4>2. QED
        BY <4>1 DEF Handles, Handled
    <3>2. CASE ~Handler
      BY <2>6, <3>2 DEF vars, BeginBlock, CommitBlock, BeginWindow, CommitWindow, Start,
         BeginSweep, CommitSweep, BeginReconcile, BeginReprocess, CommitReprocess, Crash,
         RowGoesWrong
    <3>3. QED
      BY <3>1, <3>2
  <2>7. QED
    BY <1>1, <2>2, <2>3, <2>4, <2>5, <2>6 DEF Next, Handler
<1>2. Typed /\ Exact /\ [Next]_vars =>
        [drift # {} /\ drift' = {} /\ off \subseteq drift => api' = Expected(base')]_vars
  BY <1>1
<1>3. QED
  BY <1>2, ExactInvariant, PTL DEF Spec, DriftRepaired
=============================================================================
