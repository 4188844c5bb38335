---------------------------- MODULE MCReadModel ----------------------------
(* Instances of ReadModel for TLC: a world of two guilds, and the events    *)
(* and interruptions of each run.                                           *)
EXTENDS ReadModel

CONSTANTS p1, p2, g1, g2, s1, wallet, vault, pool, r1, v1, v2, deal

\* p1 is in g1 and p2 in none, each has an address; p2 holds the token of g1,
\* which the pool backs
World ==
    [ player |-> [p \in Players |-> IF p = p1 THEN [guild |-> g1, substation |-> s1]
                                              ELSE [guild |-> None, substation |-> s1]],
      guilds |-> {g1}, substations |-> {s1},
      grid |-> [x \in Players \cup Substations |-> 1],
      owner |-> [a \in Addresses |-> IF a = wallet THEN p2 ELSE None],
      tag |-> [a \in Addresses |-> IF a = pool THEN g1 ELSE None],
      ledger |-> [a \in Addresses |-> [d \in Denoms |->
                    IF a = wallet /\ d = g1 THEN 1
                    ELSE IF a = pool /\ d = "ualpha" THEN 2 ELSE None]],
      minted |-> [g \in Guilds |-> IF g = g1 THEN 1 ELSE None],
      fuel |-> [r \in Reactors |-> 0],
      providers |-> Providers,
      agreement |-> [x \in Agreements |-> v1] ]

\* p1 only, with a wallet of both denominations; the vault is g1's and its pool
World2 ==
    [World EXCEPT
        !.player = [p \in Players |-> IF p = p1 THEN [guild |-> g1, substation |-> None] ELSE None],
        !.guilds = Guilds,
        !.owner = [a \in Addresses |-> CASE a = wallet -> p1 [] a = vault -> g1 [] OTHER -> None],
        !.tag = [a \in Addresses |-> IF a = vault THEN g1 ELSE None],
        !.ledger = [a \in Addresses |-> [d \in Denoms |-> IF a = wallet \/ d = g2 THEN 1 ELSE None]],
        !.minted = [g \in Guilds |-> 1]]

Worlds == {World, World2}

SomeRows == {<<wallet, g1>>}
Economy == {"player", "address", "transfer"}
CrashAndReprocess == {"crash", "reprocess"}
=============================================================================
