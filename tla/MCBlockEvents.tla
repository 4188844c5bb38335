--------------------------- MODULE MCBlockEvents ---------------------------
(* Instances of BlockEvents for TLC: chains of three blocks. *)
EXTENDS BlockEvents

Mine(who, n) == [op |-> "mine", who |-> who, n |-> n]
Refine(who, vault, n) == [op |-> "refine", who |-> who, vault |-> vault, n |-> n]
Infuse(n) == [op |-> "infuse", who |-> "ann", n |-> n]
Send(who, to, coins) == [op |-> "send", who |-> who, to |-> to, coins |-> coins]
Stake(op, who, val, n) == [op |-> op, who |-> who, val |-> val, n |-> n]
Redelegate(op, who, val, to, n) == [op |-> op, who |-> who, val |-> val, to |-> to, n |-> n]
Ores(op, who, from, n) == [op |-> op, who |-> who, to |-> from, n |-> n]
AttackOn(planet) == [op |-> "attack", planet |-> planet]
GridRecord(id, val) == [op |-> "grid", id |-> id, val |-> val]
Revise(n) == [op |-> "revise", id |-> "3-1", n |-> n]
Reset == [op |-> "reset"]
Novel == [op |-> "novel"]

Block(begin, txs, end) == [begin |-> begin, txs |-> txs, end |-> end]

\* ore, alpha and staking; one message of the second block wraps two
\* redelegations from the same validator
Economy ==
    << Block(<< >>, << << <<Mine("ann", 2)>>, <<Stake("delegate", "ann", "v1", 3)>> >>,
                       << <<Stake("create_validator", "bob", "v1", 3)>> >> >>, << >>),
       Block(<< >>, << << <<Refine("ann", "vault", 1)>>,
                          <<Send("vault", "bob", <<Coin(1, Alpha), Coin(2, Ore)>>)>> >>,
                       << <<Redelegate("redelegate", "ann", "v1", "v2", 1),
                            Redelegate("redelegate", "bob", "v1", "v2", 2)>>,
                          <<Stake("unbond", "ann", "v1", 2)>> >> >>, << >>),
       Block(<<Stake("cancel_unbond", "ann", "v1", 1)>>,
             << << <<Ores("theft", "bob", "ann", 1)>>, <<Ores("migrate", "ann", "bob", 1)>> >> >>,
             <<Redelegate("complete_redelegation", "ann", "v1", "v2", 1),
               Stake("complete_unbonding", "ann", "v1", 1)>>) >>

\* generator, grid, timeline and commission revisions
World ==
    << Block(<< >>, << << <<AttackOn("p")>>, <<Infuse(1)>> >>, << <<Infuse(1)>> >> >>,
             <<GridRecord("g", 5), Revise(1)>>),
       Block(<<GridRecord("", 1), Reset>>,
             << << <<Infuse(2)>>, <<AttackOn("p"), AttackOn("")>> >>, << <<Infuse(1)>> >> >>,
             <<GridRecord("g", 7)>>),
       Block(<<Revise(2)>>, << << <<Novel, Mine("ann", 1)>>, <<AttackOn("p"), AttackOn("q")>> >> >>,
             <<Infuse(1), GridRecord("g", Absent)>>) >>

BothChains == [economy |-> Economy, world |-> World]

Fresh == [upTo |-> 0, skipped |-> << >>, position |-> "phase"]
Older(skipped, position) == [upTo |-> 1, skipped |-> skipped, position |-> position]

\* an older release lost nothing, or one event of a transaction or of EndBlock;
\* a lost last infusion leaves a position without a phase that proves nothing
Inheritances ==
    { Fresh, Older(<< >>, "none"), Older(<< >>, "no_phase"), Older(<<0, 0>>, "phase"),
      Older(<<0, 1>>, "phase"), Older(<<1, 0>>, "no_phase"), Older(<<-1, 1>>, "phase") }

AllFaults == {"handler", "native", "commit", "rpc", "error_row", "unknown_row", "crash"}
=============================================================================
