---------------------------- MODULE ChainEvents ----------------------------
(***************************************************************************)
(* The chain that sync-state reads, as its events show it: what the        *)
(* operations of structsd, x/bank and x/staking emit, and what they do to  *)
(* the balances. None of this code is in the repository; it is modelled    *)
(* from the event streams that the handlers and their tests expect.        *)
(*                                                                         *)
(* An operation is a record with a field op. A block is the operations of  *)
(* BeginBlock and EndBlock and its transactions; a transaction is a list   *)
(* of messages, and a message may wrap several operations. Generators are  *)
(* funded by one address.                                                  *)
(***************************************************************************)
EXTENDS Integers, Sequences, FiniteSets, SequencesExt

CONSTANTS
    Micro,       \* ualpha minted for one unit of ore
    Pool         \* the module account that mints, burns and escrows

ASSUME ChainAssumption == Micro \in Nat \ {0}

\* A denomination and its staking state: held, delegated or leaving.
Held(base) == <<base, "">>
Infused(base) == <<base, "infused">>
Defusing(base) == <<base, "defusing">>

Alpha == Held("ualpha")
Ore == Held("ore")

Coin(n, denom) == [n |-> n, denom |-> denom]

Attribute(k, v) == [key |-> k, value |-> v]
Event(type, attrs) == [type |-> type, attrs |-> attrs]

Receipt(who, vault, n) == [primaryAddress |-> who, vaultAddress |-> vault, amount |-> n]

-----------------------------------------------------------------------------
(* What one operation emits. fuel is the generator's fuel after it: the    *)
(* infusion event is a snapshot, not an amount.                            *)

Moved(from, to, coins) ==
    Event("transfer", << Attribute("recipient", to), Attribute("sender", from),
                         Attribute("amount", coins) >>)

Staked(type, o) ==
    Event(type, << Attribute("validator", o.val), Attribute("delegator", o.who),
                   Attribute("amount", <<Coin(o.n, Alpha)>>),
                   Attribute("completion_time", "later") >>)

Emitted(o, fuel) ==
    LET n == <<Coin(o.n, Alpha)>>
    IN CASE o.op = "send" -> << Moved(o.who, o.to, o.coins) >>
         [] o.op = "mine" ->
              << Event("EventOreMine", << Attribute("eventOreMineDetail",
                         [primaryAddress |-> o.who, amount |-> o.n]) >>) >>
         [] o.op = "theft" ->
              << Event("EventOreTheft", << Attribute("eventOreTheftDetail",
                         [thief |-> o.who, victim |-> o.to, amount |-> o.n]) >>) >>
         [] o.op = "refine" ->
              << Event("EventAlphaRefine", << Attribute("eventAlphaRefineDetail",
                         Receipt(o.who, o.vault, o.n)) >>),
                 Event("coinbase", << Attribute("minter", Pool),
                         Attribute("amount", <<Coin(Micro * o.n, Alpha)>>) >>),
                 Moved(Pool, o.vault, <<Coin(Micro * o.n, Alpha)>>) >>
         [] o.op = "infuse" ->
              << Event("EventInfusion", << Attribute("infusion",
                         [address |-> o.who, fuel |-> fuel]) >>),
                 Moved(o.who, Pool, n),
                 Event("EventAlphaInfuse", << Attribute("eventAlphaInfuseDetail",
                         Receipt(o.who, o.who, o.n)) >>),
                 Event("burn", << Attribute("burner", Pool), Attribute("amount", n) >>) >>
         [] o.op \in {"delegate", "unbond", "cancel_unbond", "complete_unbonding"} ->
              << Staked(o.op, o) >>
         [] o.op = "redelegate" ->
              << Event("withdraw_rewards", << Attribute("validator", o.val),
                         Attribute("delegator", o.who), Attribute("amount", << >>) >>),
                 Event("redelegate", << Attribute("source_validator", o.val),
                         Attribute("destination_validator", o.to), Attribute("amount", n),
                         Attribute("completion_time", "later") >>) >>
         [] o.op = "complete_redelegation" ->
              << Event("complete_redelegation", << Attribute("amount", n),
                         Attribute("delegator", o.who),
                         Attribute("source_validator", o.val),
                         Attribute("destination_validator", o.to) >>) >>
         [] o.op = "create_validator" ->
              << Event("coin_spent", << Attribute("spender", o.who), Attribute("amount", n) >>),
                 Event("create_validator", << Attribute("validator", o.val),
                         Attribute("amount", n) >>) >>
         [] o.op = "attack" ->
              << Event("EventAttack", << Attribute("eventAttackDetail", [planet |-> o.planet]) >>) >>
         [] o.op = "grid" ->
              << Event("EventGrid", << Attribute("gridRecord", [id |-> o.id, val |-> o.val]) >>) >>
         [] o.op = "revise" ->
              << Event("EventReactorCommissionRevision",
                       << Attribute("reactorId", o.id), Attribute("slashRevision", o.n) >>) >>
         [] o.op = "reset" -> << Event("EventReactorCommissionRevisionReset", << >>) >>
         [] o.op = "novel" -> << Event("EventNovel", << Attribute("novelDetail", "new") >>) >>
         [] o.op = "migrate" ->
              << Event("EventOreMigrate", << Attribute("eventOreMigrateDetail",
                         [primaryAddress |-> o.who, old |-> o.to, amount |-> o.n]) >>) >>

Added(o) == IF o.op = "infuse" THEN o.n ELSE 0
FuelAdded(ops) == FoldLeft(LAMBDA f, o : f + Added(o), 0, ops)

Tagged(events, tag) == [i \in DOMAIN events |-> [events[i] EXCEPT !.attrs = @ \o <<tag>>]]

\* the events of a list of messages that starts with this fuel
Listed(messages, fuel, Tag(_)) ==
    LET ops == FlattenSeq([m \in DOMAIN messages |->
                   [k \in DOMAIN messages[m] |-> [op |-> messages[m][k], msg |-> m]]])
    IN FoldLeft(
           LAMBDA acc, e :
               LET after == acc.fuel + Added(e.op)
               IN [events |-> acc.events \o Tagged(Emitted(e.op, after), Tag(e.msg)),
                   fuel   |-> after],
           [events |-> << >>, fuel |-> fuel], ops).events

\* what /block_results shows of a block: EndBlock runs after the transactions
BlockEventsOf(block, fuel) ==
    LET fuelAt(t) == fuel + FuelAdded(FlattenSeq(FlattenSeq(SubSeq(block.txs, 1, t - 1))))
        begin == Listed(<<block.begin>>, fuel, LAMBDA m : Attribute("mode", "BeginBlock"))
        end == Listed(<<block.end>>, fuelAt(Len(block.txs) + 1),
                      LAMBDA m : Attribute("mode", "EndBlock"))
    IN [finalize |-> begin \o end,
        txs |-> [t \in DOMAIN block.txs |->
                    Listed(block.txs[t], fuelAt(t), LAMBDA m : Attribute("msg_index", m - 1))]]

OpsOf(block) == block.begin \o FlattenSeq(FlattenSeq(block.txs)) \o block.end

-----------------------------------------------------------------------------
(* What one operation does to the balances that the ledger accounts for:   *)
(* <<address, denomination, change>>. A validator's balance is what is     *)
(* delegated to it.                                                        *)

Both(a, b, denom, n) == { <<a, denom, n>>, <<b, denom, n>> }

Effect(o) ==
    CASE o.op = "send" ->
           UNION { { <<o.who, c.denom, -c.n>>, <<o.to, c.denom, c.n>> } : c \in ToSet(o.coins) }
      [] o.op = "mine" -> { <<o.who, Ore, o.n>> }
      [] o.op \in {"theft", "migrate"} -> { <<o.who, Ore, o.n>>, <<o.to, Ore, -o.n>> }
      [] o.op = "refine" -> { <<o.who, Ore, -o.n>>, <<o.vault, Alpha, Micro * o.n>> }
      [] o.op = "infuse" -> { <<o.who, Alpha, -o.n>>, <<o.who, Infused("ualpha"), o.n>> }
      [] o.op \in {"delegate", "create_validator"} ->
           { <<o.who, Alpha, -o.n>> } \cup Both(o.who, o.val, Infused("ualpha"), o.n)
      [] o.op = "unbond" -> Both(o.who, o.val, Infused("ualpha"), -o.n)
                            \cup Both(o.who, o.val, Defusing("ualpha"), o.n)
      [] o.op = "cancel_unbond" -> Both(o.who, o.val, Infused("ualpha"), o.n)
                                   \cup Both(o.who, o.val, Defusing("ualpha"), -o.n)
      [] o.op = "complete_unbonding" -> { <<o.who, Alpha, o.n>> }
                                        \cup Both(o.who, o.val, Defusing("ualpha"), -o.n)
      [] o.op = "redelegate" -> Both(o.who, o.val, Infused("ualpha"), -o.n)
                                \cup Both(o.who, o.to, Defusing("ualpha"), o.n)
      [] o.op = "complete_redelegation" -> Both(o.who, o.to, Infused("ualpha"), o.n)
                                           \cup Both(o.who, o.to, Defusing("ualpha"), -o.n)
      [] OTHER -> {}

\* the operations of the blocks 1..h
OpsUpTo(chain, h) == FlattenSeq([i \in 1..h |-> OpsOf(chain[i])])

Balance(ops, who, denom) ==
    LET change(o) == { e \in Effect(o) : e[1] = who /\ e[2] = denom }
    IN FoldLeft(LAMBDA sum, o : sum + SumSet({ e[3] : e \in change(o) }), 0, ops)
=============================================================================
