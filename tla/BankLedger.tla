----------------------------- MODULE BankLedger -----------------------------
(***************************************************************************)
(* How a block's bank and staking events become structs.ledger rows and    *)
(* structs.defusion receipts: the execution order of the events            *)
(* (internal/rpc/event_order.go), coin sets, the correlation of events     *)
(* within one message, and one handler per event type (internal/bank).     *)
(*                                                                         *)
(* Processing a block is all or nothing: the first invalid event fails the *)
(* whole block, so validity is a predicate and the rows are a set.         *)
(***************************************************************************)
EXTENDS ChainEvents

CONSTANT MaxCoin     \* 2^256 - 1: the largest amount of a coin

ASSUME BankAssumption == MaxCoin \in Nat

-----------------------------------------------------------------------------
(* Attributes. *)

AttrsOf(ev, k) == SelectSeq(ev.attrs, LAMBDA a : a.key = k)
Has(ev, k) == AttrsOf(ev, k) # << >>

\* the first attribute of that name
Value(ev, k) == AttrsOf(ev, k)[1].value

-----------------------------------------------------------------------------
(* Execution order. A finalize event is of transaction -1 and says by its  *)
(* mode in which phase it ran; a transaction event may name its message.   *)

PreBlock == 0
BeginBlock == 1
Transaction == 2
EndBlock == 3
NoIndex == -1

MetadataValid(ev, tx) ==
    /\ \A k \in {"mode", "msg_index"} : Len(AttrsOf(ev, k)) <= 1
    /\ Has(ev, "msg_index") => tx >= 0 /\ Value(ev, "msg_index") >= 0
    /\ Has(ev, "mode") => tx < 0 /\ Value(ev, "mode") \in {"BeginBlock", "EndBlock"}

Phase(ev, tx) ==
    CASE tx >= 0 -> Transaction
      [] tx < 0 /\ ~Has(ev, "mode") -> PreBlock
      [] tx < 0 /\ Has(ev, "mode") /\ Value(ev, "mode") = "BeginBlock" -> BeginBlock
      [] OTHER -> EndBlock

PositionEvent(ev, tx, index) ==
    [event |-> ev, phase |-> Phase(ev, tx), tx |-> tx, index |-> index,
     msg |-> IF Has(ev, "msg_index") THEN Value(ev, "msg_index") ELSE NoIndex]

PositionAll(events, tx) == [i \in DOMAIN events |-> PositionEvent(events[i], tx, i - 1)]

MetadataOf(block) ==
    /\ \A i \in DOMAIN block.finalize : MetadataValid(block.finalize[i], NoIndex)
    /\ \A t \in DOMAIN block.txs : \A i \in DOMAIN block.txs[t] :
          MetadataValid(block.txs[t][i], t - 1)

OrderedEvents(block) ==
    LET all == PositionAll(block.finalize, NoIndex)
               \o FlattenSeq([t \in DOMAIN block.txs |-> PositionAll(block.txs[t], t - 1)])
    IN FlattenSeq([i \in 1..4 |-> SelectSeq(all, LAMBDA p : p.phase = i - 1)])

\* lexicographic order of execution: height, phase, transaction, event
Position(h, p) == << h, p.phase, p.tx, p.index >>
PositionBefore(a, b) ==
    \E i \in 1..4 : a[i] < b[i] /\ \A j \in 1..(i - 1) : a[j] = b[j]

-----------------------------------------------------------------------------
(* Coins. An amount that is not an integer coin has a negative n here. *)

BankFields ==
    [transfer |-> {"sender", "recipient"},
     coinbase |-> {"minter"},
     burn |-> {"burner"},
     delegate |-> {"validator", "delegator"},
     cancel_unbond |-> {"validator", "delegator"},
     complete_unbonding |-> {"validator", "delegator"},
     unbond |-> {"validator", "delegator", "completion_time"},
     redelegate |-> {"source_validator", "destination_validator", "completion_time"},
     complete_redelegation |-> {"source_validator", "destination_validator", "delegator"},
     create_validator |-> {"validator"}]

IsBankEventType(type) == type \in DOMAIN BankFields

CoinSetValid(coins) ==
    /\ \A c \in ToSet(coins) : c.n \in 0..MaxCoin
    /\ Cardinality({ c.denom : c \in ToSet(coins) }) = Len(coins)

CoinsValid(ev) ==
    /\ \A i \in DOMAIN ev.attrs : Len(AttrsOf(ev, ev.attrs[i].key)) = 1
    /\ Has(ev, "amount") /\ CoinSetValid(Value(ev, "amount"))

Coins(ev) == { c \in ToSet(Value(ev, "amount")) : c.n > 0 }

\* only a recipient may be the empty address
BankFieldsValid(ev) ==
    \A f \in BankFields[ev.type] : Has(ev, f) /\ (Value(ev, f) = "" => f = "recipient")

-----------------------------------------------------------------------------
(* Correlation. The group of an event is the sequence of events of its     *)
(* phase, transaction and message.                                         *)

Group(ordered, p) ==
    SelectSeq(ordered, LAMBDA q : q.phase = p.phase /\ q.tx = p.tx /\ q.msg = p.msg)

Typed(group, type) == SelectSeq(group, LAMBDA q : q.event.type = type)
In(group, type) == { q.event : q \in ToSet(Typed(group, type)) }

ReceiptOwner(r) == IF r.vaultAddress # "" THEN r.vaultAddress ELSE r.primaryAddress

\* the handler of EventAlphaRefine already credited this transfer's recipient
AlreadyReceived(ev, c, group) ==
    \E r \in In(group, "EventAlphaRefine") :
       /\ Value(ev, "recipient") = ReceiptOwner(Value(r, "eventAlphaRefineDetail"))
       /\ c.n = Micro * Value(r, "eventAlphaRefineDetail").amount
       /\ \E m \in In(group, "coinbase") :
             Value(m, "minter") = Value(ev, "sender") /\ c \in Coins(m)

\* the handler of EventInfusion already debited this transfer's sender
AlreadySent(ev, c, group) ==
    \E r \in In(group, "EventAlphaInfuse") :
       /\ Value(ev, "sender") = ReceiptOwner(Value(r, "eventAlphaInfuseDetail"))
       /\ c.n = Value(r, "eventAlphaInfuseDetail").amount
       /\ \E b \in In(group, "burn") :
             Value(b, "burner") = Value(ev, "recipient") /\ c \in Coins(b)

\* slip: bank rows are never reconciled with the handlers' rows
NoOverlap(ev, c, group) == [skipSent |-> FALSE, skipReceived |-> FALSE, ambiguous |-> FALSE]

TransferOverlap(ev, c, group) ==
    LET sent == c.denom = Alpha /\ AlreadySent(ev, c, group)
        received == c.denom = Alpha /\ AlreadyReceived(ev, c, group)
        alike == SelectSeq(group, LAMBDA q :
                    /\ q.event.type = "transfer"
                    /\ Value(q.event, "sender") = Value(ev, "sender")
                    /\ Value(q.event, "recipient") = Value(ev, "recipient")
                    /\ c \in Coins(q.event))
    IN [skipSent |-> sent, skipReceived |-> received,
        ambiguous |-> (sent \/ received) /\ (Len(alike) # 1 \/ (sent /\ received))]

\* who paid for the self-delegation
ValidatorSpenders(c, group) ==
    { Value(e, "spender") : e \in { s \in In(group, "coin_spent") : c \in Coins(s) } }

\* whose rewards were withdrawn from the source validator since the
\* preceding redelegation of the message
RedelegationOwners(p, group) ==
    LET earlier == { q.index : q \in ToSet(Typed(group, "redelegate")) } \cap 0..(p.index - 1)
    IN { Value(q.event, "delegator") : q \in { r \in ToSet(Typed(group, "withdraw_rewards")) :
           /\ Value(r.event, "validator") = Value(p.event, "source_validator")
           /\ r.index < p.index /\ \A i \in earlier : r.index > i } }

The(owners) == CHOOSE o \in owners : TRUE
Unambiguous(owners) == Cardinality(owners) = 1 /\ "" \notin owners

-----------------------------------------------------------------------------
(* Ledger rows. The identity of a row is its source coordinate: the event  *)
(* index leaves room for the legs of one event, and bank rows carry no     *)
(* message.                                                                *)

LedgerLegStride == 8

Leg(leg, who, to, action, change, denom) ==
    [leg |-> leg, address |-> who, counterparty |-> to, action |-> action,
     change |-> change, denom |-> denom]

EncodeLedgerEventIndex(index, leg) == index * LedgerLegStride + leg

\* the unique key of structs.ledger; a height has one block time
RowKey(h, p, msg, l) == << h, p.tx, msg, EncodeLedgerEventIndex(p.index, l.leg), l.denom >>

LedgerRow(h, p, msg, l) ==
    [key |-> RowKey(h, p, msg, l), address |-> l.address, counterparty |-> l.counterparty,
     denom |-> l.denom, action |-> l.action, change |-> l.change]

TransferLegs(ev, c, group) ==
    LET from == Value(ev, "sender")
        to == Value(ev, "recipient")
        overlap == TransferOverlap(ev, c, group)
    IN IF overlap.skipSent THEN { Leg(0, to, from, "received", c.n, c.denom) }
       ELSE { Leg(0, from, to, "sent", -c.n, c.denom) }
            \cup IF overlap.skipReceived THEN {}
                 ELSE { Leg(1, to, from, "received", c.n, c.denom) }

DelegateLegs(who, val, c) ==
    { Leg(0, who, val, "infused", -c.n, c.denom),
      Leg(1, who, val, "infused", c.n, Infused(c.denom[1])),
      Leg(2, val, who, "infused", c.n, Infused(c.denom[1])) }

\* a delegation of both parties changes its state
Restaked(action, val, who, to, c, before, after) ==
    { Leg(0, val, who, action, -c.n, before), Leg(1, who, val, action, -c.n, before),
      Leg(2, to, who, action, c.n, after), Leg(3, who, to, action, c.n, after) }

CompleteUnbondingLegs(val, who, c) ==
    { Leg(0, val, who, "defusion_completed", -c.n, Defusing(c.denom[1])),
      Leg(1, who, val, "defusion_completed", -c.n, Defusing(c.denom[1])),
      Leg(2, who, val, "defusion_completed", c.n, c.denom) }

CreateValidatorLegs(val, who, c) ==
    { Leg(0, who, val, "infused", -c.n, c.denom),
      Leg(1, val, who, "infused", c.n, Infused(c.denom[1])),
      Leg(2, who, val, "infused", c.n, Infused(c.denom[1])) }

Legs(p, c, group) ==
    LET ev == p.event
        V(k) == Value(ev, k)
        infused == Infused(c.denom[1])
        defusing == Defusing(c.denom[1])
    IN CASE ev.type = "transfer" -> TransferLegs(ev, c, group)
         [] ev.type = "coinbase" -> { Leg(0, V("minter"), "", "minted", c.n, c.denom) }
         [] ev.type = "burn" -> { Leg(0, V("burner"), "", "burned", -c.n, c.denom) }
         [] ev.type = "delegate" -> DelegateLegs(V("delegator"), V("validator"), c)
         [] ev.type = "redelegate" ->
              LET who == The(RedelegationOwners(p, group))
              IN Restaked("diversion_started", V("source_validator"), who,
                          V("destination_validator"), c, infused, defusing)
         [] ev.type = "complete_redelegation" ->
              Restaked("diversion_completed", V("destination_validator"), V("delegator"),
                       V("destination_validator"), c, defusing, infused)
         [] ev.type = "unbond" ->
              Restaked("defusion_started", V("validator"), V("delegator"),
                       V("validator"), c, infused, defusing)
         [] ev.type = "cancel_unbond" ->
              Restaked("defusion_cancelled", V("validator"), V("delegator"),
                       V("validator"), c, defusing, infused)
         [] ev.type = "complete_unbonding" ->
              CompleteUnbondingLegs(V("validator"), V("delegator"), c)
         [] OTHER -> CreateValidatorLegs(V("validator"), The(ValidatorSpenders(c, group)), c)

\* one receipt per coin of an operation that ends later
DefusionRow(h, p, c, group) ==
    LET redelegated == p.event.type = "redelegate"
    IN [key |-> << h, p.tx, p.index, c.denom >>, amount |-> c.n,
        type |-> IF redelegated THEN "r" ELSE "u",
        source |-> IF redelegated THEN Value(p.event, "source_validator") ELSE "",
        validator |-> Value(p.event, IF redelegated THEN "destination_validator"
                                     ELSE "validator"),
        delegator |-> IF redelegated THEN The(RedelegationOwners(p, group))
                      ELSE Value(p.event, "delegator")]

EventValid(p, group) ==
    LET ev == p.event
    IN /\ CoinsValid(ev)
       /\ BankFieldsValid(ev)
       /\ \A c \in Coins(ev) :
             /\ ev.type = "transfer" => ~TransferOverlap(ev, c, group).ambiguous
             /\ ev.type = "create_validator" =>
                   /\ \A s \in In(group, "coin_spent") : CoinsValid(s)
                   /\ Unambiguous(ValidatorSpenders(c, group))
             /\ ev.type = "redelegate" => Unambiguous(RedelegationOwners(p, group))

BankEvents(block) ==
    SelectSeq(OrderedEvents(block), LAMBDA p : IsBankEventType(p.event.type))

BlockValid(block) ==
    \A i \in DOMAIN BankEvents(block) :
       EventValid(BankEvents(block)[i], Group(OrderedEvents(block), BankEvents(block)[i]))

EventRows(h, p, group) ==
    UNION { { LedgerRow(h, p, NoIndex, l) : l \in Legs(p, c, group) } : c \in Coins(p.event) }

ProcessBlock(h, block) ==
    LET ordered == OrderedEvents(block)
        bank == BankEvents(block)
    IN UNION { EventRows(h, bank[i], Group(ordered, bank[i])) : i \in DOMAIN bank }

ProcessDefusion(h, block) ==
    LET ordered == OrderedEvents(block)
        later == SelectSeq(BankEvents(block),
                           LAMBDA p : p.event.type \in {"redelegate", "unbond"})
    IN UNION { { DefusionRow(h, later[i], c, Group(ordered, later[i]))
                 : c \in Coins(later[i].event) } : i \in DOMAIN later }
=============================================================================
