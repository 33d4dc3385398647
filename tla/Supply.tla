------------------------------- MODULE Supply -------------------------------
(***************************************************************************)
(* Total supply, ctrlers/supply: minting at the end of every inflation     *)
(* cycle, the goroutine that computes issuance and rewards while the       *)
(* transactions of the block are executed, rewards and their withdrawal,   *)
(* and the total supply kept in memory beside the ledger.  The account and *)
(* voting power controllers are here with what they do to the supply: fees *)
(* and their sharing out, bonding, unbonding, slashing, missed blocks,     *)
(* refunds, and the list lastValidators the goroutine reads.               *)
(*                                                                         *)
(* All balances are one number, circ: transfers do not change it.  Amounts *)
(* are whole; the decimals the goroutine computes with are counted in      *)
(* units of 1/Unit.  Amounts of uint256 wrap at Word.                      *)
(***************************************************************************)
EXTENDS Integers, FiniteSets, FiniteSetsExt, Sequences, SequencesExt

CONSTANTS
  Benefs,          \* who may delegate to whom: a sequence of [from, val], in
                   \* the order ComputeWeight lists the beneficiaries
  GenesisPower,    \* the powers bonded at genesis, by index of Benefs
  GenesisBalance,  \* the sum of the balances at genesis
  Unit, Word,
  Part1(_, _),     \* 1 - (1 + lambda)^-wa in units, from bonded power and supply
  Fee,             \* the fee of a transaction
  Cycles,          \* the values governance gives InflationCycleBlocks
  MaxSupplies,     \* the values governance gives MaxTotalSupply
  ValRate,         \* ValidatorRewardRate, in percent
  SlashRate, MinSignedBlocks, LazyUnbondingBlocks,
  Byzantine,       \* bound: the validators that double-sign
  Absent,          \* bound: the validators that miss blocks
  MaxTxs,          \* bound: transactions in a block
  WithdrawAmts,    \* bound: the amounts a withdrawal asks for
  MaxHeight,       \* bound: the last height
  MaxCrashes       \* bound: crashes

Idx == 1 .. Len(Benefs)
Vals == {Benefs[i].val : i \in Idx}
Addrs == Vals \cup {Benefs[i].from : i \in Idx}

ASSUME SupplyAssumption ==
  /\ GenesisPower \in [Idx -> Nat] /\ GenesisBalance \in Nat
  /\ Unit \in Nat \ {0} /\ Word \in Nat \ {0} /\ Fee \in Nat
  /\ Cycles \subseteq Nat \ {0} /\ MaxSupplies \subseteq Nat
  /\ ValRate \in 0 .. 100 /\ SlashRate \in 0 .. 99
  /\ MinSignedBlocks \in Nat /\ LazyUnbondingBlocks \in Nat
  /\ Byzantine \subseteq Vals /\ Absent \subseteq Vals
  /\ MaxTxs \in Nat /\ WithdrawAmts \subseteq Nat /\ MaxHeight \in Nat /\ MaxCrashes \in Nat

VARIABLES
  disk,     \* the committed ledgers
  cur,      \* the ledgers with the changes of the block
  total,    \* SupplyCtrler.lastTotalSupply
  changed,  \* its field changed
  last,     \* VPowerCtrler.lastValidators: the delegations of the validators
  gov,      \* InflationCycleBlocks and MaxTotalSupply
  height, phase, fees, txs,
  reqCh, respCh,
  routine,  \* what computeIssuanceAndRewardRoutine is at
  crashes

chans == <<reqCh, respCh, routine>>
block == <<height, phase, fees, txs>>
vars == <<disk, cur, total, changed, last, gov, block, chans, crashes>>

Sum(f) == MapThenSumSet(LAMBDA x : f[x], DOMAIN f)

-----------------------------------------------------------------------------
(* computeIssuanceAndRewardRoutine. *)

(* decimalSd: what is left to the maximum is subtracted in uint256, and    *)
(* wraps.                                                                  *)
Sd(supply, max, power) == ((max - supply) % Word) * Part1(power, supply)

SelfOf(v) == {i \in Idx : Benefs[i] = [from |-> v, val |-> v]}
IsValidator(i) == Benefs[i].from = Benefs[i].val
SumAt(f, S) == MapThenSumSet(LAMBDA i : f[i], S)

(* Mutant: all of the issue goes to everybody, besides what goes to the    *)
(* validators.                                                             *)
rewardsToAll(added, w, sign, benefs) ==
  LET vals   == ((added * ValRate) \div (100 * Unit)) * Unit
      waAll  == SumAt(w, benefs)
      waVals == SumAt(w, {i \in benefs : IsValidator(i)})
      pay(acc, i) ==
        LET rwd == (added * w[i]) \div waAll
                   + (IF IsValidator(i) THEN (vals * w[i]) \div waVals ELSE 0)
                   + acc.remainder
            got == (rwd * sign[Benefs[i].val]) \div Unit
        IN  [amts |-> [acc.amts EXCEPT ![i] = got \div Unit], remainder |-> got % Unit]
  IN  FoldLeft(pay, [amts |-> [i \in Idx |-> 0], remainder |-> 0],
               SelectSeq([i \in Idx |-> i], LAMBDA i : i \in benefs)).amts

(* The part of the validators is whole; every beneficiary gets its share   *)
(* and what the one before left, less the blocks its validator missed.     *)
rewardsOf(added, w, sign, benefs) ==
  LET vals   == ((added * ValRate) \div (100 * Unit)) * Unit
      all    == added - vals
      waAll  == SumAt(w, benefs)
      waVals == SumAt(w, {i \in benefs : IsValidator(i)})
      pay(acc, i) ==
        LET rwd == (all * w[i]) \div waAll
                   + (IF IsValidator(i) THEN (vals * w[i]) \div waVals ELSE 0)
                   + acc.remainder
            got == (rwd * sign[Benefs[i].val]) \div Unit
        IN  [amts |-> [acc.amts EXCEPT ![i] = got \div Unit], remainder |-> got % Unit]
  IN  FoldLeft(pay, [amts |-> [i \in Idx |-> 0], remainder |-> 0],
               SelectSeq([i \in Idx |-> i], LAMBDA i : i \in benefs)).amts

NoRewards == [i \in Idx |-> 0]
Failed == [ok |-> FALSE, added |-> 0, rewards |-> NoRewards]

(* ComputeWeight on the ledger led and the delegations benefs, and the     *)
(* issue and rewards that follow from it.  The ledger must have a voting   *)
(* power for every delegation; there is no ledger before the first block.  *)
MintOf(req, led, benefs) ==
  LET sign  == [v \in Vals |-> Unit - (led.missed[v] * Unit) \div req.cycle]
      added == Sd(req.supply, req.max, SumAt(led.pw, benefs))
  IN  IF req.height = 1 \/ \E i \in benefs : led.pw[i] = 0 THEN Failed
      ELSE [ok |-> TRUE, added |-> added,
            rewards |-> rewardsOf(added, led.pw, sign, benefs)]

Idle == [at |-> "recv"]

RoutineRecv ==
  /\ routine.at = "recv" /\ reqCh # <<>>
  /\ routine' = [at |-> "compute", req |-> Head(reqCh)]
  /\ reqCh' = Tail(reqCh)
  /\ UNCHANGED <<disk, cur, total, changed, last, gov, block, respCh, crashes>>

(* Mutant: the weights are those of the ledger of the block. *)
computeOnBlock ==
  /\ routine.at = "compute"
  /\ routine' = [at |-> "send", req |-> routine.req, resp |-> MintOf(routine.req, cur, last)]
  /\ UNCHANGED <<disk, cur, total, changed, last, gov, block, reqCh, respCh, crashes>>

(* The ledger of the block before, ImitableLedgerAt(height - 1), and       *)
(* lastValidators at the moment it is copied.                              *)
RoutineCompute ==
  /\ routine.at = "compute"
  /\ routine' = [at |-> "send", req |-> routine.req, resp |-> MintOf(routine.req, disk, last)]
  /\ UNCHANGED <<disk, cur, total, changed, last, gov, block, reqCh, respCh, crashes>>

RoutineSend ==
  /\ routine.at = "send" /\ respCh = <<>>
  /\ respCh' = <<routine.resp>> /\ routine' = Idle
  /\ UNCHANGED <<disk, cur, total, changed, last, gov, block, reqCh, crashes>>

-----------------------------------------------------------------------------
(* BeginBlock: the supply controller, then the voting power controller.    *)

CycleEnds(h) == h % gov.cycle = 0
Request(h) == [height |-> h, supply |-> total, cycle |-> gov.cycle, max |-> gov.max]

(* Mutant: the first cycle is left out. *)
requestLater(h) == IF h > gov.cycle /\ CycleEnds(h) THEN Append(reqCh, Request(h)) ELSE reqCh

requestMint(h) == IF CycleEnds(h) THEN Append(reqCh, Request(h)) ELSE reqCh

(* The channel holds one request: a second one would block. *)
BeginSupply ==
  /\ phase = "idle" /\ height < MaxHeight /\ reqCh = <<>>
  /\ phase' = "begin" /\ height' = height + 1 /\ fees' = 0 /\ txs' = 0
  /\ reqCh' = requestMint(height + 1)
  /\ UNCHANGED <<disk, cur, total, changed, last, gov, respCh, routine, crashes>>

(* Everything delegated to v is frozen until its refund. *)
UnbondAll(l, v) ==
  LET gone == {i \in Idx : Benefs[i].val = v}
  IN  [l EXCEPT !.pw = [i \in Idx |-> IF i \in gone THEN 0 ELSE l.pw[i]],
                !.frozen[height + LazyUnbondingBlocks] = @ + SumAt(l.pw, gone)]

Slashed(l, v) ==
  LET lost(i) == IF Benefs[i].val = v THEN (l.pw[i] * SlashRate) \div 100 ELSE 0
  IN  [l EXCEPT !.pw = [i \in Idx |-> l.pw[i] - lost(i)],
                !.circ = @ + MapThenSumSet(lost, Idx)]

(* Double signers are slashed in favour of the dead address, validators    *)
(* that missed too many blocks of the cycle lose all power.  The first     *)
(* block has no votes.                                                     *)
BeginVPower(byzantine, absent) ==
  LET cnt  == [v \in Vals |-> IF v \in absent THEN cur.missed[v] + 1 ELSE cur.missed[v]]
      down == {v \in absent : cnt[v] >= gov.cycle - MinSignedBlocks}
      l    == FoldSet(LAMBDA v, x : UnbondAll(x, v),
                      FoldSet(LAMBDA v, x : Slashed(x, v), cur, byzantine), down)
  IN  /\ phase = "begin" /\ phase' = "txs"
      /\ cur' = [l EXCEPT !.missed = IF height > 1 /\ CycleEnds(height)
                                     THEN [v \in Vals |-> 0] ELSE cnt]
      /\ UNCHANGED <<disk, total, changed, last, gov, height, fees, txs, chans, crashes>>

-----------------------------------------------------------------------------
(* Transactions, executed by EndBlock of the application one by one. *)

(* The sender pays its fee into the sum of the block. *)
Tx(l) ==
  /\ phase = "txs" /\ txs < MaxTxs /\ l.circ >= Fee
  /\ cur' = [l EXCEPT !.circ = @ - Fee]
  /\ fees' = fees + Fee /\ txs' = txs + 1
  /\ UNCHANGED <<disk, total, changed, gov, height, phase, chans, crashes>>

(* In the first block the limiter refuses every bonding and unbonding. *)
Bond(i) ==
  /\ height > 1 /\ cur.circ > 0
  /\ \E s \in SelfOf(Benefs[i].val) : i = s \/ cur.pw[s] > 0
  /\ Tx([cur EXCEPT !.pw[i] = @ + 1, !.circ = @ - 1])
  /\ UNCHANGED last

(* A validator without power of its own takes its delegators along. *)
Unbond(i) ==
  LET u == [cur EXCEPT !.pw[i] = @ - 1, !.frozen[height + LazyUnbondingBlocks] = @ + 1]
  IN  /\ height > 1 /\ cur.pw[i] > 0
      /\ Tx(IF IsValidator(i) /\ u.pw[i] = 0 THEN UnbondAll(u, Benefs[i].val) ELSE u)
      /\ UNCHANGED last

(* Reward.Issue and Reward.Withdraw: what has cumulated; the amounts of    *)
(* the last height are only told.                                          *)
Issue(cumulated, r) == (cumulated + r) % Word
WithdrawFrom(cumulated, r) == (cumulated - r) % Word

(* ValidateTrx, ExecuteTrx and withdrawReward: part of what has cumulated. *)
Withdraw(a, amt) ==
  /\ amt <= cur.rwd[a] /\ cur.rwd[a] > 0
  /\ Tx([cur EXCEPT !.rwd[a] = WithdrawFrom(@, amt), !.circ = @ + amt])
  /\ UNCHANGED last

(* Any other transaction. *)
Other == Tx(cur) /\ UNCHANGED last

-----------------------------------------------------------------------------
(* EndBlock: account, supply and voting power controllers in this order.   *)

(* The fees go to the proposer and, the rest, to the dead address. *)
AcctEnd ==
  /\ phase = "txs" /\ phase' = "acct"
  /\ cur' = [cur EXCEPT !.circ = @ + fees] /\ fees' = 0
  /\ UNCHANGED <<disk, total, changed, last, gov, height, txs, chans, crashes>>

(* distReward: a beneficiary is paid once for every delegation. *)
distReward(l, rewards) ==
  [l EXCEPT !.rwd = [a \in Addrs |->
                       Issue(l.rwd[a], SumAt(rewards, {i \in Idx : Benefs[i].from = a}))]]

(* Set of the ledger when the supply has changed. *)
saved(l, t, c) == IF c THEN [l EXCEPT !.total = t] ELSE l

(* Mutant: the issue is added to the supply, not what was paid. *)
supplyAddsIssue ==
  /\ phase = "acct" /\ CycleEnds(height) /\ respCh # <<>> /\ Head(respCh).ok
  /\ LET resp == Head(respCh)
         t    == (total + resp.added \div Unit) % Word
     IN  total' = t /\ cur' = saved(distReward(cur, resp.rewards), t, TRUE)
  /\ changed' = FALSE /\ respCh' = Tail(respCh) /\ phase' = "supply"
  /\ UNCHANGED <<disk, last, gov, height, fees, txs, reqCh, routine, crashes>>

(* waitMint at the end of a cycle. *)
SupplyEndMint ==
  /\ phase = "acct" /\ CycleEnds(height) /\ respCh # <<>> /\ Head(respCh).ok
  /\ LET resp == Head(respCh)
         t    == (total + Sum(resp.rewards)) % Word
     IN  total' = t /\ cur' = saved(distReward(cur, resp.rewards), t, TRUE)
  /\ changed' = FALSE /\ respCh' = Tail(respCh) /\ phase' = "supply"
  /\ UNCHANGED <<disk, last, gov, height, fees, txs, reqCh, routine, crashes>>

(* The error of the goroutine is one of EndBlock, which panics. *)
SupplyEndFails ==
  /\ phase = "acct" /\ CycleEnds(height) /\ respCh # <<>> /\ ~ Head(respCh).ok
  /\ phase' = "stopped" /\ respCh' = Tail(respCh)
  /\ UNCHANGED <<disk, cur, total, changed, last, gov, height, fees, txs, reqCh, routine, crashes>>

SupplyEnd ==
  /\ phase = "acct" /\ ~ CycleEnds(height)
  /\ cur' = saved(cur, total, changed)
  /\ changed' = FALSE /\ phase' = "supply"
  /\ UNCHANGED <<disk, total, last, gov, height, fees, txs, chans, crashes>>

Delegations(l) == {i \in Idx : l.pw[i] > 0}

(* Refunds, and the validators of the next block. *)
VPowerEnd ==
  /\ phase = "supply" /\ phase' = "ended"
  /\ cur' = [cur EXCEPT !.circ = @ + cur.frozen[height], !.frozen[height] = 0]
  /\ last' = Delegations(cur)
  /\ UNCHANGED <<disk, total, changed, gov, height, fees, txs, chans, crashes>>

(* Commit of the ledgers; governance may have new parameters. *)
Commit ==
  /\ phase = "ended" /\ phase' = "idle"
  /\ disk' = cur
  /\ gov' \in [cycle : Cycles, max : MaxSupplies]
  /\ UNCHANGED <<cur, total, changed, last, height, fees, txs, chans, crashes>>

(* The process dies and starts again from the committed ledgers, with a    *)
(* new goroutine and new channels.  Without a committed block the chain is *)
(* initialised again.                                                      *)
Crash ==
  /\ crashes < MaxCrashes /\ crashes' = crashes + 1
  /\ phase # "stopped" /\ phase' = "idle"
  /\ height' = IF phase = "idle" THEN height ELSE height - 1
  /\ cur' = disk /\ total' = disk.total
  /\ changed' = (height' = 0)
  /\ last' = Delegations(disk)
  /\ fees' = 0 /\ txs' = 0
  /\ reqCh' = <<>> /\ respCh' = <<>> /\ routine' = Idle
  /\ UNCHANGED <<disk, gov>>

(* InitChain: the genesis supply is in memory, saved by the first block. *)
Genesis ==
  [pw |-> GenesisPower, missed |-> [v \in Vals |-> 0], rwd |-> [a \in Addrs |-> 0],
   frozen |-> [h \in 1 .. MaxHeight + LazyUnbondingBlocks |-> 0],
   circ |-> GenesisBalance, total |-> GenesisBalance + Sum(GenesisPower)]

Init ==
  /\ disk = Genesis /\ cur = Genesis
  /\ total = Genesis.total /\ changed = TRUE
  /\ last = Delegations(Genesis)
  /\ gov \in {g \in [cycle : Cycles, max : MaxSupplies] : Genesis.total <= g.max}
  /\ height = 0 /\ phase = "idle" /\ fees = 0 /\ txs = 0
  /\ reqCh = <<>> /\ respCh = <<>> /\ routine = Idle
  /\ crashes = 0

Begin ==
  \/ BeginSupply
  \/ LET vs == {Benefs[i].val : i \in last}
         may(S) == IF height > 1 THEN SUBSET (S \cap vs) ELSE {{}}
     IN  \E b \in may(Byzantine), a \in may(Absent) : BeginVPower(b, a)

Routine == RoutineRecv \/ RoutineCompute \/ RoutineSend

Trx ==
  \/ \E i \in Idx : Bond(i) \/ Unbond(i)
  \/ \E a \in Addrs, amt \in WithdrawAmts : Withdraw(a, amt)
  \/ Other

End == AcctEnd \/ SupplyEndMint \/ SupplyEndFails \/ SupplyEnd \/ VPowerEnd \/ Commit

Next == Begin \/ Routine \/ Trx \/ End \/ Crash

Spec == Init /\ [][Next]_vars /\ WF_vars(Begin) /\ WF_vars(Routine) /\ WF_vars(End)

-----------------------------------------------------------------------------
(* Properties. *)

Led ==
  [pw : [Idx -> Nat], missed : [Vals -> Nat], rwd : [Addrs -> 0 .. Word - 1],
   frozen : [1 .. MaxHeight + LazyUnbondingBlocks -> Nat], circ : Nat, total : 0 .. Word - 1]
Resp == [ok : BOOLEAN, added : Nat, rewards : [Idx -> Nat]]
Req == [height : 1 .. MaxHeight, supply : 0 .. Word - 1, cycle : Cycles, max : MaxSupplies]

(* Ledgers, channels and parameters have the types of their Go values; in  *)
(* particular no power, balance or reward is ever negative.                *)
TypeOK ==
  /\ disk \in Led /\ cur \in Led /\ total \in 0 .. Word - 1 /\ changed \in BOOLEAN
  /\ last \subseteq Idx /\ gov \in [cycle : Cycles, max : MaxSupplies]
  /\ height \in 0 .. MaxHeight /\ fees \in Nat /\ txs \in 0 .. MaxTxs
  /\ phase \in {"idle", "begin", "txs", "acct", "supply", "ended", "stopped"}
  /\ Len(reqCh) <= 1 /\ Range(reqCh) \subseteq Req
  /\ Len(respCh) <= 1 /\ Range(respCh) \subseteq Resp
  /\ routine \in {Idle} \cup [at : {"compute"}, req : Req]
                 \cup [at : {"send"}, req : Req, resp : Resp]
  /\ crashes \in 0 .. MaxCrashes

(* The total supply the controller keeps is the sum of what there is: the  *)
(* balances, the fees of the block, the bonded and the frozen power and    *)
(* the rewards not yet withdrawn, through minting, withdrawals, bonding,   *)
(* slashing, fee sharing, refunds and crashes.  After the first block it   *)
(* is the one in the ledger whenever no block is open, so a restart goes   *)
(* on from the same supply.                                                *)
SupplyAccounted ==
  /\ TypeOK
  /\ total = cur.circ + fees + Sum(cur.pw) + Sum(cur.frozen) + Sum(cur.rwd)
  /\ phase = "idle" /\ height > 0 => total = disk.total

(* What the goroutine answers is a function of the state committed by the  *)
(* block before, whenever in the block it runs: slashing, bonding and the  *)
(* validators of the block itself have no effect ("to mint additional      *)
(* issuance based on the vpowCtrler.lastValidators of the previous         *)
(* block").  Between two blocks the goroutine has nothing to do and        *)
(* nothing to say: no answer is left to be taken for that of a later       *)
(* request.  And the ledger it reads has the voting power of every         *)
(* delegation of lastValidators, or EndBlock would panic on its error; the *)
(* one exception is a chain whose first block ends a cycle, for there is   *)
(* no ledger before it.                                                    *)
MintedFromPreviousBlock ==
  LET exact(req, resp) == resp = MintOf(req, disk, Delegations(disk))
  IN  /\ phase = "idle" => reqCh = <<>> /\ respCh = <<>> /\ routine = Idle
      /\ phase = "stopped" => height = 1
      /\ routine.at = "send" => exact(routine.req, routine.resp)
      /\ respCh # <<>> =>
           exact([height |-> height, supply |-> total, cycle |-> gov.cycle, max |-> gov.max],
                 Head(respCh))

(* The supply never grows beyond MaxTotalSupply, however often it is       *)
(* minted and whatever the rounding.                                       *)
WithinMax == total <= gov.max

(* EndBlock never waits for an answer that does not come, whatever cycle   *)
(* governance sets: every block that begins is committed, or is the first  *)
(* one and stops the node.                                                 *)
BlocksEnd ==
  phase # "idle" ~> phase = "idle" \/ (phase = "stopped" /\ height = 1)

=============================================================================
