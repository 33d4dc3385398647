------------------------------- MODULE VPower -------------------------------
(***************************************************************************)
(* Voting power, ctrlers/vpower: bonding and unbonding, the limiter, the   *)
(* freezing and refunding of unbonded power, slashing, the punishment of   *)
(* missed blocks, and the validator updates handed to the consensus engine.*)
(*                                                                         *)
(* Amounts are counted in units of power.  Addresses are numbers, in the   *)
(* order of the public keys.  Heights are relative: frozen power is kept   *)
(* by the number of blocks to its refund, and the height itself modulo the *)
(* inflation cycle, so a run has no last block.  A transaction hash only   *)
(* has to differ from those of the power chunks there are.                 *)
(*                                                                         *)
(* The deliver side works on led, the check side on chk, a copy of the     *)
(* committed state.  A crash in the middle of a block loses the block,     *)
(* which is then executed again: what is left of it is Restart between two *)
(* blocks.                                                                 *)
(***************************************************************************)
EXTENDS Integers, FiniteSets, FiniteSetsExt, Sequences

CONSTANTS
  Addr,                   \* a set of numbers
  GenesisPower,           \* the genesis validators and their powers
  GenesisBalance,         \* the accounts of the genesis and their balances
  Hash,                   \* bound: hashes of bonding transactions; 0 is the genesis
  Power,                  \* bound: the powers a transaction may bond
  Faulty,                 \* bound: the validators that double-sign or miss blocks
  MaxTxs,                 \* bound: bonding transactions in a block
  MaxChecks,              \* bound: bonding transactions checked during a block
  MaxValidatorCnts,       \* the values governance gives MaxValidatorCnt
  MinValidatorPower, MinDelegatorPower, MinSelfPowerRate,
  MaxUpdatablePowerRate, SlashRate, LazyUnbondingBlocks,
  InflationCycleBlocks, MinSignedBlocks,
  None

ASSUME VPowerAssumption ==
  /\ Addr \subseteq Nat /\ Faulty \subseteq Addr
  /\ GenesisPower \in [DOMAIN GenesisPower -> Nat \ {0}] /\ DOMAIN GenesisPower \subseteq Addr
  /\ GenesisBalance \in [DOMAIN GenesisBalance -> Nat] /\ DOMAIN GenesisBalance \subseteq Addr
  /\ Hash \subseteq Nat /\ Power \subseteq Nat \ {0} /\ MaxValidatorCnts \subseteq Nat \ {0}
  /\ MaxTxs \in Nat /\ MaxChecks \in Nat
  /\ MinValidatorPower \in Nat /\ MinDelegatorPower \in Nat
  /\ MinSelfPowerRate \in 0 .. 100 /\ MaxUpdatablePowerRate \in 0 .. 100
  /\ SlashRate \in 0 .. 99 /\ LazyUnbondingBlocks \in Nat
  /\ InflationCycleBlocks \in Nat \ {0} /\ MinSignedBlocks \in Nat

VARIABLES
  led,             \* vpowerState and the balances, deliver side
  chk,             \* the same, check side
  missed,          \* the missed block counts of vpowerState
  lastValidators,  \* VPowerCtrler.lastValidators: address to power
  limiter,         \* VPowerCtrler.vpowLimiter
  maxCnt,          \* the governance parameter MaxValidatorCnt
  phase,           \* where the node is between two BeginBlocks
  cycle,           \* the height modulo InflationCycleBlocks
  engine,          \* the validator set of the consensus engine
  votes,           \* the validators whose votes the next three blocks report
  blk,             \* what the transactions of this block did to the bonded power
  row              \* blocks a bonded validator has missed in a row (history)

nodeVars == <<led, chk, missed, lastValidators, limiter, maxCnt>>
vars == <<nodeVars, phase, cycle, engine, votes, blk, row>>

NoVPower == [sum |-> 0, chunks |-> {}]
NewDelegatee == [sum |-> 0, self |-> 0, delegators |-> {}]
Chunk(h, p) == [hash |-> h, power |-> p]
PowerOf(c) == c.power
SumPower(cs) == MapThenSumSet(PowerOf, cs)

SumOf(f) == MapThenSumSet(LAMBDA a : f[a], DOMAIN f)

-----------------------------------------------------------------------------
(* Bonding and unbonding on one side of the ledger. *)

(* bondPowerChunk and the payment of the sender, execBonding. *)
Bond(l, from, to, h, p) ==
  LET d == IF l.dgtees[to] = None THEN NewDelegatee ELSE l.dgtees[to]
      v == IF from \in d.delegators THEN l.vpows[from, to] ELSE NoVPower
  IN  [l EXCEPT
        !.vpows[from, to] = [sum |-> v.sum + p, chunks |-> v.chunks \cup {Chunk(h, p)}],
        !.dgtees[to] = [sum |-> d.sum + p,
                        self |-> IF from = to THEN d.self + p ELSE d.self,
                        delegators |-> d.delegators \cup {from}],
        !.bal[from] = @ - p]

(* unbondPowerChunk: the chunk leaves the delegator's voting power, which  *)
(* goes when it has no other.                                              *)
unbondPowerChunk(l, from, to, c) ==
  LET v  == l.vpows[from, to]
      d  == l.dgtees[to]
      cs == v.chunks \ {c}
  IN  [l EXCEPT
        !.vpows[from, to] = IF cs = {} THEN None ELSE [sum |-> v.sum - c.power, chunks |-> cs],
        !.dgtees[to] = [sum |-> d.sum - c.power,
                        self |-> IF from = to THEN d.self - c.power ELSE d.self,
                        delegators |-> IF cs = {} THEN d.delegators \ {from}
                                       ELSE d.delegators]]

(* freezePowerChunk and freezePowerChunkList: added to what the address    *)
(* already has at that height.                                             *)
freeze(l, from, p) == [l EXCEPT !.frozen[from][LazyUnbondingBlocks] = @ + p]

(* Mutant: what the delegator has frozen at that height is overwritten. *)
UnbondAllOverwrites(l, to) ==
  LET ds == l.dgtees[to].delegators
  IN  [l EXCEPT
        !.frozen = [a \in Addr |->
                      IF a \notin ds THEN l.frozen[a]
                      ELSE [l.frozen[a] EXCEPT ![LazyUnbondingBlocks] =
                              SumPower(l.vpows[a, to].chunks)]],
        !.vpows = [ft \in Addr \X Addr |->
                     IF ft[2] = to /\ ft[1] \in ds THEN None ELSE l.vpows[ft]],
        !.dgtees[to] = None]

(* Everything delegated to an address is frozen, and the delegatee removed. *)
UnbondAll(l, to) ==
  LET ds == l.dgtees[to].delegators
  IN  [l EXCEPT
        !.frozen = [a \in Addr |->
                      IF a \notin ds THEN l.frozen[a]
                      ELSE [l.frozen[a] EXCEPT ![LazyUnbondingBlocks] =
                              @ + SumPower(l.vpows[a, to].chunks)]],
        !.vpows = [ft \in Addr \X Addr |->
                     IF ft[2] = to /\ ft[1] \in ds THEN None ELSE l.vpows[ft]],
        !.dgtees[to] = None]

(* exeUnbonding: a delegatee without power of its own takes everyone along. *)
Unbond(l, from, to, c) ==
  LET u == freeze(unbondPowerChunk(l, from, to, c), from, c.power)
  IN  IF u.dgtees[to].self = 0 THEN UnbondAll(u, to) ELSE u

-----------------------------------------------------------------------------
(* The limiter of the power change. *)

NoLimit == [last |-> 0, adding |-> 0, subing |-> 0, rate |-> 0]
Reset(total) == [last |-> total, adding |-> 0, subing |-> 0, rate |-> MaxUpdatablePowerRate]
estimatedTotalPower(m) == m.last + m.adding - m.subing

(* checkTotalPower: what remains of the total is a large enough part of    *)
(* the new total.                                                          *)
WithinRate(remain, total, rate) == 100 - (remain * 100) \div total <= rate

CheckAdd(m, p) == WithinRate(m.last - m.subing, estimatedTotalPower(m) + p, m.rate)
CheckSub(m, p) ==
  /\ m.last - m.subing > p
  /\ WithinRate(m.last - m.subing - p, estimatedTotalPower(m) - p, m.rate)

-----------------------------------------------------------------------------
(* Transactions, validated and executed on one side. *)

Unused(l) == {h \in Hash \ {0} : \A ft \in Addr \X Addr :
                l.vpows[ft] # None => \A c \in l.vpows[ft].chunks : c.hash # h}

(* ValidateTrx of a staking transaction, up to the limiter. *)
MayBond(l, from, to, p) ==
  LET d == l.dgtees[to]
  IN  /\ from \in l.accts /\ l.bal[from] >= p
      /\ IF from = to
         THEN p + (IF d = None THEN 0 ELSE d.self) >= MinValidatorPower
         ELSE /\ d # None /\ p >= MinDelegatorPower
              /\ (d.self * 100) \div (d.sum + p) >= MinSelfPowerRate

(* ValidateTrx of an unstaking transaction, up to the limiter. *)
MayUnbond(l, from, to) ==
  from \in l.accts /\ l.dgtees[to] # None /\ l.vpows[from, to] # None

(* Mutant: the limiter does not count what it let pass. *)
StakingUncounted(from, to, p) ==
  /\ phase = "block" /\ blk.txs < MaxTxs /\ Unused(led) # {}
  /\ MayBond(led, from, to, p) /\ CheckAdd(limiter, p)
  /\ led' = Bond(led, from, to, Min(Unused(led)), p)
  /\ blk' = [blk EXCEPT !.txs = @ + 1, !.added = @ + p]
  /\ UNCHANGED <<chk, limiter, missed, lastValidators, maxCnt, phase, cycle, engine, votes>>

Staking(from, to, p) ==
  /\ phase = "block" /\ blk.txs < MaxTxs /\ Unused(led) # {}
  /\ MayBond(led, from, to, p) /\ CheckAdd(limiter, p)
  /\ led' = Bond(led, from, to, Min(Unused(led)), p)
  /\ limiter' = [limiter EXCEPT !.adding = @ + p]
  /\ blk' = [blk EXCEPT !.txs = @ + 1, !.added = @ + p]
  /\ UNCHANGED <<chk, missed, lastValidators, maxCnt, phase, cycle, engine, votes>>

Bonded(l) == MapThenSumSet(LAMBDA a : IF l.dgtees[a] = None THEN 0 ELSE l.dgtees[a].sum, Addr)

Unstaking(from, to) ==
  /\ phase = "block" /\ blk.txs < MaxTxs /\ MayUnbond(led, from, to)
  /\ \E c \in led.vpows[from, to].chunks :
       /\ CheckSub(limiter, c.power)
       /\ led' = Unbond(led, from, to, c)
       /\ limiter' = [limiter EXCEPT !.subing = @ + c.power]
  /\ blk' = [blk EXCEPT !.txs = @ + 1]
  /\ UNCHANGED <<chk, missed, lastValidators, maxCnt, phase, cycle, engine, votes>>

(* CheckTx validates and executes on the check side; the limiter is the    *)
(* same one.                                                               *)
CheckStaking(from, to, p) ==
  /\ blk.checks < MaxChecks /\ phase # "stopped" /\ Unused(chk) # {}
  /\ MayBond(chk, from, to, p) /\ CheckAdd(limiter, p)
  /\ chk' = Bond(chk, from, to, Min(Unused(chk)), p)
  /\ limiter' = [limiter EXCEPT !.adding = @ + p]
  /\ blk' = [blk EXCEPT !.checks = @ + 1]
  /\ UNCHANGED <<led, missed, lastValidators, maxCnt, phase, cycle, engine, votes>>

CheckUnstaking(from, to) ==
  /\ blk.checks < MaxChecks /\ phase # "stopped" /\ MayUnbond(chk, from, to)
  /\ \E c \in chk.vpows[from, to].chunks :
       /\ CheckSub(limiter, c.power)
       /\ chk' = Unbond(chk, from, to, c)
       /\ limiter' = [limiter EXCEPT !.subing = @ + c.power]
  /\ blk' = [blk EXCEPT !.checks = @ + 1]
  /\ UNCHANGED <<led, missed, lastValidators, maxCnt, phase, cycle, engine, votes>>

-----------------------------------------------------------------------------
(* BeginBlock. *)

(* Mutant: the self power is not reduced. *)
doSlashSelf(l, to) ==
  LET ds      == l.dgtees[to].delegators
      lost(a) == MapThenSumSet(LAMBDA c : (c.power * SlashRate) \div 100, l.vpows[a, to].chunks)
      all     == MapThenSumSet(lost, ds)
  IN  IF l.dgtees[to] = None THEN l
      ELSE [l EXCEPT
             !.vpows = [ft \in Addr \X Addr |->
                          IF ft[2] # to \/ ft[1] \notin ds THEN l.vpows[ft]
                          ELSE [sum |-> l.vpows[ft].sum - lost(ft[1]),
                                chunks |-> {Chunk(c.hash, c.power - (c.power * SlashRate) \div 100) :
                                              c \in l.vpows[ft].chunks}]],
             !.dgtees[to].sum = @ - all, !.dead = @ + all]

(* doSlash: every chunk delegated to the address loses its part. *)
slashed(c) == (c.power * SlashRate) \div 100
doSlash(l, to) ==
  LET ds      == l.dgtees[to].delegators
      lost(a) == MapThenSumSet(slashed, l.vpows[a, to].chunks)
      all     == MapThenSumSet(lost, ds)
  IN  IF l.dgtees[to] = None THEN l
      ELSE [l EXCEPT
             !.vpows = [ft \in Addr \X Addr |->
                          IF ft[2] # to \/ ft[1] \notin ds THEN l.vpows[ft]
                          ELSE [sum |-> l.vpows[ft].sum - lost(ft[1]),
                                chunks |-> {Chunk(c.hash, c.power - slashed(c)) :
                                              c \in l.vpows[ft].chunks}]],
             !.dgtees[to] = [@ EXCEPT !.sum = @ - all,
                                      !.self = @ - (IF to \in ds THEN lost(to) ELSE 0)],
             !.dead = @ + all]

(* Mutant: one more missed block is allowed. *)
allowedDownOneMore == InflationCycleBlocks - MinSignedBlocks + 1

allowedDownCnt == InflationCycleBlocks - MinSignedBlocks

(* One block less to every refund. *)
NextHeight(l) ==
  [l EXCEPT !.frozen = [a \in Addr |-> [n \in 0 .. LazyUnbondingBlocks |->
                          IF n = LazyUnbondingBlocks THEN 0 ELSE l.frozen[a][n + 1]]]]

(* The byzantine validators are slashed, those who missed too many blocks  *)
(* of the cycle lose all power.  Without votes the block is the first one: *)
(* nobody missed it, and the limiter is not set.                           *)
BeginBlock(byzantine, absent) ==
  LET n     == (cycle + 1) % InflationCycleBlocks
      cnt   == [a \in Addr |-> IF a \in absent THEN missed[a] + 1 ELSE missed[a]]
      down  == {a \in absent : cnt[a] >= allowedDownCnt}
      slash == FoldSet(LAMBDA a, l : doSlash(l, a), NextHeight(led), byzantine)
      stop  == {a \in down : slash.dgtees[a] # None}
  IN  /\ phase = "committed" /\ phase' = "block"
      /\ led' = FoldSet(LAMBDA a, l : UnbondAll(l, a), slash, stop)
      /\ missed' = IF Head(votes) # {} /\ n = 0 THEN [a \in Addr |-> 0] ELSE cnt
      /\ limiter' = IF Head(votes) = {} THEN limiter ELSE Reset(SumOf(lastValidators))
      /\ blk' = [txs |-> 0, checks |-> 0, added |-> 0]
      /\ cycle' = n
      /\ votes' = Tail(votes)
      /\ UNCHANGED <<chk, lastValidators, maxCnt, engine>>

(* A block is only made with the votes of others than the absent. *)
Begin ==
  LET last == Head(votes)
  IN  \E byzantine \in SUBSET (Faulty \cap last) :
        \E absent \in SUBSET (Faulty \cap last) :
          /\ last # {} => absent # last
          /\ BeginBlock(byzantine, absent)
          /\ row' = [a \in Addr |-> IF a \in absent /\ led'.dgtees[a] # None
                                    THEN row[a] + 1 ELSE 0]

-----------------------------------------------------------------------------
(* EndBlock and Commit. *)

(* OrderByPowerDelegatees. *)
Before(l, a, b) ==
  LET x == l.dgtees[a]
      y == l.dgtees[b]
  IN  \/ x.sum > y.sum
      \/ x.sum = y.sum /\ x.self > y.self
      \/ x.sum = y.sum /\ x.self = y.self /\ a < b

(* selectValidators: the first cnt of all delegatees, with their powers. *)
selectValidators(l, cnt) ==
  LET all == {a \in Addr : l.dgtees[a] # None}
      top == {a \in all : Cardinality({b \in all : Before(l, b, a)}) < cnt}
  IN  [a \in top |-> l.dgtees[a].sum]

(* Mutant: only members are compared, not their powers. *)
updatesOfMembers(last, new) ==
  LET ups == {a \in DOMAIN last : a \notin DOMAIN new} \cup (DOMAIN new \ DOMAIN last)
  IN  [a \in ups |-> IF a \in DOMAIN new THEN new[a] ELSE 0]

(* validatorUpdates: the powers that change, 0 for a validator that goes. *)
validatorUpdates(last, new) ==
  LET ups == {a \in DOMAIN last : a \notin DOMAIN new}
             \cup {a \in DOMAIN new : a \in DOMAIN last => last[a] # new[a]}
  IN  [a \in ups |-> IF a \in DOMAIN new THEN new[a] ELSE 0]

(* The consensus engine applies the updates; it stops on the removal of a  *)
(* validator it does not have, and on an empty set.                        *)
Apply(set, ups) ==
  LET dom == {a \in DOMAIN set \cup DOMAIN ups : a \in DOMAIN ups => ups[a] > 0}
  IN  [a \in dom |-> IF a \in DOMAIN ups THEN ups[a] ELSE set[a]]
Accepted(set, ups) ==
  /\ \A a \in DOMAIN ups : ups[a] = 0 => a \in DOMAIN set
  /\ DOMAIN Apply(set, ups) # {}

Due(l) == {a \in Addr : l.frozen[a][0] > 0}

(* unfreezePowerChunk: what is due is paid to accounts that exist. *)
unfreezePowerChunk(l) ==
  [l EXCEPT !.bal = [a \in Addr |-> l.bal[a] + l.frozen[a][0]],
            !.frozen = [a \in Addr |-> [l.frozen[a] EXCEPT ![0] = 0]]]

EndBlock ==
  LET l   == unfreezePowerChunk(led)
      new == selectValidators(l, maxCnt)
      ups == validatorUpdates(lastValidators, new)
  IN  /\ phase = "block" /\ Due(led) \subseteq led.accts
      /\ led' = l
      /\ limiter' = Reset(SumOf(lastValidators))
      /\ lastValidators' = new
      /\ engine' = Apply(engine, ups)
      /\ phase' = IF Accepted(engine, ups) THEN "ended" ELSE "stopped"
      /\ votes' = Append(votes, DOMAIN Apply(engine, ups))
      /\ UNCHANGED <<chk, missed, maxCnt, cycle, blk>>

(* A refund that fails ends in a panic. *)
EndBlockFails ==
  /\ phase = "block" /\ ~ Due(led) \subseteq led.accts
  /\ phase' = "stopped"
  /\ UNCHANGED <<nodeVars, cycle, engine, votes, blk>>

(* Commit of the voting power, and of governance, which may have a new     *)
(* MaxValidatorCnt.                                                        *)
Commit ==
  /\ phase = "ended" /\ phase' = "committed"
  /\ chk' = led
  /\ maxCnt' \in MaxValidatorCnts
  /\ UNCHANGED <<led, missed, lastValidators, limiter, cycle, engine, votes, blk>>

(* NewVPowerCtrler on the committed state; before the first block there is *)
(* none, and the chain is initialised again.                               *)
Restart ==
  /\ phase = "committed" /\ Head(votes) # {}
  /\ chk' = led
  /\ lastValidators' = selectValidators(led, maxCnt)
  /\ limiter' = NoLimit
  /\ UNCHANGED <<led, missed, maxCnt, phase, cycle, engine, votes, blk>>

(* InitLedger: every genesis validator bonds its own power. *)
Init ==
  LET G == DOMAIN GenesisPower
  IN  /\ led = [dgtees |-> [a \in Addr |->
                              IF a \notin G THEN None
                              ELSE [sum |-> GenesisPower[a], self |-> GenesisPower[a],
                                    delegators |-> {a}]],
                vpows |-> [ft \in Addr \X Addr |->
                              IF ft[1] \notin G \/ ft[1] # ft[2] THEN None
                              ELSE [sum |-> GenesisPower[ft[1]],
                                    chunks |-> {Chunk(0, GenesisPower[ft[1]])}]],
                frozen |-> [a \in Addr |-> [n \in 0 .. LazyUnbondingBlocks |-> 0]],
                bal |-> [a \in Addr |-> IF a \in DOMAIN GenesisBalance
                                        THEN GenesisBalance[a] ELSE 0],
                accts |-> DOMAIN GenesisBalance, dead |-> 0]
      /\ chk = led /\ missed = [a \in Addr |-> 0]
      /\ lastValidators = GenesisPower /\ engine = GenesisPower
      /\ limiter = NoLimit /\ maxCnt \in MaxValidatorCnts
      /\ phase = "committed" /\ cycle = 0 /\ votes = <<{}, G, G>>
      /\ blk = [txs |-> 0, checks |-> 0, added |-> 0]
      /\ row = [a \in Addr |-> 0]

Step ==
  \/ \E from \in Addr, to \in Addr, p \in Power : Staking(from, to, p) \/ CheckStaking(from, to, p)
  \/ \E from \in Addr, to \in Addr : Unstaking(from, to) \/ CheckUnstaking(from, to)
  \/ EndBlock \/ EndBlockFails \/ Commit \/ Restart

Next == Begin \/ (Step /\ UNCHANGED row)

Spec == Init /\ [][Next]_vars

-----------------------------------------------------------------------------
(* Properties. *)

Side ==
  [dgtees : [Addr -> {None} \cup [sum : Nat, self : Nat, delegators : SUBSET Addr]],
   vpows  : [Addr \X Addr -> {None} \cup
               [sum : Nat, chunks : SUBSET [hash : Hash, power : Nat]]],
   frozen : [Addr -> [0 .. LazyUnbondingBlocks -> Nat]],
   bal    : [Addr -> Nat], accts : SUBSET Addr, dead : Nat]

(* The items of the ledger and the fields of the controller have the       *)
(* types of their Go values, and no power or balance is negative.          *)
TypeOK ==
  /\ led \in Side /\ chk \in Side /\ missed \in [Addr -> Nat]
  /\ lastValidators \in [DOMAIN lastValidators -> Nat] /\ DOMAIN lastValidators \subseteq Addr
  /\ engine \in [DOMAIN engine -> Nat] /\ DOMAIN engine \subseteq Addr
  /\ limiter \in [last : Nat, adding : Nat, subing : Nat, rate : 0 .. 100]
  /\ maxCnt \in MaxValidatorCnts /\ cycle \in 0 .. InflationCycleBlocks - 1
  /\ phase \in {"committed", "block", "ended", "stopped"}
  /\ votes \in Seq(SUBSET Addr) /\ row \in [Addr -> Nat]
  /\ blk \in [txs : Nat, checks : Nat, added : Nat]

(* A delegatee's list of delegators names exactly the addresses that have  *)
(* voting power with it, its SumPower and SelfPower are the sums of their  *)
(* power chunks, and no voting power is left with a delegatee that is      *)
(* gone: what exeUnbonding, doSlash and the punishment in BeginBlock read  *)
(* and update in several places stays together, on both sides.             *)
PowersAgree ==
  /\ TypeOK
  /\ \A l \in {led, chk} : \A to \in Addr :
       LET d == l.dgtees[to]
           with == {a \in Addr : l.vpows[a, to] # None}
       IN  IF d = None THEN with = {}
           ELSE /\ d.delegators = with
                /\ \A a \in with : l.vpows[a, to].sum = SumPower(l.vpows[a, to].chunks)
                /\ d.sum = MapThenSumSet(LAMBDA a : l.vpows[a, to].sum, with)
                /\ d.self = IF to \in with THEN l.vpows[to, to].sum ELSE 0

Value(l) == MapThenSumSet(LAMBDA a : l.bal[a] + SumOf(l.frozen[a]), Addr)
            + Bonded(l) + l.dead

(* Bonding, unbonding, forced unbonding, slashing and refunding only move  *)
(* value between balances, bonded power, frozen power and the dead         *)
(* address: nothing is lost and nothing is refunded twice.  Nor is frozen  *)
(* power left behind: at the end of a block what is due at this height has *)
(* been refunded, since no later block looks for it.                       *)
ValueConserved ==
  /\ \A l \in {led, chk} : Value(l) = SumOf(GenesisPower) + SumOf(GenesisBalance)
  /\ phase \in {"ended", "committed"} => Due(led) = {}

(* Between two blocks the consensus engine has exactly the validators the  *)
(* controller believes in, with their powers: the differences EndBlock     *)
(* hands out add up, restarts included, while the number of validators the *)
(* parameters allow stays the same.  "the updated validators is notified   *)
(* to the consensus engine via EndBlock() of block height N".              *)
EngineFollows ==
  phase \in {"ended", "committed"} => engine = lastValidators

(* A validator cannot stay away for good by missing blocks around the end  *)
(* of a cycle, where the counts are reset: while it is bonded, the blocks  *)
(* it has missed in a row are short of the allowance of the old cycle and  *)
(* of that of the new one.                                                 *)
MissesBounded ==
  \A a \in Addr : row[a] <= 2 * (InflationCycleBlocks - MinSignedBlocks - 1)

(* "VPowerLimiter limits the change of voting power in one block": what    *)
(* the staking transactions of a block add stays within                    *)
(* MaxUpdatablePowerRate of the validators' power, although CheckTx counts *)
(* in the same limiter at any moment, EndBlock sets it to the total of the *)
(* previous set and a restart forgets it.                                  *)
AddedWithinLimit ==
  LET total == SumOf(lastValidators)
  IN  phase = "block" /\ blk.added > 0 =>
        WithinRate(total, total + blk.added, MaxUpdatablePowerRate)
=============================================================================
