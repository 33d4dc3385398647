------------------------------ MODULE BlockGas ------------------------------
(***************************************************************************)
(* The gas of a block.  A block may use what the pool of its BlockContext  *)
(* (ctrlers/types/block_ctx.go) holds.  A transaction the application      *)
(* executes itself takes its gas after it has run (postRunTrx); one that   *)
(* the EVM executes buys its gas first and hands back the rest             *)
(* (ctrlers/vm/evm/state_transition.go).  Both have to draw from the same  *)
(* pool, which the EVM controller has a pointer to.                        *)
(***************************************************************************)
EXTENDS Integers

CONSTANTS
  Limits,         \* values governance gives BlockGasLimit
  Gas,            \* values of Tx.Gas
  MinTrxGas,      \* of governance
  IntrinsicGas,   \* what the EVM asks for before it runs
  RefundQuotient, \* the part of the gas used that may be refunded
  MaxTxs,         \* bound: transactions of a block
  MaxBlocks       \* bound: blocks

ASSUME BlockGasAssumption ==
  /\ Limits \subseteq Nat /\ Limits # {} /\ Gas \subseteq Nat
  /\ {MinTrxGas, IntrinsicGas} \subseteq Nat /\ RefundQuotient \in Nat \ {0}
  /\ MaxTxs \in Nat /\ MaxBlocks \in Nat

(* "native" is executed by a controller, "contract" is a call or creation, *)
(* "transfer" a transfer to an account with code, which the EVM executes,  *)
(* too.  A creation may have more code than the EVM takes.                 *)
Types == {"native", "contract", "transfer"}
Tx == {t \in [type : Types, gas : Gas, big : BOOLEAN] : t.big => t.type = "contract"}

VARIABLES
  params,   \* BlockGasLimit of governance
  open,     \* between BeginBlock and Commit
  blockGasLimit,    \* BlockContext.blockGasLimit
  pools,    \* the GasPool objects of this block
  bctxPool, \* the one of the BlockContext
  evmPool,  \* the one of the EVM controller
  gasUsed,  \* GasUsed of the transactions of this block, added up
  lost,     \* gas taken by transactions that end without a GasUsed
  txs,      \* transactions of this block
  lastBlockCtx,     \* lastBlockCtx: its limit and its pool
  lastUsed, \* gasUsed + lost of the last block
  blocks

gasVars == <<params, open, blockGasLimit, pools, bctxPool, evmPool, gasUsed, lost, txs,
             lastBlockCtx, lastUsed, blocks>>

pool == pools[bctxPool]
IsHandledByEVM(t) == t.type # "native"

-----------------------------------------------------------------------------
(* What transactions do to a pool: r.err is the error that leaves no       *)
(* result, r.pool what the pool holds after, r.used the GasUsed.           *)

SubGas(p, g) == IF p < g THEN p ELSE p - g

(* Mutant: the refund has no cap. *)
refundUncapped(used, counter) == counter

refundGas(used, counter) ==
  IF used \div RefundQuotient > counter THEN counter ELSE used \div RefundQuotient

(* preCheck and buyGas.  Fee caps and base fee are 0 here, so that of the  *)
(* balance only the amount is asked for, which, like the nonce, has been   *)
(* validated right before; what remains is the pool.                       *)
buyGas(p, t) == p >= t.gas

(* left is what the run leaves of the gas, counter the refund counter. *)
TransitionDb(p, t, left, counter) ==
  IF ~ buyGas(p, t) THEN [err |-> TRUE, pool |-> p, used |-> 0]
  ELSE IF t.gas < IntrinsicGas \/ t.big
  THEN [err |-> TRUE, pool |-> p - t.gas, used |-> 0]
  ELSE LET remaining == left + refundGas(t.gas - left, counter)
       IN  [err |-> FALSE, pool |-> p - t.gas + remaining, used |-> t.gas - remaining]

(* NewTrxContext, commonValidation and EVMCtrler.ValidateTrx, which only   *)
(* sees contract transactions.                                             *)
validateTrx(p, t) ==
  /\ t.gas >= MinTrxGas
  /\ p > 0 /\ p >= t.gas
  /\ t.type = "contract" => t.gas >= IntrinsicGas

-----------------------------------------------------------------------------
GasInit ==
  /\ params \in Limits /\ open = FALSE /\ blockGasLimit = params
  /\ pools = <<params, params>> /\ bctxPool = 2 /\ evmPool = 2
  /\ gasUsed = 0 /\ lost = 0 /\ txs = 0
  /\ lastBlockCtx = [limit |-> params, pool |-> params] /\ lastUsed = 0 /\ blocks = 0

(* Mutant: the EVM controller begins the block before the limit is set. *)
beginEVMFirst ==
  /\ ~ open /\ blocks < MaxBlocks
  /\ open' = TRUE /\ blockGasLimit' = params
  /\ pools' = <<params, params>> /\ bctxPool' = 2 /\ evmPool' = 1
  /\ gasUsed' = 0 /\ lost' = 0 /\ txs' = 0
  /\ UNCHANGED <<params, lastBlockCtx, lastUsed, blocks>>

(* NewBlockContext makes a pool and SetBlockGasLimit another one; then the *)
(* EVM controller takes the pool there is.                                 *)
GasBeginBlock ==
  /\ ~ open /\ blocks < MaxBlocks
  /\ open' = TRUE /\ blockGasLimit' = params
  /\ pools' = <<params, params>> /\ bctxPool' = 2 /\ evmPool' = 2
  /\ gasUsed' = 0 /\ lost' = 0 /\ txs' = 0
  /\ UNCHANGED <<params, lastBlockCtx, lastUsed, blocks>>

(* A transaction that is not valid takes no gas. *)
Refuse(t) ==
  /\ open /\ txs < MaxTxs /\ ~ validateTrx(pool, t)
  /\ txs' = txs + 1
  /\ UNCHANGED <<params, open, blockGasLimit, pools, bctxPool, evmPool, gasUsed, lost,
                 lastBlockCtx, lastUsed, blocks>>

(* postRunTrx, whether the transaction succeeded or not. *)
ExecNative(t) ==
  /\ open /\ txs < MaxTxs /\ validateTrx(pool, t) /\ ~ IsHandledByEVM(t)
  /\ pools' = [pools EXCEPT ![bctxPool] = SubGas(@, t.gas)]
  /\ gasUsed' = gasUsed + t.gas
  /\ txs' = txs + 1
  /\ UNCHANGED <<params, open, blockGasLimit, bctxPool, evmPool, lost, lastBlockCtx,
                 lastUsed, blocks>>

(* EVMCtrler.ExecuteTrx: a reverted call uses gas as a successful one      *)
(* does; an error of the transition uses none.                             *)
ExecEVM(t, left, counter) ==
  LET r == TransitionDb(pools[evmPool], t, left, counter)
  IN  /\ open /\ txs < MaxTxs /\ validateTrx(pool, t) /\ IsHandledByEVM(t)
      /\ pools' = [pools EXCEPT ![evmPool] = r.pool]
      /\ gasUsed' = gasUsed + r.used
      /\ lost' = lost + (IF r.err THEN pools[evmPool] - r.pool ELSE 0)
      /\ txs' = txs + 1
      /\ UNCHANGED <<params, open, blockGasLimit, bctxPool, evmPool, lastBlockCtx,
                     lastUsed, blocks>>

(* The block is committed, and with it the parameters it decided on. *)
Commit(p) ==
  /\ open
  /\ open' = FALSE /\ blocks' = blocks + 1 /\ params' = p
  /\ lastBlockCtx' = [limit |-> blockGasLimit, pool |-> pool] /\ lastUsed' = gasUsed + lost
  /\ UNCHANGED <<blockGasLimit, pools, bctxPool, evmPool, gasUsed, lost, txs>>

(* What is stored of a block is its limit and what it has used. *)
Marshal(b) == [limit |-> b.limit, used |-> b.limit - b.pool]

Unmarshal(m) == [limit |-> m.limit, pool |-> m.limit - m.used]

(* The node stops and reads the last block, whether or not one is open. *)
Restart ==
  /\ lastBlockCtx' = Unmarshal(Marshal(lastBlockCtx)) /\ open' = FALSE
  /\ UNCHANGED <<params, blockGasLimit, pools, bctxPool, evmPool, gasUsed, lost, txs,
                 lastUsed, blocks>>

GasNext ==
  \/ GasBeginBlock
  \/ \E t \in Tx : Refuse(t) \/ ExecNative(t)
  \/ \E t \in Tx : \E left \in 0 .. t.gas - IntrinsicGas : \E counter \in 0 .. t.gas : ExecEVM(t, left, counter)
  \/ \E t \in Tx : t.gas < IntrinsicGas /\ ExecEVM(t, 0, 0)
  \/ \E p \in Limits : Commit(p)
  \/ Restart

GasSpec == GasInit /\ [][GasNext]_gasVars

-----------------------------------------------------------------------------
(* Properties. *)

(* Pools hold gas and nothing less, and the block has a limit of           *)
(* governance.                                                             *)
GasTypeOK ==
  /\ params \in Limits /\ blockGasLimit \in Limits /\ open \in BOOLEAN
  /\ pools \in [1 .. 2 -> Nat] /\ bctxPool \in 1 .. 2 /\ evmPool \in 1 .. 2
  /\ gasUsed \in Nat /\ lost \in Nat /\ txs \in Nat /\ lastUsed \in Nat /\ blocks \in Nat
  /\ lastBlockCtx \in [limit : Limits, pool : Nat]

(* Whatever transactions of either kind a block has had, the gas missing   *)
(* in its pool is what they have been charged and what failed transitions  *)
(* have kept; so UseBlockGas, whose error postRunTrx ignores, never fails, *)
(* and no block goes beyond its limit.                                     *)
PoolExact == blockGasLimit - pool = gasUsed + lost

(* No transaction gives a pool back more than it took. *)
PoolShrinks == [][open /\ open' => pools'[bctxPool'] <= pools[bctxPool]]_gasVars

(* The last block says it has used what it has used, after any number of   *)
(* restarts as well.                                                       *)
LastExact == lastBlockCtx.limit - lastBlockCtx.pool = lastUsed
=============================================================================
