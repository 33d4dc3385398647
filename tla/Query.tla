------------------------------- MODULE Query -------------------------------
(***************************************************************************)
(* The queries of the application, node/query.go and the Query methods of  *)
(* the controllers.                                                        *)
(*                                                                         *)
(* All calls of the application go through one mutex of the clients, so a  *)
(* query falls between two calls of a block, never into one.  Most of the  *)
(* answers are read from the version of a ledger that was saved with the   *)
(* block the client asks about, and some from what the node holds in       *)
(* memory.  Blocks are reduced to what the answers tell apart: balances    *)
(* and code of accounts, delegated power, proposals, the parameters of     *)
(* governance, rewards and the supply.  An answer is a sequence of         *)
(* numbers.  Contracts do not read the clock.                              *)
(***************************************************************************)
EXTENDS Integers, Sequences, FiniteSets, FiniteSetsExt

CONSTANTS
  NAddr,      \* addresses are 1 .. NAddr, in the order of their keys
  NProp,      \* proposals are 1 .. NProp
  Params,     \* governance parameters: validators at most, power at least
  Genesis,    \* the parameters of the genesis
  Topics,     \* bound: the queries that are asked together, paths, and the
              \* transactions, kinds, that blocks hold meanwhile
  MaxHeight,  \* bound: blocks
  MaxTxs,     \* bound: transactions of a block
  MaxPower,   \* bound: power of a delegation
  MaxTold     \* bound: answers that are remembered

Addr == 1 .. NAddr
Prop == 1 .. NProp
Pairs == Addr \X Addr
NoCode == 0
Code == 1

ASSUME QueryAssumption ==
  /\ NAddr \in Nat \ {0} /\ NProp \in Nat /\ Genesis \in Params
  /\ MaxHeight \in Nat /\ MaxTxs \in Nat /\ MaxPower \in Nat /\ MaxTold \in Nat

VARIABLES
  work,      \* the deliver side of the ledgers
  versions,  \* the saved versions, one for every block
  params,    \* GovCtrler.GovParams, in memory
  valPower,  \* the power of the validators chosen by EndBlock, for every block
  meta,      \* metaDB: transactions and blocks
  phase, txs,
  told,      \* the answers clients remember
  topic      \* the one of Topics this behaviour is about

ledgers == <<work, versions, params, valPower, meta>>
vars == <<ledgers, phase, txs, told, topic>>

last == Len(versions)
Kinds == topic.kinds

SelfPower(l, a) == l.pw[<<a, a>>]
SumPower(l, a) == MapThenSumSet(LAMBDA f : l.pw[<<f, a>>], Addr)
Delegatees(l) == {a \in Addr : SelfPower(l, a) > 0}

(* OrderByPowerDelegatees: power, then own power, then the key. *)
Before(l, a, b) ==
  \/ SumPower(l, a) > SumPower(l, b)
  \/ SumPower(l, a) = SumPower(l, b) /\ SelfPower(l, a) > SelfPower(l, b)
  \/ SumPower(l, a) = SumPower(l, b) /\ SelfPower(l, a) = SelfPower(l, b) /\ a < b

(* The power of the first cnt of a set of delegatees. *)
PowerOfFirst(l, ds, cnt) ==
  MapThenSumSet(LAMBDA a : SumPower(l, a),
                {a \in ds : Cardinality({b \in ds : Before(l, b, a)}) < cnt})

Init ==
  /\ work = [bal |-> [a \in Addr |-> 1], code |-> [a \in Addr |-> NoCode],
             vm |-> [a \in Addr |-> NoCode],
             pw |-> [p \in Pairs |-> IF p = <<1, 1>> THEN 1 ELSE 0],
             voting |-> {}, frozen |-> {}, par |-> Genesis,
             reward |-> [a \in Addr |-> 0], supply |-> 1]
  /\ versions = <<>> /\ params = Genesis /\ valPower = <<>>
  /\ meta = [txn |-> 0] /\ phase = "idle" /\ txs = 0 /\ told = {}
  /\ topic \in Topics

-----------------------------------------------------------------------------
(* Blocks. *)

BeginBlock ==
  /\ phase = "idle" /\ last < MaxHeight /\ phase' = "block" /\ txs' = 0
  /\ UNCHANGED <<ledgers, told>>

Transfer(l) ==
  {[l EXCEPT !.bal[a] = @ - 1, !.bal[b] = @ + 1] :
     <<a, b>> \in {p \in Pairs : p[1] # p[2] /\ l.bal[p[1]] > 0}}

(* StateDBWrapper.Finish writes the hash of the code into the account; the *)
(* code itself is in the state of the EVM.                                 *)
Deploy(l) ==
  {[l EXCEPT !.code[a] = Code, !.vm[a] = Code] : a \in {a \in Addr : l.code[a] = NoCode}}

Stake(l) ==
  {[l EXCEPT !.pw[p] = @ + 1] :
     p \in {p \in Pairs : l.pw[p] < MaxPower /\ (p[1] = p[2] \/ p[2] \in Delegatees(l))}}

(* A delegatee that takes back all its own power is removed with all that  *)
(* was delegated to it.                                                    *)
Unstake(l) ==
  {IF p[1] = p[2] /\ l.pw[p] = 1
   THEN [l EXCEPT !.pw = [q \in Pairs |-> IF q[2] = p[2] THEN 0 ELSE l.pw[q]]]
   ELSE [l EXCEPT !.pw[p] = @ - 1] : p \in {p \in Pairs : l.pw[p] > 0}}

Propose(l) ==
  {[l EXCEPT !.voting = @ \cup {p}] : p \in Prop \ (l.voting \cup l.frozen)}

Executed(l) ==
  UNION {CASE k = "transfer" -> Transfer(l) [] k = "deploy" -> Deploy(l)
           [] k = "stake" -> Stake(l) [] k = "unstake" -> Unstake(l)
           [] k = "propose" -> Propose(l) : k \in Kinds \ {"reward"}}

(* A transaction is executed: EndBlock of the application has begun, and   *)
(* no query is answered until it returns.                                  *)
Execute ==
  /\ phase = "block" /\ txs < MaxTxs /\ txs' = txs + 1
  /\ work' \in Executed(work)
  /\ UNCHANGED <<versions, params, valPower, meta, phase, told>>

(* Mutant: a frozen proposal stays among those that are voted on. *)
FrozenTwice(l) == {l} \cup {[l EXCEPT !.frozen = @ \cup {p}] : p \in l.voting}

(* freezeProposals: a proposal whose vote is over is frozen or removed. *)
freezeProposals(l) ==
  {l} \cup {[l EXCEPT !.voting = @ \ {p}, !.frozen = @ \cup {p}] : p \in l.voting}
      \cup {[l EXCEPT !.voting = @ \ {p}] : p \in l.voting}

(* applyProposals: new parameters are written, and used from Commit on. *)
applyProposals(l) ==
  {l} \cup {[l EXCEPT !.frozen = @ \ {p}, !.par = g] : <<p, g>> \in l.frozen \X Params}

Rewarded(l) ==
  {l} \cup {[l EXCEPT !.reward[a] = @ + 1, !.supply = @ + 1] :
              a \in IF "reward" \in Kinds THEN Addr ELSE {}}

(* EndBlock of the controllers.  The validators are the first of all       *)
(* delegatees; MinValidatorPower is not looked at.                         *)
EndBlock ==
  /\ phase = "block" /\ phase' = "ended"
  /\ \E l \in freezeProposals(work) : \E m \in applyProposals(l) : work' \in Rewarded(m)
  /\ valPower' = Append(valPower, PowerOfFirst(work, Delegatees(work), params.max))
  /\ UNCHANGED <<versions, params, meta, txs, told>>

(* Commit of all controllers and of the metaDB: one call. *)
Commit ==
  /\ phase = "ended" /\ phase' = "idle"
  /\ versions' = Append(versions, work) /\ params' = work.par
  /\ meta' = [txn |-> meta.txn + txs]
  /\ UNCHANGED <<work, valPower, txs, told>>

(* The process stops between two calls and starts again from its disk; the *)
(* block it was in is executed anew.                                       *)
Restart ==
  /\ last > 0 /\ phase' = "idle" /\ txs' = 0
  /\ work' = versions[last] /\ params' = versions[last].par
  /\ valPower' = SubSeq(valPower, 1, last)
  /\ UNCHANGED <<versions, meta, told>>

-----------------------------------------------------------------------------
(* Answers. *)

OK(v) == [code |-> "ok", value |-> v]
Failed == [code |-> "error", value |-> <<>>]
Panic == [code |-> "panic", value |-> <<>>]
NotFound == <<>>

(* Mutant: the last block is read from the side that is being worked on. *)
LiveLedgerAt(h) == IF h = last THEN work ELSE versions[h]

(* ImitableLedgerAt: the version of that number. *)
ImitableLedgerAt(h) == versions[h]

(* A Get of an item of the ledger of a height.  There is no tree before    *)
(* the first block, and Get does not ask; an unknown version is an error.  *)
GetAt(h, item) ==
  IF h = 0 THEN Panic ELSE IF h > last \/ item = NotFound THEN Failed ELSE OK(item)

(* A Seek does ask. *)
SeekAt(h, items) == IF h = 0 \/ h > last THEN Failed ELSE OK(items)

(* MemStateAt: the state of the EVM under the root hash kept for a height. *)
MemStateAt(h) == versions[h].vm

(* The account, with the code itself in the place of its hash. *)
queryAccount(a, h) ==
  LET l == ImitableLedgerAt(h) IN
  GetAt(h, <<l.bal[a], IF l.code[a] = NoCode THEN NoCode ELSE MemStateAt(h)[a], l.code[a]>>)

(* SimuAcctCtrler: the accounts of a height, to read and to write; what is *)
(* written stays there.                                                    *)
SimuAccount(l, a) == l.bal[a]

(* callVM: a simulation on the accounts and the state of a height, whose   *)
(* changes are thrown away.                                                *)
callVM(a, h) == GetAt(h, <<SimuAccount(ImitableLedgerAt(h), a), MemStateAt(h)[a]>>)

(* Query of the EVM has a last height of its own. *)
queryVM(a, h) == callVM(a, IF h = 0 THEN last ELSE h)

queryStakes(a, h) == SeekAt(h, [b \in Addr |-> ImitableLedgerAt(h).pw[<<a, b>>]])

queryDelegatee(a, h) ==
  LET l == ImitableLedgerAt(h) IN
  GetAt(h, IF a \notin Delegatees(l) THEN NotFound
           ELSE <<SelfPower(l, a), SumPower(l, a)>> \o [b \in Addr |-> l.pw[<<b, a>>]])

queryTotalPower(h) ==
  LET l == ImitableLedgerAt(h) IN
  SeekAt(h, <<MapThenSumSet(LAMBDA a : SumPower(l, a), Delegatees(l))>>)

(* The delegatees are those of the height, the parameters those in memory. *)
queryVotingPower(h) ==
  LET l == ImitableLedgerAt(h) IN
  SeekAt(h, <<PowerOfFirst(l, {a \in Delegatees(l) : SelfPower(l, a) >= params.min},
                           params.max)>>)

queryReward(a, h) == GetAt(h, <<ImitableLedgerAt(h).reward[a]>>)
queryTotalSupply(h) == GetAt(h, <<ImitableLedgerAt(h).supply>>)

Voting == 1
Frozen == 2

(* All proposals with their status: a proposal may come under both keys. *)
queryProposals(h) ==
  LET l == ImitableLedgerAt(h) IN
  SeekAt(h, [p \in Prop |-> (IF p \in l.voting THEN Voting ELSE 0)
                            + (IF p \in l.frozen THEN Frozen ELSE 0)])

(* One proposal: the key of a vote first, then that of a frozen one. *)
queryProposal(p, h) ==
  LET l == ImitableLedgerAt(h) IN
  GetAt(h, IF p \in l.voting THEN <<Voting>>
           ELSE IF p \in l.frozen THEN <<Frozen>> ELSE NotFound)

queryGovParams(h) ==
  LET l == ImitableLedgerAt(h) IN
  GetAt(h, <<l.par.max, l.par.min>>)

(* The data that go with a path. *)
DataOf(path) ==
  CASE path \in {"account", "vm_call", "stakes", "delegatee", "reward"} -> Addr
    [] path = "proposal" -> {0} \cup Prop
    [] OTHER -> {0}

Answer(path, d, h) ==
  CASE path = "account" -> queryAccount(d, h)
    [] path = "vm_call" -> queryVM(d, h)
    [] path = "stakes" -> queryStakes(d, h)
    [] path = "delegatee" -> queryDelegatee(d, h)
    [] path = "stakes/total_power" -> queryTotalPower(h)
    [] path = "stakes/voting_power" -> queryVotingPower(h)
    [] path = "reward" -> queryReward(d, h)
    [] path = "total_supply" -> queryTotalSupply(h)
    [] path = "proposal" -> IF d = 0 THEN queryProposals(h) ELSE queryProposal(d, h)
    [] path = "gov_params" -> queryGovParams(h)
    [] path = "txn" -> OK(<<meta.txn>>)

parseHeight(req) == IF req < 0 THEN 0 ELSE req

(* No height is the last one, and the response says which it is.  The      *)
(* client remembers the answer.                                            *)
Ask(path, d, req) ==
  LET h == IF parseHeight(req) = 0 THEN last ELSE parseHeight(req)
  IN  /\ Cardinality(told) < MaxTold /\ (phase = "block" => txs = 0)
      /\ told' = told \cup {[path |-> path, data |-> d, height |-> h, answer |-> Answer(path, d, h)]}
      /\ UNCHANGED <<ledgers, phase, txs>>

Step ==
  \/ BeginBlock \/ Execute \/ EndBlock \/ Commit \/ Restart
  \/ \E path \in topic.paths : \E d \in DataOf(path) : \E req \in -1 .. last + 1 : Ask(path, d, req)

Next == Step /\ UNCHANGED topic

Spec == Init /\ [][Next]_vars

-----------------------------------------------------------------------------
(* Properties. *)

(* Every variable has the shape of the Go value it stands for; one version *)
(* and one choice of validators for every block.                           *)
TypeOK ==
  /\ \A l \in {work} \cup {versions[h] : h \in 1 .. last} :
       /\ l.bal \in [Addr -> Nat] /\ l.pw \in [Pairs -> 0 .. MaxPower]
       /\ l.voting \subseteq Prop /\ l.frozen \subseteq Prop /\ l.par \in Params
  /\ params \in Params /\ Len(valPower) = last + (IF phase = "ended" THEN 1 ELSE 0)
  /\ phase \in {"idle", "block", "ended"} /\ meta.txn \in Nat
  /\ \A t \in told : t.path \in topic.paths /\ t.height \in 0 .. MaxHeight + 1

(* The queries that read no more than a saved version. *)
OfHeight == topic.paths \ {"stakes/voting_power", "txn"}

Told(path) == {t \in told : t.path = path /\ t.answer.code = "ok"}

(* What a client is told of a block never changes: not while the next      *)
(* block is executed, nor when it is committed, nor after a restart.       *)
AnswersStable ==
  \A path \in OfHeight : \A t, u \in Told(path) :
    t.data = u.data /\ t.height = u.height => t.answer = u.answer

(* An account that has the hash of a code is told with the code: the       *)
(* ledger of accounts and the state of the EVM are of the same block.      *)
CodeWithAccount ==
  /\ \A t \in Told("account") : t.answer.value[2] = t.answer.value[3]
  /\ \A t \in Told("account") : \A u \in Told("vm_call") :
       t.data = u.data /\ t.height = u.height => t.answer.value[2] = u.answer.value[2]

(* The validators of a height never hold more than all delegatees of it,   *)
(* whatever became of the parameters.                                      *)
VotingWithinTotal ==
  \A t \in Told("stakes/voting_power") : \A u \in Told("stakes/total_power") :
    t.height = u.height => t.answer.value[1] <= u.answer.value[1]

(* A proposal is voted on or frozen, never both, and the list of proposals *)
(* says of it what the query by its hash says.                             *)
ProposalOnce ==
  \A t \in Told("proposal") :
    /\ t.data = 0 => \A p \in Prop : t.answer.value[p] # Voting + Frozen
    /\ \A u \in Told("proposal") :
         t.data = 0 /\ u.data # 0 /\ t.height = u.height => t.answer.value[u.data] = u.answer.value[1]

(* "queryVotingPower returns the sum of voting power of validators."       *)
(* (ctrlers/vpower/ctrler_query.go): those EndBlock chose for that block,  *)
(* as long as governance has changed nothing since the genesis and every   *)
(* delegatee of the height has MinValidatorPower, which EndBlock does not  *)
(* look at.                                                                *)
VotingPowerOfValidators ==
  (\A h \in 1 .. last : versions[h].par = Genesis) =>
    \A t \in Told("stakes/voting_power") :
      (\A a \in Delegatees(versions[t.height]) : SelfPower(versions[t.height], a) >= Genesis.min)
      => t.answer.value[1] = valPower[t.height]

(* Answers to different queries about one block agree with each other: on  *)
(* the code of an account, on voting power and total power, on the status  *)
(* of a proposal, and on the validators that were chosen.                  *)
AnswersAgree ==
  /\ TypeOK
  /\ CodeWithAccount /\ VotingWithinTotal /\ ProposalOnce /\ VotingPowerOfValidators
=============================================================================
