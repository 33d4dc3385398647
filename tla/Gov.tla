-------------------------------- MODULE Gov --------------------------------
(***************************************************************************)
(* Governance, ctrlers/gov: the proposals being made and voted on, the     *)
(* freezing of decided ones, their application, and the governance         *)
(* parameters in the ledger and in memory.                                 *)
(*                                                                         *)
(* Heights are relative to the height of the block: they count down to 0,  *)
(* the block itself, and what lies further back than the code can tell     *)
(* apart stays at the same number.  The proposals are numbers, in the      *)
(* order of their transaction hashes; the hash of a proposal that is gone  *)
(* stands for that of a new one.  The parameters are functions of a few    *)
(* fields, and the value 0 stands for a field that is not set.             *)
(***************************************************************************)
EXTENDS GovProposal

CONSTANTS
  Prop,                   \* a set of numbers: hashes of proposals
  ValidatorSets,          \* what vpower's Validators() may return
  Payload,                \* bound: the proposals that may be made
  Byzantine,              \* bound: the validators that may double-sign
  MaxEvidence,            \* bound: pieces of evidence in a block
  InitParams,             \* GovParams of the genesis
  MinVotingPeriodBlocks, MaxVotingPeriodBlocks, LazyApplyingBlocks

ASSUME GovAssumption ==
  /\ Prop \subseteq Nat /\ IsFiniteSet(Prop) /\ MaxEvidence \in Nat
  /\ InitParams \in Params
  /\ \A v \in ValidatorSets : v \in [DOMAIN v -> Nat \ {0}] /\ IsFiniteSet(DOMAIN v)
  /\ Payload \subseteq [type : {"govparams", "common"}, start : Int, period : Int, apply : Int,
                        options : Seq(Params)]

VARIABLES
  props,       \* govState, the proposals being voted on
  frozen,      \* govState, the proposals that wait to be applied
  ledger,      \* govState, the governance parameters
  GovParams,   \* GovCtrler.GovParams
  newGovParams,\* GovCtrler.newGovParams
  validators,  \* vpower's lastValidators: address to power
  phase,       \* where the node is between two BeginBlocks
  ballots,     \* the option each voter last chose in the voting period
  applied      \* the options applied in this block

govVars == <<props, frozen, ledger, GovParams, newGovParams, validators, phase, ballots, applied>>

Open == {p \in Prop : props[p] # Nil}
Frozen == {p \in Prop : frozen[p] # Nil}

-----------------------------------------------------------------------------
(* Proposals and votes. *)

(* ValidateTrx of a proposal of some validator. *)
MayPropose(pl) ==
  /\ pl.start > 0
  /\ pl.period \in MinVotingPeriodBlocks .. MaxVotingPeriodBlocks
  /\ pl.apply >= pl.start + pl.period + LazyApplyingBlocks
  /\ pl.apply >= pl.start + pl.period
  /\ Len(pl.options) > 0

(* execProposing: the validators of this moment are the voters. *)
Proposing(p, pl) ==
  /\ phase = "block" /\ DOMAIN validators # {} /\ p \notin Open \cup Frozen /\ MayPropose(pl)
  /\ props' = [props EXCEPT ![p] = NewGovProposal(pl, validators)]
  /\ ballots' = [ballots EXCEPT ![p] = [a \in DOMAIN validators |-> Nil]]
  /\ UNCHANGED <<frozen, ledger, GovParams, newGovParams, validators, phase, applied>>

(* Mutant: votes are taken up to the block that decides. *)
MayVoteLate(q, a, i) ==
  a \in DOMAIN q.voters /\ i \in DOMAIN q.options /\ q.start <= 0

(* ValidateTrx of a vote. *)
MayVote(q, a, i) ==
  a \in DOMAIN q.voters /\ i \in DOMAIN q.options /\ q.start <= 0 /\ q.end >= 0

Voting(p, a, i) ==
  /\ phase = "block" /\ p \in Open /\ MayVote(props[p], a, i)
  /\ props' = [props EXCEPT ![p] = DoVote(@, a, i)]
  /\ ballots' = IF props[p].start <= 0 /\ props[p].end >= 0
                THEN [ballots EXCEPT ![p][a] = props[p].options[i].option] ELSE ballots
  /\ UNCHANGED <<frozen, ledger, GovParams, newGovParams, validators, phase, applied>>

-----------------------------------------------------------------------------
(* BeginBlock. *)

(* doSlash of the validators in the evidence, on the open proposals only; *)
(* there may be more than one piece of evidence against one of them.       *)
BeginBlock(evidence) ==
  /\ phase = "committed" /\ phase' = "block"
  /\ props' = [p \in Prop |->
                 IF props[p] = Nil THEN Nil ELSE slashAll(NextHeight(props[p]), evidence)]
  /\ frozen' = [p \in Prop |-> NextHeight(frozen[p])]
  /\ applied' = {}
  /\ UNCHANGED <<ledger, GovParams, newGovParams, validators, ballots>>

-----------------------------------------------------------------------------
(* EndBlock and Commit. *)

Ended == {p \in Open : props[p].end < 0}

(* Mutant: a proposal without a major option stays. *)
freezeOnlyDecided ==
  LET major == [p \in Ended |-> updateMajorOption(props[p])]
      gone  == {p \in Ended : major[p] # Nil}
  IN  [open   |-> [p \in Prop |-> IF p \in gone THEN Nil ELSE props[p]],
       frozen |-> [p \in Prop |-> IF p \in gone THEN [props[p] EXCEPT !.major = major[p]]
                                  ELSE frozen[p]]]

(* freezeProposals: decided proposals are kept for their application, the  *)
(* others removed.                                                         *)
freezeProposals ==
  LET major == [p \in Ended |-> updateMajorOption(props[p])]
  IN  [open   |-> [p \in Prop |-> IF p \in Ended THEN Nil ELSE props[p]],
       frozen |-> [p \in Prop |->
                     IF p \in Ended /\ major[p] # Nil THEN [props[p] EXCEPT !.major = major[p]]
                     ELSE frozen[p]]]

MergeGovParams(old, new) == [f \in Field |-> IF new[f] = 0 THEN old[f] ELSE new[f]]

(* Mutant: the parameters are not saved. *)
applyUnsaved(fz) ==
  LET due == {p \in Prop : fz[p] # Nil /\ fz[p].apply <= 0}
      gov == {p \in due : fz[p].type = "govparams"}
  IN  /\ newGovParams' = IF gov = {} THEN newGovParams
                         ELSE MergeGovParams(GovParams, fz[Max(gov)].major.option)
      /\ ledger' = ledger
      /\ applied' = {fz[p].major.option : p \in gov}
      /\ frozen' = [p \in Prop |-> IF p \in due THEN Nil ELSE fz[p]]

(* applyProposals, in the order of the hashes: each starts from the        *)
(* parameters in use, so the last one remains.                             *)
applyProposals(fz) ==
  LET due == {p \in Prop : fz[p] # Nil /\ fz[p].apply <= 0}
      gov == {p \in due : fz[p].type = "govparams"}
  IN  /\ newGovParams' = IF gov = {} THEN newGovParams
                         ELSE MergeGovParams(GovParams, fz[Max(gov)].major.option)
      /\ ledger' = IF newGovParams' = Nil THEN ledger ELSE newGovParams'
      /\ applied' = {fz[p].major.option : p \in gov}
      /\ frozen' = [p \in Prop |-> IF p \in due THEN Nil ELSE fz[p]]

(* EndBlock of governance, and of the voting power, which may come to      *)
(* other validators.                                                       *)
EndBlock ==
  /\ phase = "block" /\ phase' = "ended"
  /\ props' = freezeProposals.open
  /\ applyProposals(freezeProposals.frozen)
  /\ validators' \in ValidatorSets
  /\ UNCHANGED <<GovParams, ballots>>

Commit ==
  /\ phase = "ended" /\ phase' = "committed"
  /\ GovParams' = IF newGovParams = Nil THEN GovParams ELSE newGovParams
  /\ newGovParams' = Nil
  /\ UNCHANGED <<props, frozen, ledger, validators, ballots, applied>>

(* NewGovCtrler on the committed state. *)
Restart ==
  /\ phase = "committed"
  /\ GovParams' = ledger /\ newGovParams' = Nil
  /\ UNCHANGED <<props, frozen, ledger, validators, phase, ballots, applied>>

Evidence == UNION {[1 .. n -> Byzantine] : n \in 0 .. MaxEvidence}

GovInit ==
  /\ props = [p \in Prop |-> Nil] /\ frozen = props /\ ballots = props
  /\ ledger = InitParams /\ GovParams = InitParams /\ newGovParams = Nil
  /\ validators \in ValidatorSets /\ phase = "committed" /\ applied = {}

GovNext ==
  \/ \E p \in Prop, pl \in Payload : Proposing(p, pl)
  \/ \E p \in Open : \E a \in DOMAIN props[p].voters, i \in DOMAIN props[p].options : Voting(p, a, i)
  \/ \E evidence \in Evidence : BeginBlock(evidence)
  \/ EndBlock \/ Commit \/ Restart

(* Blocks go on. *)
GovFairness ==
  /\ WF_govVars(\E evidence \in Evidence : BeginBlock(evidence))
  /\ WF_govVars(EndBlock) /\ WF_govVars(Commit)

GovSpec == GovInit /\ [][GovNext]_govVars /\ GovFairness

-----------------------------------------------------------------------------
(* Properties. *)

(* The proposals and the parameters have the types of their Go values, no  *)
(* tally is negative and no voter is without power.                        *)
GovTypeOK ==
  /\ DOMAIN props = Prop /\ DOMAIN frozen = Prop /\ DOMAIN ballots = Prop
  /\ \A p \in Open : IsProposal(props[p])
  /\ \A p \in Frozen : IsProposal(frozen[p])
  /\ ledger \in Params /\ GovParams \in Params /\ newGovParams \in {Nil} \cup Params
  /\ validators \in ValidatorSets /\ phase \in {"committed", "block", "ended"}
  /\ applied \subseteq Params

(* The votes of every option of an open proposal are the powers its voters *)
(* have now, TotalVotingPower is the sum of all of them and MajorityPower  *)
(* two thirds of it: through changed votes and slashing, which updates the *)
(* tally, the voter and the totals separately.                             *)
Tallied == GovTypeOK /\ \A p \in Open : IsTallied(props[p])

(* A proposal that waits to be applied was decided by the ballots cast in  *)
(* the voting period: its major option has two thirds of the power that    *)
(* voters had at the end, counted from the last ballot of each, no other   *)
(* option has more, and someone voted for it unless all of the power but   *)
(* one unit was slashed away.                                              *)
DecidedByBallots == \A p \in Frozen : IsDecided(frozen[p], ballots[p])

(* The parameters in use only ever change to what an applied proposal says *)
(* of them: a restart finds in the ledger what was in memory, and a block  *)
(* without an applied proposal changes nothing.  Of several applied in one *)
(* block each starts from the parameters in use, and one remains.          *)
ParamsChangeByVote ==
  [][GovParams' # GovParams =>
       \E c \in applied : GovParams' = MergeGovParams(GovParams, c)]_govVars

(* Every proposal comes to its end: it is removed or applied.  "the        *)
(* proposal will be just removedProps".                                    *)
ProposalsEnd ==
  \A p \in Prop : p \in Open \cup Frozen ~> p \notin Open \cup Frozen

=============================================================================
