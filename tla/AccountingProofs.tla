-------------------------- MODULE AccountingProofs --------------------------
(***************************************************************************)
(* What is counted is what there is, for every value of the constants:     *)
(*   Gov        the tally of a proposal is what its voters have, and only  *)
(*              ballots decide, for all validators, powers, slash rates,   *)
(*              proposals and evidence;                                    *)
(*   NodeStop   a stop tears no block, with any number of callers,         *)
(*              connections, preparers and controllers.                    *)
(***************************************************************************)
EXTENDS Gov, NodeStop, TallyProofs

-----------------------------------------------------------------------------
(* Governance, Gov. *)

(* Open proposals are sound, undecided and follow the ballots; decided     *)
(* ones are no longer open.                                                *)
ProposalsInv ==
  /\ \A p \in Open : Sound(props[p]) /\ props[p].major = Nil /\ Follows(props[p], ballots[p])
  /\ \A p \in Frozen : IsProposal(frozen[p]) /\ IsDecided(frozen[p], ballots[p]) /\ p \notin Open

(* The ledger has the parameters that are in use after the next commit. *)
ParamsInv ==
  \/ newGovParams = Nil /\ ledger = GovParams
  \/ /\ phase = "ended" /\ newGovParams # Nil /\ ledger = newGovParams
     /\ \E c \in applied : newGovParams = MergeGovParams(GovParams, c)

Kinds ==
  /\ DOMAIN props = Prop /\ DOMAIN frozen = Prop /\ DOMAIN ballots = Prop
  /\ ledger \in Params /\ GovParams \in Params /\ newGovParams \in {Nil} \cup Params
  /\ validators \in ValidatorSets /\ phase \in {"committed", "block", "ended"}
  /\ applied \subseteq Params

GovIInv == Kinds /\ ProposalsInv /\ ParamsInv

LEMMA GovInitIInv == GovInit => GovIInv
BY GovAssumption, ProposalAssumption DEF GovInit, GovIInv, Kinds, ProposalsInv, ParamsInv, Open, Frozen

LEMMA GovNextIInv ==
  ASSUME GovIInv, [GovNext]_govVars
  PROVE  GovIInv'
<1>1. CASE \E p \in Prop, pl \in Payload : Proposing(p, pl)
  <2> PICK p \in Prop, pl \in Payload : Proposing(p, pl)
    BY <1>1
  <2> DEFINE q == NewGovProposal(pl, validators)
             b == [a \in DOMAIN validators |-> Nil]
  <2>1. /\ p \notin Open /\ p \notin Frozen /\ MayPropose(pl) /\ validators \in ValidatorSets
        /\ props' = [props EXCEPT ![p] = q] /\ ballots' = [ballots EXCEPT ![p] = b]
        /\ UNCHANGED <<frozen, ledger, GovParams, newGovParams, validators, phase, applied>>
    BY DEF Proposing, GovIInv, Kinds
  <2>2. Sound(q) /\ q.major = Nil /\ Follows(q, b)
    <3>1. validators \in [DOMAIN validators -> Nat \ {0}] /\ IsFiniteSet(DOMAIN validators)
      BY <2>1, GovAssumption
    <3>2. Len(pl.options) > 0
      BY <2>1 DEF MayPropose
    <3> QED
      BY <3>1, <3>2, GovAssumption, NewSound
  <2> HIDE DEF q, b
  <2>3. /\ DOMAIN props' = Prop /\ DOMAIN ballots' = Prop
        /\ props'[p] = q /\ ballots'[p] = b
        /\ \A o \in Prop \ {p} : props'[o] = props[o] /\ ballots'[o] = ballots[o]
    BY <2>1 DEF GovIInv, Kinds
  <2>4. ProposalsInv'
    <3>1. ASSUME NEW o \in Open' PROVE (Sound(props[o]) /\ props[o].major = Nil /\ Follows(props[o], ballots[o]))'
      BY <2>2, <2>3 DEF GovIInv, ProposalsInv, Open
    <3>2. ASSUME NEW o \in Frozen'
          PROVE  (IsProposal(frozen[o]) /\ IsDecided(frozen[o], ballots[o]) /\ o \notin Open)'
      <4>1. o \in Frozen /\ o \in Prop /\ o # p /\ frozen'[o] = frozen[o]
        BY <2>1 DEF Frozen
      <4> QED
        BY <2>3, <4>1 DEF GovIInv, ProposalsInv, Open
    <3> QED
      BY <3>1, <3>2 DEF ProposalsInv
  <2>5. Kinds' /\ ParamsInv'
    BY <2>1, <2>3 DEF GovIInv, Kinds, ParamsInv
  <2> QED
    BY <2>4, <2>5 DEF GovIInv
<1>2. CASE \E p \in Open : \E a \in DOMAIN props[p].voters, i \in DOMAIN props[p].options : Voting(p, a, i)
  <2> PICK p \in Open : \E a \in DOMAIN props[p].voters, i \in DOMAIN props[p].options : Voting(p, a, i)
    BY <1>2
  <2> PICK a \in DOMAIN props[p].voters, i \in DOMAIN props[p].options : Voting(p, a, i)
    OBVIOUS
  <2> DEFINE q == props[p]
             r == DoVote(q, a, i)
             b == ballots[p]
             b2 == [b EXCEPT ![a] = q.options[i].option]
  <2>1. /\ a \in DOMAIN q.voters /\ i \in DOMAIN q.options
        /\ props' = [props EXCEPT ![p] = r] /\ ballots' = [ballots EXCEPT ![p] = b2]
        /\ UNCHANGED <<frozen, ledger, GovParams, newGovParams, validators, phase, applied>>
    BY Zenon DEF Voting, MayVote
  <2>2. p \in Prop /\ Sound(q) /\ q.major = Nil /\ Follows(q, b) /\ p \notin Frozen
    BY DEF GovIInv, ProposalsInv, Open
  <2>3. /\ Sound(r) /\ r.major = q.major
        /\ DOMAIN r.voters = DOMAIN q.voters /\ DOMAIN r.options = DOMAIN q.options
        /\ \A c \in DOMAIN r.voters : r.voters[c].choice = IF c = a THEN i ELSE q.voters[c].choice
        /\ \A j \in DOMAIN r.options : r.options[j].option = q.options[j].option
    BY <2>1, <2>2, VoteKeeps
  <2> HIDE DEF r
  <2>4. Follows(r, b2)
    <3>1. i # 0 /\ \A c \in DOMAIN q.voters : q.voters[c].choice \in {0} \cup DOMAIN q.options
      BY <2>1, <2>2, SoundParts DEF Voter
    <3>2. DOMAIN q.voters \subseteq DOMAIN b2
      BY <2>2 DEF Follows
    <3>3. \A c \in DOMAIN q.voters : b2[c] = IF c = a THEN q.options[i].option ELSE b[c]
      BY <2>1, <2>2 DEF Follows
    <3> HIDE DEF b2, b, q
    <3> QED
      BY <2>1, <2>2, <2>3, <3>1, <3>2, <3>3 DEF Follows
  <2> HIDE DEF b2
  <2>5. /\ DOMAIN props' = Prop /\ DOMAIN ballots' = Prop
        /\ props'[p] = r /\ ballots'[p] = b2
        /\ \A o \in Prop \ {p} : props'[o] = props[o] /\ ballots'[o] = ballots[o]
    BY <2>1, <2>2 DEF GovIInv, Kinds
  <2>6. ProposalsInv'
    <3>1. ASSUME NEW o \in Open' PROVE (Sound(props[o]) /\ props[o].major = Nil /\ Follows(props[o], ballots[o]))'
      BY <2>2, <2>3, <2>4, <2>5 DEF GovIInv, ProposalsInv, Open
    <3>2. ASSUME NEW o \in Frozen'
          PROVE  (IsProposal(frozen[o]) /\ IsDecided(frozen[o], ballots[o]) /\ o \notin Open)'
      <4>1. o \in Frozen /\ o \in Prop /\ o # p /\ frozen'[o] = frozen[o]
        BY <2>1, <2>2 DEF Frozen
      <4> QED
        BY <2>5, <4>1 DEF GovIInv, ProposalsInv, Open
    <3> QED
      BY <3>1, <3>2 DEF ProposalsInv
  <2>7. Kinds' /\ ParamsInv'
    BY <2>1, <2>5 DEF GovIInv, Kinds, ParamsInv
  <2> QED
    BY <2>6, <2>7 DEF GovIInv
<1>3. CASE \E e \in Evidence : BeginBlock(e)
  <2> PICK e \in Evidence : BeginBlock(e)
    BY <1>3
  <2>1. Len(e) \in Nat
    <3>1. PICK n \in 0 .. MaxEvidence : e \in [1 .. n -> Byzantine]
      BY DEF Evidence
    <3>2. n \in Nat
      BY GovAssumption
    <3> QED
      BY <3>1, <3>2
  <2>2. /\ phase = "committed" /\ phase' = "block" /\ applied' = {}
        /\ props' = [p \in Prop |-> IF props[p] = Nil THEN Nil ELSE slashAll(NextHeight(props[p]), e)]
        /\ frozen' = [p \in Prop |-> NextHeight(frozen[p])]
        /\ UNCHANGED <<ledger, GovParams, newGovParams, validators, ballots>>
    BY DEF BeginBlock
  <2>3. ProposalsInv'
    <3>1. ASSUME NEW p \in Open' PROVE (Sound(props[p]) /\ props[p].major = Nil /\ Follows(props[p], ballots[p]))'
      <4> DEFINE q == props[p]
                 r == NextHeight(q)
                 t == slashAll(r, e)
      <4>1. p \in Prop /\ q # Nil /\ props'[p] = t /\ p \in Open /\ ballots'[p] = ballots[p]
        BY <2>2 DEF Open
      <4>2. Sound(q) /\ q.major = Nil /\ Follows(q, ballots[p])
        BY <4>1 DEF GovIInv, ProposalsInv
      <4>3. Sound(r) /\ Alike(q, r)
        BY <4>1, <4>2, Later DEF Sound
      <4> HIDE DEF r
      <4>4. Sound(t) /\ Alike(r, t)
        BY <2>1, <4>3, SlashAllKeeps
      <4> HIDE DEF t, q
      <4>5. Alike(q, t)
        BY <4>3, <4>4, AlikeTransitive
      <4>6. Follows(t, ballots[p]) /\ t.major = Nil
        BY <4>2, <4>4, <4>5, AlikeFollows DEF Alike
      <4> QED
        BY <4>1, <4>4, <4>6
    <3>2. ASSUME NEW p \in Frozen'
          PROVE  (IsProposal(frozen[p]) /\ IsDecided(frozen[p], ballots[p]) /\ p \notin Open)'
      <4>0. p \in Prop /\ frozen'[p] # Nil /\ ballots'[p] = ballots[p]
        BY <2>2 DEF Frozen
      <4>1. frozen'[p] = NextHeight(frozen[p])
        BY <2>2, <4>0, Zenon
      <4>2. frozen[p] # Nil /\ p \in Frozen
        BY <4>0, <4>1, Zenon DEF Frozen, NextHeight
      <4>3. IsProposal(frozen[p]) /\ IsDecided(frozen[p], ballots[p]) /\ p \notin Open
        BY <4>2 DEF GovIInv, ProposalsInv
      <4>4. IsProposal(NextHeight(frozen[p])) /\ IsDecided(NextHeight(frozen[p]), ballots[p])
        BY <4>2, <4>3, Later
      <4>5. props'[p] = Nil
        BY <2>2, <4>0, <4>3 DEF Open
      <4> QED
        BY <4>0, <4>1, <4>4, <4>5 DEF Open
    <3> QED
      BY <3>1, <3>2 DEF ProposalsInv
  <2>4. Kinds' /\ ParamsInv'
    BY <2>2 DEF GovIInv, Kinds, ParamsInv
  <2> QED
    BY <2>3, <2>4 DEF GovIInv
<1>4. CASE EndBlock
  <2> USE <1>4
  <2>MaxIn. ASSUME NEW S \in SUBSET Nat, IsFiniteSet(S), S # {}
            PROVE  Max(S) \in S
    <3> USE <2>MaxIn
    <3> DEFINE f == [x \in S |-> x]
    <3>1. NatOn(f, S)
      BY DEF NatOn
    <3>2. PICK x \in S : \A y \in S : f[x] >= f[y]
      BY <3>1, Largest, Zenon
    <3>3. \A y \in S : x >= y
      BY <3>2
    <3> QED
      BY <3>3, Zenon DEF Max
  <2> DEFINE fz == freezeProposals.frozen
             due == {p \in Prop : fz[p] # Nil /\ fz[p].apply <= 0}
             gov == {p \in due : fz[p].type = "govparams"}
             changed == [q \in Prop |-> [props[q] EXCEPT !.major = updateMajorOption(props[q])]]
  <2>1. \A p \in Prop : fz[p] = IF p \in Ended /\ updateMajorOption(props[p]) # Nil
                              THEN [props[p] EXCEPT !.major = updateMajorOption(props[p])] ELSE frozen[p]
    BY DEF freezeProposals
  <2>2. freezeProposals.open = [p \in Prop |-> IF p \in Ended THEN Nil ELSE props[p]]
    BY DEF freezeProposals
  <2>3. /\ phase = "block" /\ phase' = "ended" /\ validators' \in ValidatorSets
        /\ props' = [p \in Prop |-> IF p \in Ended THEN Nil ELSE props[p]]
        /\ newGovParams' = IF gov = {} THEN newGovParams
                           ELSE MergeGovParams(GovParams, fz[Max(gov)].major.option)
        /\ ledger' = IF newGovParams' = Nil THEN ledger ELSE newGovParams'
        /\ applied' = {fz[p].major.option : p \in gov}
        /\ frozen' = [p \in Prop |-> IF p \in due THEN Nil ELSE fz[p]]
        /\ UNCHANGED <<GovParams, ballots>>
    BY <2>2, Zenon DEF EndBlock, applyProposals
  <2> HIDE DEF fz, due, gov
  <2>4. ASSUME NEW p \in Prop, fz[p] # Nil
        PROVE  /\ IsProposal(fz[p]) /\ IsDecided(fz[p], ballots[p]) /\ props'[p] = Nil
               /\ fz[p].major \in Option
    <3>1. CASE p \in Ended /\ updateMajorOption(props[p]) # Nil
      <4>1. p \in Open
        BY <3>1 DEF Ended
      <4>2. Sound(props[p]) /\ props[p].major = Nil /\ Follows(props[p], ballots[p])
        BY <4>1 DEF GovIInv, ProposalsInv
      <4> DEFINE m == updateMajorOption(props[p])
                 r == [props[p] EXCEPT !.major = m]
      <4>3. IsProposal(r) /\ IsDecided(r, ballots[p])
        BY <3>1, <4>2, Decision
      <4>4. fz[p] = r
        BY <2>1, <3>1, Zenon
      <4>5. props'[p] = Nil
        BY <2>3, <3>1
      <4> HIDE DEF r
      <4>6. r.major \in Option
        BY <4>3 DEF IsProposal, Proposal, IsDecided
      <4> QED
        BY <4>3, <4>4, <4>5, <4>6, Zenon
    <3>2. CASE ~ (p \in Ended /\ updateMajorOption(props[p]) # Nil)
      <4>1. p \in Frozen /\ fz[p] = frozen[p]
        BY <2>1, <2>4, <3>2, Zenon DEF Frozen
      <4>2. IsProposal(frozen[p]) /\ IsDecided(frozen[p], ballots[p]) /\ p \notin Open
        BY <4>1 DEF GovIInv, ProposalsInv
      <4>3. frozen[p].major \in Option
        BY <4>2 DEF IsProposal, Proposal, IsDecided
      <4> QED
        BY <2>3, <4>1, <4>2, <4>3 DEF Open
    <3> QED
      BY <3>1, <3>2
  <2>5. ProposalsInv'
    <3>1. ASSUME NEW p \in Open' PROVE (Sound(props[p]) /\ props[p].major = Nil /\ Follows(props[p], ballots[p]))'
      <4>1. p \in Open /\ props'[p] = props[p] /\ ballots'[p] = ballots[p]
        BY <2>3 DEF Open
      <4> QED
        BY <4>1 DEF GovIInv, ProposalsInv
    <3>2. ASSUME NEW p \in Frozen'
          PROVE  (IsProposal(frozen[p]) /\ IsDecided(frozen[p], ballots[p]) /\ p \notin Open)'
      <4>1. p \in Prop /\ frozen'[p] = fz[p] /\ fz[p] # Nil /\ ballots'[p] = ballots[p]
        BY <2>3 DEF Frozen
      <4> QED
        BY <2>4, <4>1 DEF Open
    <3> QED
      BY <3>1, <3>2 DEF ProposalsInv
  <2>6. ParamsInv' /\ newGovParams' \in {Nil} \cup Params /\ ledger' \in Params /\ applied' \subseteq Params
    <3>0. newGovParams = Nil /\ ledger = GovParams /\ GovParams \in Params
      BY <2>3 DEF GovIInv, ParamsInv, Kinds
    <3>1. gov \subseteq Prop /\ \A p \in gov : fz[p] # Nil
      BY DEF gov, due
    <3>2. \A p \in gov : fz[p].major.option \in Params
      BY <2>4, <3>1 DEF Option
    <3>3. applied' \subseteq Params
      BY <2>3, <3>2
    <3>4. CASE gov = {}
      BY <2>3, <3>0, <3>3, <3>4 DEF ParamsInv
    <3>5. CASE gov # {}
      <4>1. Max(gov) \in gov
        <5>1. gov \in SUBSET Nat /\ IsFiniteSet(gov)
          BY <3>1, GovAssumption, FiniteSubset
        <5> QED
          BY <3>5, <5>1, <2>MaxIn
      <4> DEFINE c == fz[Max(gov)].major.option
      <4>2. c \in applied' /\ c \in Params
        BY <2>3, <3>2, <4>1
      <4>3. newGovParams' = MergeGovParams(GovParams, c)
        BY <2>3, <3>5
      <4> HIDE DEF c
      <4>4. MergeGovParams(GovParams, c) \in Params
        BY <3>0, <4>2 DEF MergeGovParams, Params
      <4>5. newGovParams' # Nil
        BY <4>3, <4>4, ProposalAssumption
      <4>6. ledger' = newGovParams' /\ GovParams' = GovParams
        BY <2>3, <4>5
      <4> QED
        BY <2>3, <3>3, <4>2, <4>3, <4>4, <4>5, <4>6 DEF ParamsInv
    <3> QED
      BY <3>4, <3>5
  <2>7. Kinds'
    BY <2>3, <2>6 DEF GovIInv, Kinds
  <2> QED
    BY <2>5, <2>6, <2>7 DEF GovIInv
<1>5. CASE Commit \/ Restart
  <2>1. UNCHANGED <<props, frozen, ledger, validators, ballots, applied>> /\ newGovParams' = Nil
    BY <1>5 DEF Commit, Restart
  <2>2. ProposalsInv'
    BY <2>1 DEF GovIInv, ProposalsInv, Open, Frozen
  <2>3. GovParams' = ledger
    BY <1>5 DEF Commit, Restart, GovIInv, ParamsInv
  <2>4. phase' \in {"committed", "block", "ended"}
    BY <1>5 DEF Commit, Restart, GovIInv, Kinds
  <2> QED
    BY <2>1, <2>2, <2>3, <2>4 DEF GovIInv, Kinds, ParamsInv
<1>6. CASE UNCHANGED govVars
  BY <1>6 DEF govVars, GovIInv, Kinds, ProposalsInv, ParamsInv, Open, Frozen
<1> QED
  BY <1>1, <1>2, <1>3, <1>4, <1>5, <1>6 DEF GovNext

(* What has been counted for a proposal is what its voters have, at all    *)
(* times.                                                                  *)
THEOREM GovTallied == GovSpec => []Tallied
<1>1. GovIInv => Tallied
  BY DEF GovIInv, Kinds, ProposalsInv, Tallied, GovTypeOK, Sound
<1> QED
  BY <1>1, GovInitIInv, GovNextIInv, PTL DEF GovSpec

(* Proposals are decided by the ballots of their voting periods. *)
THEOREM GovDecided == GovSpec => []DecidedByBallots
<1>1. GovIInv => DecidedByBallots
  BY DEF GovIInv, ProposalsInv, DecidedByBallots
<1> QED
  BY <1>1, GovInitIInv, GovNextIInv, PTL DEF GovSpec

(* The parameters in use change to what a proposal says, and to nothing    *)
(* else, restarts included.                                                *)
THEOREM GovParamsByVote == GovSpec => ParamsChangeByVote
<1> DEFINE Step == GovParams' # GovParams => \E c \in applied : GovParams' = MergeGovParams(GovParams, c)
<1>1. ASSUME GovIInv, [GovNext]_govVars PROVE [Step]_govVars
  <2>1. CASE Commit
    BY <1>1, <2>1 DEF Commit, GovIInv, ParamsInv
  <2>2. CASE Restart
    BY <1>1, <2>2 DEF Restart, GovIInv, ParamsInv
  <2>3. CASE ~ (Commit \/ Restart)
    <3>1. GovParams' = GovParams
      BY <1>1, <2>3 DEF GovNext, Proposing, Voting, BeginBlock, EndBlock, govVars
    <3> QED
      BY <3>1
  <2> QED
    BY <2>1, <2>2, <2>3
<1> QED
  BY <1>1, GovInitIInv, GovNextIInv, PTL DEF GovSpec, ParamsChangeByVote

-----------------------------------------------------------------------------
(* Stopping, NodeStop. *)

(* The contexts asked for and not made, in all the queues. *)
Preparers == 1 .. Workers
Waiting == SumFunctionOnSet(queue, Preparers)

StopTypes ==
  /\ pc \in [Threads \cup {Signal} -> {"idle", "client", "app", "failed", "stop", "closing"}]
  /\ queue \in [1 .. Workers -> Nat] /\ pending \in Nat
  /\ version \in [1 .. Ctrlers -> Nat] /\ height \in Nat

(* Who waits for the mutex of the application will take it, and Stop is    *)
(* called once for every connection.                                       *)
Mutexes ==
  /\ StopTypeOK
  /\ \A t \in Threads : pc[t] = "client" => TakesAppMtx(t)
  /\ pc[Signal] = "closing" => stops < Conns
  /\ call = "DeliverTx" => asked < MaxAsked
  /\ call \in {"Commit", "BeginBlock"} => asked = 0

(* The WaitGroup counts the contexts, and a new block starts with none. *)
Contexts ==
  /\ pending = Waiting
  /\ call \in {"Commit", "BeginBlock"} => pending = 0

(* The controllers differ only while consensus is inside of Commit, and no *)
(* controller is closed by then.                                           *)
Together ==
  closed # {} \/ pc[Consensus] # "app" \/ call # "Commit" =>
    \A c \in 1 .. Ctrlers : version[c] = height

StopIInv == StopTypes /\ Mutexes /\ Contexts /\ Together

LEMMA Names ==
  /\ Signal \notin Threads /\ None \notin Threads /\ None # Signal
  /\ Consensus \in Threads /\ TakesAppMtx(Consensus)
  /\ \A t \in Callers : t # Consensus /\ t \in Threads
  BY NodeStopAssumption DEF Threads, Consensus, Signal, TakesAppMtx

LEMMA QueuesFinite == IsFiniteSet(Preparers)
  BY FiniteInterval, NodeStopAssumption DEF Preparers

(* No context is wanted when the count is zero. *)
LEMMA NoneWaiting ==
  ASSUME StopIInv, pending = 0
  PROVE  \A w \in 1 .. Workers : queue[w] = 0
<1> SUFFICES ASSUME NEW w \in 1 .. Workers PROVE queue[w] = 0
  OBVIOUS
<1>1. NatOn(queue, Preparers) /\ queue[w] \in Nat /\ w \in Preparers
  BY DEF StopIInv, StopTypes, NatOn, Preparers
<1>2. queue[w] =< Waiting
  BY <1>1, QueuesFinite, SumTerm, Zenon DEF Waiting
<1>3. Waiting = 0
  BY DEF StopIInv, Contexts
<1>4. QED
  BY <1>1, <1>2, <1>3

(* The inductive invariant of NodeStop. *)
THEOREM StopIInvHolds == StopSpec => []StopIInv
<1>StopInitIInv. StopInit => StopIInv
  <2> SUFFICES ASSUME StopInit PROVE StopIInv
    OBVIOUS
  <2>1. StopTypes /\ Together
    BY NodeStopAssumption DEF StopInit, StopTypes, Together
  <2>2. Mutexes
    <3>1. {done, exited} \subseteq BOOLEAN
      BY Zenon DEF StopInit
    <3>2. stops \in 0 .. Conns /\ asked \in 0 .. MaxAsked
      BY NodeStopAssumption DEF StopInit
    <3>3. \A t \in Threads \cup {Signal} : pc[t] = "idle" /\ cmtx # t /\ amtx # t
      BY Names, Zenon DEF StopInit
    <3>4. QED
      BY <3>1, <3>2, <3>3 DEF StopInit, Mutexes, StopTypeOK
  <2>3. Waiting = 0
    BY QueuesFinite, SumNoTerms, Zenon DEF StopInit, Preparers, Waiting
  <2>4. Contexts
    BY <2>3 DEF StopInit, Contexts
  <2>5. QED
    BY <2>1, <2>2, <2>4 DEF StopIInv
(* A step that leaves the queues alone. *)
<1>ContextsKept. ASSUME StopIInv, UNCHANGED <<queue, pending>>,
                        call' \in {"Commit", "BeginBlock"} => pending = 0
                 PROVE  Contexts'
  <2> USE <1>ContextsKept
  <2>1. Waiting' = Waiting
    BY DEF Waiting
  <2>2. QED
    BY <2>1 DEF StopIInv, Contexts
<1>EnterStep. ASSUME StopIInv, NEW t \in Threads, Enter(t) PROVE StopIInv'
  <2> USE <1>EnterStep
  <2>1. StopTypes' /\ Mutexes'
    BY Names DEF Enter, StopIInv, StopTypes, Mutexes, StopTypeOK, preparer, stores
  <2>2. Contexts'
    BY <1>ContextsKept DEF Enter, preparer, StopIInv, Contexts
  <2>3. Together'
    BY DEF Enter, stores, StopIInv, StopTypes, Together
  <2>4. QED
    BY <2>1, <2>2, <2>3 DEF StopIInv
<1>LockStep. ASSUME StopIInv, NEW t \in Threads, Lock(t) PROVE StopIInv'
  <2> USE <1>LockStep
  <2>1. StopTypes' /\ Mutexes'
    BY Names DEF Lock, StopIInv, StopTypes, Mutexes, StopTypeOK, preparer, stores
  <2>2. Contexts'
    BY <1>ContextsKept DEF Lock, preparer, StopIInv, Contexts
  <2>3. Together'
    BY DEF Lock, stores, StopIInv, StopTypes, Together
  <2>4. QED
    BY <2>1, <2>2, <2>3 DEF StopIInv
(* A call that returns, or panics, releases what it has. *)
<1>Released. ASSUME StopIInv, NEW t \in Threads, NEW to \in {"idle", "failed"}, pc[t] = "app",
                    Release(t), pc' = [pc EXCEPT ![t] = to]
             PROVE  /\ pc' \in [Threads \cup {Signal} -> {"idle", "client", "app", "failed", "stop", "closing"}]
                    /\ \A u \in Threads :
                         /\ pc'[u] \in {"idle", "client", "app", "failed"}
                         /\ (cmtx' = u) <=> (pc'[u] \in {"client", "app"})
                         /\ (amtx' = u) <=> (pc'[u] = "app" /\ TakesAppMtx(u))
                         /\ pc'[u] = "client" => TakesAppMtx(u)
                    /\ pc'[Signal] = pc[Signal]
                    /\ (amtx' = Signal) <=> (pc'[Signal] = "closing")
  <2> USE <1>Released
  <2>1. pc'[t] = to /\ \A u \in Threads \cup {Signal} : u # t => pc'[u] = pc[u]
    BY DEF StopIInv, StopTypes
  <2>2. cmtx = t /\ cmtx' = None /\ \A u \in Threads : u # t => pc[u] \notin {"client", "app"}
    BY DEF Release, StopIInv, Mutexes, StopTypeOK
  <2>3. /\ amtx' # t /\ \A u \in Threads : u # t => amtx' # u
        /\ (amtx' = Signal) <=> (amtx = Signal)
    BY <2>2, Names DEF Release, StopIInv, Mutexes, StopTypeOK
  <2>4. QED
    BY <2>1, <2>2, <2>3, Names DEF StopIInv, StopTypes, Mutexes, StopTypeOK
<1>ServeStep. ASSUME StopIInv, NEW t \in Threads, Serve(t) PROVE StopIInv'
  <2> USE <1>ServeStep
  <2>1. /\ pc[t] = "app" /\ t # Consensus /\ Release(t) /\ pc' = [pc EXCEPT ![t] = "idle"]
        /\ UNCHANGED <<call, queue, gone, pending, asked, done, version, closed, height, stops, exited>>
    BY DEF Serve, ReturnCall, preparer, stores
  <2>2. StopTypes' /\ Mutexes'
    BY <2>1, <1>Released, Zenon DEF StopIInv, StopTypes, Mutexes, StopTypeOK
  <2>3. Contexts'
    BY <2>1, <1>ContextsKept DEF StopIInv, Contexts
  <2>4. Together'
    BY <2>1, Names DEF StopIInv, StopTypes, Together
  <2>5. QED
    BY <2>2, <2>3, <2>4 DEF StopIInv
<1>FailsStep. ASSUME StopIInv, Fails PROVE StopIInv'
  <2> USE <1>FailsStep
  <2>1. /\ pc[Consensus] = "app" /\ Release(Consensus) /\ pc' = [pc EXCEPT ![Consensus] = "failed"]
        /\ closed # {}
        /\ UNCHANGED <<call, queue, gone, pending, asked, done, version, closed, height, stops, exited>>
    BY DEF Fails, preparer, stores
  <2>2. StopTypes' /\ Mutexes'
    BY <2>1, <1>Released, Names, Zenon DEF StopIInv, StopTypes, Mutexes, StopTypeOK
  <2>3. Contexts'
    BY <2>1, <1>ContextsKept DEF StopIInv, Contexts
  <2>4. Together'
    BY <2>1 DEF StopIInv, Together
  <2>5. QED
    BY <2>2, <2>3, <2>4 DEF StopIInv
<1>BeginBlockStep. ASSUME StopIInv, ServeBeginBlock PROVE StopIInv'
  <2> USE <1>BeginBlockStep
  <2>1. /\ pc[Consensus] = "app" /\ Release(Consensus) /\ pc' = [pc EXCEPT ![Consensus] = "idle"]
        /\ call = "BeginBlock" /\ call' \in {"DeliverTx", "EndBlock"}
        /\ UNCHANGED <<queue, gone, pending, asked, done, version, closed, height, stops, exited>>
    BY DEF ServeBeginBlock, Executing, ReturnCall, preparer, stores
  <2>2. StopTypes' /\ Mutexes'
    <3>1. asked' \in 0 .. MaxAsked /\ (call' = "DeliverTx" => asked' < MaxAsked)
      BY <2>1, NodeStopAssumption DEF StopIInv, Mutexes
    <3>2. QED
      BY <2>1, <3>1, <1>Released, Names, Zenon DEF StopIInv, StopTypes, Mutexes, StopTypeOK
  <2>3. Contexts'
    BY <2>1, <1>ContextsKept
  <2>4. Together'
    BY <2>1 DEF StopIInv, Together
  <2>5. QED
    BY <2>2, <2>3, <2>4 DEF StopIInv
<1>DeliverTxStep. ASSUME StopIInv, DeliverTx PROVE StopIInv'
  <2> USE <1>DeliverTxStep
  <2> DEFINE w == (asked % Workers) + 1
  <2>1. /\ pc[Consensus] = "app" /\ Release(Consensus) /\ pc' = [pc EXCEPT ![Consensus] = "idle"]
        /\ call = "DeliverTx" /\ call' \in {"DeliverTx", "EndBlock"}
        /\ call' = "DeliverTx" => asked' < MaxAsked
        /\ asked' = asked + 1 /\ pending' = pending + 1
        /\ queue' = [queue EXCEPT ![w] = queue[w] + 1]
        /\ UNCHANGED <<gone, done, version, closed, height, stops, exited>>
    BY DEF DeliverTx, Executing, ReturnCall, stores
  <2>2. /\ asked \in Nat /\ Workers \in Nat \ {0} /\ MaxAsked \in Nat /\ asked < MaxAsked
        /\ queue \in [1 .. Workers -> Nat] /\ pending \in Nat
    BY <2>1, NodeStopAssumption DEF StopIInv, StopTypes, Mutexes, StopTypeOK
  <2>3. w \in 1 .. Workers
    BY <2>2
  <2> HIDE DEF w
  <2>4. StopTypes'
    BY <2>1, <2>2, <2>3, <1>Released, Names DEF StopIInv, StopTypes
  <2>5. Mutexes'
    <3>1. asked' \in 0 .. MaxAsked
      BY <2>1, <2>2
    <3>2. QED
      BY <2>1, <3>1, <1>Released, Names, Zenon DEF StopIInv, Mutexes, StopTypeOK
  <2>6. Contexts'
    <3>1. queue \in [1 .. Workers -> Int] /\ queue[w] \in Nat /\ queue[w] + 1 \in Int
      BY <2>2, <2>3
    <3>2. queue'[w] = queue[w] + 1 /\ Waiting' = Waiting - queue[w] + queue'[w]
      <4>1. queue'[w] = queue[w] + 1
        BY <2>1, <2>3, <3>1
      <4>2. queue' \in [1 .. Workers -> Int]
        BY <2>1, <2>3, <3>1
      <4>3. IntOn(queue, Preparers) /\ IntOn(queue', Preparers) /\ w \in Preparers
        BY <3>1, <4>2, <2>3 DEF IntOn, Preparers
      <4>4. SameBut(queue, queue', Preparers, w)
        BY <2>1, <2>3, <3>1 DEF SameBut, Preparers
      <4>5. Waiting' = Waiting - queue[w] + queue'[w]
        BY <4>3, <4>4, QueuesFinite, SumUpdate DEF Waiting
      <4>6. QED
        BY <4>1, <4>5
    <3>3. Waiting = pending
      BY DEF StopIInv, Contexts
    <3>4. QED
      BY <2>1, <2>2, <3>1, <3>2, <3>3 DEF Contexts
  <2>7. Together'
    BY <2>1 DEF StopIInv, Together
  <2>8. QED
    BY <2>4, <2>5, <2>6, <2>7 DEF StopIInv
<1>EndBlockStep. ASSUME StopIInv, ServeEndBlock PROVE StopIInv'
  <2> USE <1>EndBlockStep
  <2>1. /\ pc[Consensus] = "app" /\ Release(Consensus) /\ pc' = [pc EXCEPT ![Consensus] = "idle"]
        /\ call = "EndBlock" /\ call' = "Commit" /\ pending = 0 /\ asked' = 0
        /\ UNCHANGED <<queue, gone, pending, done, version, closed, height, stops, exited>>
    BY DEF ServeEndBlock, Executing, ReturnCall, stores
  <2>2. StopTypes' /\ Mutexes'
    <3>1. asked' \in 0 .. MaxAsked /\ (call' = "DeliverTx" => asked' < MaxAsked)
      BY <2>1, NodeStopAssumption DEF StopIInv, Mutexes
    <3>2. QED
      BY <2>1, <3>1, <1>Released, Names, Zenon DEF StopIInv, StopTypes, Mutexes, StopTypeOK
  <2>3. Contexts'
    BY <2>1, <1>ContextsKept
  <2>4. Together'
    BY <2>1 DEF StopIInv, Together
  <2>5. QED
    BY <2>2, <2>3, <2>4 DEF StopIInv
<1>CommitCtrlerStep. ASSUME StopIInv, NEW c \in 1 .. Ctrlers, ServeCommitCtrler(c) PROVE StopIInv'
  <2> USE <1>CommitCtrlerStep
  <2>1. /\ pc[Consensus] = "app" /\ call = "Commit" /\ closed = {}
        /\ version' = [version EXCEPT ![c] = height + 1]
        /\ UNCHANGED <<cmtx, amtx, pc, call, queue, gone, pending, asked, done, closed, height,
                       stops, exited>>
    BY DEF ServeCommitCtrler, Executing, preparer
  <2>2. StopTypes' /\ Mutexes'
    BY <2>1 DEF StopIInv, StopTypes, Mutexes, StopTypeOK
  <2>3. Contexts'
    BY <2>1, <1>ContextsKept DEF StopIInv, Contexts
  <2>4. Together'
    BY <2>1 DEF Together
  <2>5. QED
    BY <2>2, <2>3, <2>4 DEF StopIInv
<1>CommitDoneStep. ASSUME StopIInv, CommitDone PROVE StopIInv'
  <2> USE <1>CommitDoneStep
  <2>1. /\ pc[Consensus] = "app" /\ Release(Consensus) /\ pc' = [pc EXCEPT ![Consensus] = "idle"]
        /\ call = "Commit" /\ call' = "BeginBlock" /\ height' = height + 1
        /\ \A c \in 1 .. Ctrlers : version[c] = height + 1
        /\ UNCHANGED <<queue, gone, pending, asked, done, version, closed, stops, exited>>
    BY DEF CommitDone, Executing, ReturnCall, preparer
  <2>2. StopTypes' /\ Mutexes'
    <3>1. StopTypes'
      BY <2>1, <1>Released, Names DEF StopIInv, StopTypes
    <3>2. Mutexes'
      BY <2>1, <1>Released, Names, Zenon DEF StopIInv, Mutexes, StopTypeOK
    <3>3. QED
      BY <3>1, <3>2
  <2>3. Contexts'
    BY <2>1, <1>ContextsKept DEF StopIInv, Contexts
  <2>4. Together'
    BY <2>1 DEF Together
  <2>5. QED
    BY <2>2, <2>3, <2>4 DEF StopIInv
<1>PrepareStep. ASSUME StopIInv, NEW w \in 1 .. Workers, Prepare(w) PROVE StopIInv'
  <2> USE <1>PrepareStep
  <2>1. /\ queue[w] > 0 /\ queue' = [queue EXCEPT ![w] = queue[w] - 1] /\ pending' = pending - 1
        /\ UNCHANGED <<cmtx, amtx, pc, call, gone, asked, done, version, closed, height, stops, exited>>
    BY DEF Prepare, stores
  <2>2. queue \in [1 .. Workers -> Nat] /\ pending \in Nat
    BY DEF StopIInv, StopTypes
  <2>3. pending # 0
    BY <2>1, <2>2, NoneWaiting
  <2>4. StopTypes' /\ Mutexes' /\ Together'
    <3>1. queue' \in [1 .. Workers -> Nat] /\ pending' \in Nat
      BY <2>1, <2>2, <2>3
    <3>2. StopTypes' /\ Together'
      BY <2>1, <3>1 DEF StopIInv, StopTypes, Together
    <3>3. Mutexes'
      BY <2>1 DEF StopIInv, Mutexes, StopTypeOK
    <3>4. QED
      BY <3>2, <3>3
  <2>5. Contexts'
    <3>1. queue \in [1 .. Workers -> Int] /\ queue[w] \in Nat /\ queue[w] - 1 \in Int
      BY <2>2
    <3>2. queue'[w] = queue[w] - 1 /\ Waiting' = Waiting - queue[w] + queue'[w]
      <4>1. queue'[w] = queue[w] - 1
        BY <2>1, <3>1
      <4>2. queue' \in [1 .. Workers -> Int]
        BY <2>1, <3>1
      <4>3. IntOn(queue, Preparers) /\ IntOn(queue', Preparers) /\ w \in Preparers
        BY <3>1, <4>2 DEF IntOn, Preparers
      <4>4. SameBut(queue, queue', Preparers, w)
        BY <2>1, <3>1 DEF SameBut, Preparers
      <4>5. Waiting' = Waiting - queue[w] + queue'[w]
        BY <4>3, <4>4, QueuesFinite, SumUpdate DEF Waiting
      <4>6. QED
        BY <4>1, <4>5
    <3>3. Waiting = pending /\ (call \in {"Commit", "BeginBlock"} => pending = 0)
      BY DEF StopIInv, Contexts
    <3>4. QED
      BY <2>1, <2>2, <2>3, <3>1, <3>2, <3>3 DEF Contexts
  <2>6. QED
    BY <2>4, <2>5 DEF StopIInv
(* A preparer that panics or ends, the signal, and the exit. *)
<1>EndingStep. ASSUME StopIInv, \/ \E w \in 1 .. Workers : PrepareFails(w) \/ Quit(w)
                            \/ TrapSignal \/ Exit
               PROVE  StopIInv'
  <2> USE <1>EndingStep
  <2>1. UNCHANGED <<cmtx, amtx, call, queue, pending, asked, done, version, closed, height, stops>>
    BY DEF PrepareFails, Quit, TrapSignal, Exit, preparer, stores
  <2>2. /\ gone' \subseteq 1 .. Workers /\ exited' \in BOOLEAN
        /\ pc' = pc \/ (pc[Signal] = "idle" /\ pc' = [pc EXCEPT ![Signal] = "stop"])
    BY Zenon DEF PrepareFails, Quit, TrapSignal, Exit, preparer, StopIInv, Mutexes, StopTypeOK
  <2>3. StopTypes' /\ Mutexes'
    BY <2>1, <2>2, Names DEF StopIInv, StopTypes, Mutexes, StopTypeOK
  <2>4. Contexts'
    BY <2>1, <1>ContextsKept DEF StopIInv, Contexts
  <2>5. Together'
    BY <2>1, <2>2, Names DEF StopIInv, StopTypes, Together
  <2>6. QED
    BY <2>3, <2>4, <2>5 DEF StopIInv
<1>StopBegins. ASSUME StopIInv, Stop PROVE StopIInv'
  <2> USE <1>StopBegins
  <2>1. StopTypes' /\ Mutexes'
    BY Names DEF Stop, stores, StopIInv, StopTypes, Mutexes, StopTypeOK
  <2>2. Contexts'
    BY <1>ContextsKept DEF Stop, StopIInv, Contexts
  <2>3. Together'
    BY Names DEF Stop, stores, StopIInv, StopTypes, Together
  <2>4. QED
    BY <2>1, <2>2, <2>3 DEF StopIInv
(* Stop closes while it has the mutex, so that consensus is outside of     *)
(* Commit.                                                                 *)
<1>CloseStep. ASSUME StopIInv, NEW c \in 1 .. Ctrlers, Close(c) PROVE StopIInv'
  <2> USE <1>CloseStep
  <2>1. pc[Consensus] # "app"
    BY Names DEF Close, StopIInv, Mutexes, StopTypeOK
  <2>2. StopTypes' /\ Mutexes'
    BY DEF Close, preparer, StopIInv, StopTypes, Mutexes, StopTypeOK
  <2>3. Contexts'
    BY <1>ContextsKept DEF Close, preparer, StopIInv, Contexts
  <2>4. Together'
    BY <2>1 DEF Close, StopIInv, Together
  <2>5. QED
    BY <2>2, <2>3, <2>4 DEF StopIInv
<1>StoppedStep. ASSUME StopIInv, Stopped PROVE StopIInv'
  <2> USE <1>StoppedStep
  <2>1. StopTypes' /\ Mutexes'
    <3>1. stops' \in 0 .. Conns
      BY NodeStopAssumption DEF Stopped, StopIInv, Mutexes, StopTypeOK
    <3>2. QED
      BY <3>1, Names DEF Stopped, preparer, stores, StopIInv, StopTypes, Mutexes, StopTypeOK
  <2>2. Contexts'
    BY <1>ContextsKept DEF Stopped, preparer, StopIInv, Contexts
  <2>3. Together'
    BY Names DEF Stopped, stores, StopIInv, StopTypes, Together
  <2>4. QED
    BY <2>1, <2>2, <2>3 DEF StopIInv
<1>1. StopIInv /\ [StopNext]_stopVars => StopIInv'
  <2> SUFFICES ASSUME StopIInv, [StopNext]_stopVars PROVE StopIInv'
    OBVIOUS
  <2>1. CASE ConsensusStep
    BY <2>1, <1>LockStep, <1>FailsStep, <1>BeginBlockStep, <1>DeliverTxStep, <1>EndBlockStep, <1>CommitCtrlerStep,
       <1>CommitDoneStep, Names DEF ConsensusStep
  <2>2. ASSUME NEW t \in Callers, CallerStep(t) PROVE StopIInv'
    BY <2>2, <1>LockStep, <1>ServeStep, Names DEF CallerStep
  <2>3. ASSUME NEW w \in 1 .. Workers, WorkerStep(w) PROVE StopIInv'
    BY <2>3, <1>PrepareStep, <1>EndingStep DEF WorkerStep
  <2>4. CASE TrapSignal \/ Stop \/ StopStep
    BY <2>4, <1>EndingStep, <1>StopBegins, <1>CloseStep, <1>StoppedStep DEF StopStep
  <2>5. CASE UNCHANGED stopVars
    <3>1. StopTypes' /\ Mutexes' /\ Together'
      BY <2>5 DEF stopVars, StopIInv, StopTypes, Mutexes, StopTypeOK, Together
    <3>2. Contexts'
      BY <2>5, <1>ContextsKept DEF stopVars, StopIInv, Contexts
    <3>3. QED
      BY <3>1, <3>2 DEF StopIInv
  <2>6. QED
    BY <2>1, <2>2, <2>3, <2>4, <2>5, <1>EnterStep DEF StopNext
<1>2. QED
  BY <1>StopInitIInv, <1>1, PTL DEF StopSpec

(* However many goroutines call and whenever the signal comes, no block is *)
(* torn by a stop, and no preparer is at work when the controllers are     *)
(* committed.                                                              *)
THEOREM StopTearsNoBlock == StopSpec => []StopKeepsBlocks
<1>1. StopIInv => StopKeepsBlocks
  BY NoneWaiting DEF StopIInv, Mutexes, Contexts, Together, StopKeepsBlocks
<1>2. QED
  BY <1>1, StopIInvHolds, PTL

=============================================================================
