---------------------------- MODULE GovProposal ----------------------------
(***************************************************************************)
(* A proposal of governance, ctrlers/gov/proposal: its voters and options, *)
(* votes, the slashing of voters, and the option that decides.             *)
(*                                                                         *)
(* The choice of a voter is the number of an option, and 0 stands for the  *)
(* code's -1.                                                              *)
(***************************************************************************)
EXTENDS Integers, FiniteSets, FiniteSetsExt, Sequences, Functions

CONSTANTS
  Field,      \* the fields of GovParams
  SlashRate,  \* of the governance parameters, in percent
  Nil

Params == [Field -> Nat]

ASSUME ProposalAssumption == Nil \notin Params /\ SlashRate \in 0 .. 100

TwoThirds(n) == (n * 2) \div 3

(* NewGovProposal of what a transaction proposes, and AddVoter of the      *)
(* validators, from address to power.                                      *)
NewGovProposal(pl, vals) ==
  [type     |-> pl.type, start |-> pl.start, end |-> pl.start + pl.period, apply |-> pl.apply,
   total    |-> SumFunction(vals), majority |-> TwoThirds(SumFunction(vals)),
   voters   |-> [a \in DOMAIN vals |-> [power |-> vals[a], choice |-> 0]],
   options  |-> [i \in DOMAIN pl.options |-> [option |-> pl.options[i], votes |-> 0]],
   major    |-> Nil]

cancelVote(os, v) == IF v.choice = 0 THEN os ELSE [os EXCEPT ![v.choice].votes = @ - v.power]

castVote(os, v, i) == [os EXCEPT ![i].votes = @ + v.power]

(* Mutant: the previous vote is not cancelled. *)
DoVoteTwice(q, a, i) ==
  IF q.voters[a].choice = i THEN q
  ELSE [q EXCEPT !.options = castVote(@, q.voters[a], i), !.voters[a].choice = i]

(* DoVote: the previous vote is cancelled, the same one changes nothing. *)
DoVote(q, a, i) ==
  IF q.voters[a].choice = i THEN q
  ELSE [q EXCEPT !.options = castVote(cancelVote(@, q.voters[a]), q.voters[a], i),
                 !.voters[a].choice = i]

Slash(power) ==
  LET part == (power * SlashRate) \div 100 IN IF part <= 0 THEN power ELSE part

(* DoSlash of one proposal: the vote is cast again with what power is      *)
(* left; a voter without power is removed.                                 *)
DoSlash(q, a) ==
  IF a \notin DOMAIN q.voters THEN q
  ELSE LET v    == q.voters[a]
           left == [v EXCEPT !.power = @ - Slash(v.power)]
           os   == cancelVote(q.options, v)
       IN  [q EXCEPT
              !.voters = IF left.power > 0 THEN [@ EXCEPT ![a] = left]
                         ELSE Restrict(@, DOMAIN @ \ {a}),
              !.options = IF v.choice > 0 /\ left.power > 0 THEN castVote(os, left, v.choice) ELSE os,
              !.total = @ - Slash(v.power),
              !.majority = TwoThirds(q.total - Slash(v.power))]

(* The voters of the evidence, one after the other. *)
slashAll(q, evidence) ==
  LET after[n \in 0 .. Len(evidence)] ==
        IF n = 0 THEN q ELSE DoSlash(after[n - 1], evidence[n])
  IN  after[Len(evidence)]

Back(n) == IF n < 0 THEN n ELSE n - 1
NextHeight(q) ==
  IF q = Nil THEN Nil ELSE [q EXCEPT !.start = Back(@), !.end = Back(@), !.apply = Back(@)]

Lead(q) == Min({i \in DOMAIN q.options : \A j \in DOMAIN q.options : q.options[i].votes >= q.options[j].votes})

(* updateMajorOption: the first of the options with the most votes. *)
updateMajorOption(q) ==
  IF q.options[Lead(q)].votes >= q.majority THEN q.options[Lead(q)] ELSE q.major

-----------------------------------------------------------------------------
(* What a proposal is, and when its tally and its decision are right. *)

Option == [option : Params, votes : Nat]
Proposal(voter, choice) ==
  [type : {"govparams", "common"}, start : Int, end : Int, apply : Int, total : Nat, majority : Nat,
   voters : [voter -> [power : Nat \ {0}, choice : {0} \cup choice]],
   options : [choice -> Option], major : {Nil} \cup Option]
IsProposal(q) == q \in Proposal(DOMAIN q.voters, DOMAIN q.options)

Powers(q) == [a \in DOMAIN q.voters |-> q.voters[a].power]
Choosing(q, i) == {a \in DOMAIN q.voters : q.voters[a].choice = i}

(* The votes of every option are the powers its voters have now,           *)
(* TotalVotingPower is the sum of all of them and MajorityPower two thirds *)
(* of it.                                                                  *)
IsTallied(q) ==
  /\ \A i \in DOMAIN q.options : q.options[i].votes = SumFunctionOnSet(Powers(q), Choosing(q, i))
  /\ q.total = SumFunction(Powers(q)) /\ q.majority = TwoThirds(q.total)

(* With b the last ballot of each voter: the major option has two thirds   *)
(* of the power, no other option has more, and someone voted for it unless *)
(* all of the power but one unit was slashed away.                         *)
Balloted(q, b, o) == {a \in DOMAIN q.voters : b[a] = o}
IsDecided(q, b) ==
  LET forOption(o) == SumFunctionOnSet(Powers(q), Balloted(q, b, o))
  IN  /\ q.major # Nil
      /\ forOption(q.major.option) >= TwoThirds(q.total)
      /\ \A i \in DOMAIN q.options : forOption(q.options[i].option) <= forOption(q.major.option)
      /\ q.total > 1 => q.major.votes > 0

=============================================================================
