------------------------------ MODULE SFilePV ------------------------------
(***************************************************************************)
(* The private validator, types/crypto/sfile_pv.go, and its two files.     *)
(*                                                                         *)
(* Tendermint asks it to sign votes and proposals, one at a time.  It      *)
(* keeps the height, round and step (HRS) it signed last, with the bytes   *)
(* and the signature, saves them before it hands a signature out, and      *)
(* reads them back when the process starts again.  The process may die at  *)
(* any point.                                                              *)
(*                                                                         *)
(* What is signed is a record of HRS, value (the block and whatever else   *)
(* the bytes hold) and timestamp; its signature is the record itself.  The *)
(* JSON of the state file loses nothing: an absent SignBytes stays absent  *)
(* (omitempty), hexadecimal and base64 are decoded to what was encoded.    *)
(***************************************************************************)
EXTENDS Integers, FiniteSets

CONSTANTS
  Value,      \* what may be voted for or proposed
  Time,       \* timestamps
  MaxVoteHeight,  \* bound: heights
  MaxRound,   \* bound: rounds
  MaxSigned,  \* bound: signed messages
  Nil         \* nil: no SignBytes, no signature, no file, no object in memory

ASSUME PVAssumption == MaxVoteHeight \in Nat /\ MaxRound \in Nat

stepNone == 0
stepPropose == 1
stepPrevote == 2
stepPrecommit == 3

(* A vote or proposal, and the bytes signed for it. *)
Msg == [height : 1 .. MaxVoteHeight, round : 0 .. MaxRound,
        step : stepPropose .. stepPrecommit, value : Value, time : Time]

(* SFilePVLastSignState *)
SignState == [height : 0 .. MaxVoteHeight, round : 0 .. MaxRound,
              step : stepNone .. stepPrecommit,
              signBytes : Msg \cup {Nil}, signature : Msg \cup {Nil}]

ASSUME NoneAssumption == Nil \notin Msg /\ Nil \notin SignState

Fresh == [height |-> 0, round |-> 0, step |-> stepNone,
          signBytes |-> Nil, signature |-> Nil]

VARIABLES
  stage,      \* where the process is, see below
  pv,         \* pv.LastSignState of the running process, or Nil
  keyFile,    \* "absent", "torn" (truncated, or partly written) or "whole"
  stateFile,  \* the saved SignState, or Nil
  vote,       \* the message being signed, or Nil
  out         \* the signed messages handed to Tendermint

pvVars == <<stage, pv, keyFile, stateFile, vote, out>>

(* "down", "exited" (tmos.Exit at start), "saveKey", "truncateKey",        *)
(* "rewriteKey" and "saveState" (in LoadOrGenSFilePV), "ready", "save" and *)
(* "return" (in signVote or signProposal).                                 *)
PC == {"down", "exited", "saveKey", "truncateKey", "rewriteKey", "saveState",
       "ready", "save", "return"}

PVInit ==
  /\ stage = "down" /\ pv = Nil
  /\ keyFile = "absent" /\ stateFile = Nil
  /\ vote = Nil /\ out = {}

-----------------------------------------------------------------------------
(* Mutant: the state is not read (LoadSFilePVEmptyState). *)
LoadOrGenEmptyState ==
  /\ stage = "down"
  /\ IF keyFile = "torn"
     THEN stage' = "exited" /\ UNCHANGED pv
     ELSE stage' = "saveKey" /\ pv' = Fresh
  /\ UNCHANGED <<keyFile, stateFile, vote, out>>

(* LoadOrGenSFilePV: without a key file a new key and a fresh state, with  *)
(* one both files are read; an unreadable or missing file ends the         *)
(* process.  In both cases the two files are saved again (SaveWith).       *)
LoadOrGenSFilePV ==
  /\ stage = "down"
  /\ CASE keyFile = "absent" ->
            stage' = "saveKey" /\ pv' = Fresh
       [] keyFile = "whole" /\ stateFile # Nil ->
            stage' = "saveKey" /\ pv' = stateFile
       [] keyFile = "torn" \/ (keyFile = "whole" /\ stateFile = Nil) ->
            stage' = "exited" /\ UNCHANGED pv
  /\ UNCHANGED <<keyFile, stateFile, vote, out>>

(* FileIO.Write first replaces the file atomically ...  *)
SaveKey ==
  /\ stage = "saveKey"
  /\ keyFile' = "whole" /\ stage' = "truncateKey"
  /\ UNCHANGED <<pv, stateFile, vote, out>>

(* ... then opens it with O_TRUNC ... *)
TruncateKey ==
  /\ stage = "truncateKey"
  /\ keyFile' = "torn" /\ stage' = "rewriteKey"
  /\ UNCHANGED <<pv, stateFile, vote, out>>

(* ... and writes the same bytes again. *)
RewriteKey ==
  /\ stage = "rewriteKey"
  /\ keyFile' = "whole" /\ stage' = "saveState"
  /\ UNCHANGED <<pv, stateFile, vote, out>>

(* SFilePVLastSignState.Save: an atomic replacement. *)
SaveState ==
  /\ stage = "saveState"
  /\ stateFile' = pv /\ stage' = "ready"
  /\ UNCHANGED <<pv, keyFile, vote, out>>

-----------------------------------------------------------------------------
(* The lexicographic order of height, round and step. *)
Before(h1, r1, s1, h2, r2, s2) ==
  h1 < h2 \/ (h1 = h2 /\ (r1 < r2 \/ (r1 = r2 /\ s1 < s2)))

(* CheckHRS: "err" for a regression, "same" when the last signature is to  *)
(* be reused, "new" otherwise.                                             *)
CheckHRS(lss, m) ==
  CASE Before(m.height, m.round, m.step, lss.height, lss.round, lss.step) -> "err"
    [] Before(lss.height, lss.round, lss.step, m.height, m.round, m.step) -> "new"
    [] OTHER -> IF lss.signBytes # Nil THEN "same" ELSE "err"

(* check(Votes|Proposals)OnlyDifferByTimestamp *)
OnlyDifferByTimestamp(last, m) == [m EXCEPT !.time = last.time] = last

Signed(m, sig) == [msg |-> m, sig |-> sig]

(* signVote or signProposal refuses (no step), or answers with the last signature:   *)
(* the message takes the timestamp that was signed.                        *)
SignAgain(m) ==
  /\ stage = "ready"
  /\ CheckHRS(pv, m) = "same"
  /\ OnlyDifferByTimestamp(pv.signBytes, m)
  /\ out' = out \cup {Signed([m EXCEPT !.time = pv.signBytes.time], pv.signature)}
  /\ UNCHANGED <<stage, pv, keyFile, stateFile, vote>>

(* A new HRS: sign, and set LastSignState in memory. *)
SignNew(m) ==
  /\ stage = "ready" /\ Cardinality(out) < MaxSigned
  /\ CheckHRS(pv, m) = "new"
  /\ pv' = [height |-> m.height, round |-> m.round, step |-> m.step,
            signBytes |-> m, signature |-> m]
  /\ vote' = m
  /\ stage' = "save"
  /\ UNCHANGED <<keyFile, stateFile, out>>

(* Mutant: the signature is handed out before the state is saved. *)
SaveSignedLate ==
  /\ stage = "save"
  /\ out' = out \cup {Signed(vote, pv.signature)}
  /\ stage' = "return"
  /\ UNCHANGED <<pv, keyFile, stateFile, vote>>

(* saveSigned: LastSignState.Save *)
SaveSigned ==
  /\ stage = "save"
  /\ stateFile' = pv /\ stage' = "return"
  /\ UNCHANGED <<pv, keyFile, vote, out>>

(* The signature reaches Tendermint. *)
ReturnSigned ==
  /\ stage = "return"
  /\ out' = out \cup {Signed(vote, pv.signature)}
  /\ vote' = Nil /\ stage' = "ready"
  /\ UNCHANGED <<pv, keyFile, stateFile>>

(* The process dies; the files stay. *)
PVCrash ==
  /\ stage \notin {"down", "exited"}
  /\ stage' = "down" /\ pv' = Nil /\ vote' = Nil
  /\ UNCHANGED <<keyFile, stateFile, out>>

PVNext ==
  \/ LoadOrGenSFilePV \/ SaveKey \/ TruncateKey \/ RewriteKey \/ SaveState
  \/ \E m \in Msg : SignAgain(m) \/ SignNew(m)
  \/ SaveSigned \/ ReturnSigned \/ PVCrash

PVSpec == PVInit /\ [][PVNext]_pvVars

-----------------------------------------------------------------------------
(* Properties. *)

(* Every variable has the shape of the Go value or file it stands for. *)
PVTypeOK ==
  /\ stage \in PC
  /\ pv \in SignState \cup {Nil}
  /\ keyFile \in {"absent", "torn", "whole"}
  /\ stateFile \in SignState \cup {Nil}
  /\ vote \in Msg \cup {Nil}
  /\ out \subseteq [msg : Msg, sig : Msg]

(* The validator never double-signs: Tendermint gets at most one signed    *)
(* message for a height, round and step, however often the process dies    *)
(* between signing, saving and answering, and whatever it is asked again.  *)
NoDoubleSign ==
  \A x, y \in out :
    /\ x.msg.height = y.msg.height /\ x.msg.round = y.msg.round /\ x.msg.step = y.msg.step
    => x = y

(* A signature verifies for the message it is returned with: a reused      *)
(* signature comes with the timestamp it was made for.                     *)
SignatureFits == \A x \in out : x.sig = x.msg

(* The saved HRS never goes back, not by a restart either: the start-up    *)
(* of LoadOrGenSFilePV saves the state file again.                         *)
SavedStateAdvances ==
  [][ stateFile # Nil =>
        /\ stateFile' # Nil
        /\ ~Before(stateFile'.height, stateFile'.round, stateFile'.step,
                   stateFile.height, stateFile.round, stateFile.step) ]_pvVars

=============================================================================
