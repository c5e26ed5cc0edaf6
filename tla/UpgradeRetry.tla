---------------------------- MODULE UpgradeRetry ----------------------------
(***************************************************************************)
(* The program run again: after a failure, or after it was killed at any   *)
(* point of SubPackageUpgradeProc.  The host starts with nothing but the   *)
(* command line, UpgradeFrameInit and the static s_UpgradeStatus as the    *)
(* program text sets it; the module is where the last run left it.         *)
(*                                                                         *)
(* Every run begins with FitBaudrate, which leaves nothing of the run      *)
(* before on the line (OldTrafficGone of BaudFit) and whose commands the   *)
(* module has seen since.                                                  *)
(***************************************************************************)
EXTENDS UpgradeProc

CONSTANTS
  KillLimit,      \* how many times the program is killed
  RerunLimit      \* how many times it is started again after a failure

ASSUME RestartAssumption == KillLimit \in Nat /\ RerunLimit \in Nat

VARIABLES
  kills,
  reruns

retryVars == <<vars, kills, reruns>>

RetryInit == Init /\ kills = 0 /\ reruns = 0

(* Mutant of FreshStart: what the run before left on the line is still there. *)
FreshStartOnOldLine ==
  /\ \E size \in TransferSizes : args' = [args EXCEPT !.TransferSize = size]
  /\ status' = "IDLE"
  /\ result' = "INTERNAL_FAILED"
  /\ timeCntr' = 0
  /\ limit' = 0
  /\ handle' = FrameInit
  /\ phase' = "run"
  /\ returned' = "NONE"
  /\ mod' = [mod EXCEPT !.last = NoReply]
  /\ UNCHANGED <<toModule, toHost, line, gen, faults>>

(* The run that starts may be given another transfer size. *)
FreshStart ==
  /\ \E size \in TransferSizes : args' = [args EXCEPT !.TransferSize = size]
  /\ status' = "IDLE"
  /\ result' = "INTERNAL_FAILED"
  /\ timeCntr' = 0
  /\ limit' = 0
  /\ handle' = FrameInit
  /\ phase' = "run"
  /\ returned' = "NONE"
  /\ toModule' = << >>
  /\ toHost' = << >>
  /\ line' = NoReply
  /\ mod' = [mod EXCEPT !.last = NoReply]
  /\ UNCHANGED <<gen, faults>>

Kill ==
  /\ phase # "done"
  /\ kills < KillLimit
  /\ kills' = kills + 1
  /\ FreshStart
  /\ UNCHANGED reruns

Rerun ==
  /\ phase = "done" /\ returned # "OK"
  /\ reruns < RerunLimit
  /\ reruns' = reruns + 1
  /\ FreshStart
  /\ UNCHANGED kills

RetryNext ==
  \/ Next /\ UNCHANGED <<kills, reruns>>
  \/ Kill \/ Rerun

RetrySpec == RetryInit /\ [][RetryNext]_retryVars

(* Whoever runs the program runs it again until it succeeds. *)
PatientSpec ==
  /\ RetrySpec
  /\ WF_retryVars(Host /\ UNCHANGED <<kills, reruns>>)
  /\ WF_retryVars(Module /\ UNCHANGED <<kills, reruns>>)
  /\ WF_retryVars(Rerun)
-----------------------------------------------------------------------------
(* When a session has ended well, the module holds one copy of the file: no
   piece of a run that was killed or failed half way is among the pieces of
   the run that succeeded, and none is missing because an earlier run had
   delivered it (UpgradeM7xx.c:305-364, 449-508). *)
InstalledWhole ==
  returned = "OK" =>
    /\ ImageEnd = FileSize
    /\ \A k \in DOMAIN mod.image :
         mod.image[k].place =
           IF k = 1 THEN FileInfoLen ELSE mod.image[k - 1].place + mod.image[k - 1].size

(* An upgrade that was interrupted is finished by running the program again,
   as often as the line and the module give cause to: nothing that a run
   leaves in the module keeps the next from succeeding
   (UpgradeM7xx.c:337-688). *)
RetriesSucceed == <>(returned = "OK")
=============================================================================
