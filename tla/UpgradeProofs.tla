--------------------------- MODULE UpgradeProofs ---------------------------
(***************************************************************************)
(* Proofs about Upgrade for every set of packages and command lines.       *)
(*                                                                         *)
(* What is held is a function of the call that is next.  What the program  *)
(* has done is told by the verdicts it has collected: the firmware cannot  *)
(* have been written before the session has begun, the session not before  *)
(* the rate has been fitted, nor that before the package has been checked. *)
(***************************************************************************)
EXTENDS Upgrade, Md5Proofs

Opening == {"GetCmdArgs", "OpenPackage"}
Checking == {"Allocate", "ReadPackage", "CheckPackage"}
Connecting == {"UartOpen", "UartOptionSet", "OpenToSend"}

Calls == Opening \cup Checking \cup {"FitBaudrate"} \cup Connecting \cup {"Session", "exit"}

HeldBefore(call) ==
  CASE call = "Allocate" -> {"file"}
    [] call = "ReadPackage" -> {"file", "buffer"}
    [] call = "CheckPackage" -> {"buffer"}
    [] call \in {"UartOptionSet", "OpenToSend"} -> {"uart"}
    [] call = "Session" -> {"file", "uart"}
    [] OTHER -> {}

HeldAsNeeded ==
  /\ pc \in Calls
  /\ pc # "exit" => held = HeldBefore(pc)
  /\ pc = "exit" => held \subseteq {"forgotten"}
  /\ pc = "exit" /\ held # {} => exit = "UART_FAILED"

(* The calls and the verdicts come in order. *)
CallsInOrder ==
  /\ exit = "NONE" <=> pc # "exit"
  /\ ret \in {"NONE", "OK", "FAILED"}
  /\ pc \in Opening \cup {"Allocate", "ReadPackage"} => ret = "NONE"
  /\ pc \in {"FitBaudrate", "Session"} \cup Connecting => ret = "OK"
  /\ verdict # "NONE" => ret = "OK"
  /\ pc \in Opening \cup Checking => verdict = "NONE"
  /\ pc \in {"Session"} \cup Connecting => verdict = "OK"
  /\ outcome \in {"NONE", "OK", "FAILED"}
  /\ outcome # "NONE" => pc \in {"Session", "exit"} /\ verdict = "OK"
  /\ sending # NoPackage => pc \in {"Session", "exit"} /\ verdict = "OK"
  /\ sending = NoPackage => image = << >>

(* The exit code and what has been done by then. *)
ExitInOrder ==
  /\ exit \in {"INVALID_ARG", "PACKAGE_FAILED"} => ret # "OK" /\ verdict = "NONE"
  /\ exit = "UART_FAILED" => ret = "OK" /\ outcome = "NONE" /\ sending = NoPackage
  /\ exit = "FILE_FAILED" =>
       verdict = "OK" /\ result \in {"FILE_OPEN_FAILED", "FILE_READ_FAILED"}
  /\ result = "FILE_OPEN_FAILED" => sending = NoPackage
  /\ result = "FILE_READ_FAILED" => outcome = "FAILED"
  /\ exit \in {"PROTOCOL_FAILED", "TIMEOUT"} => outcome = "FAILED"
  /\ exit = "SUCCESS" =>
       (result = "OK" /\ outcome = "OK") \/ (result = "INTERNAL_FAILED" /\ verdict = "NONE")
  /\ pc # "exit" => result = "INTERNAL_FAILED"
  /\ result = "OK" => outcome = "OK"
  /\ exit # "INTERNAL_FAILED"

(* The package that was checked, or one that has replaced it. *)
CheckedOrReplaced(package) ==
  package = pkg \/ (replaced > 0 /\ package \in Replacements)

(* What has been sent is what has been checked, unless it was replaced, and
   went out at the rate of the user. *)
SendsWhatWasChecked ==
  /\ disk \in Packages
  /\ pkg \in Packages \cup {NoPackage}
  /\ pc \in Checking \cup {"FitBaudrate", "Session"} \cup Connecting \/ ret # "NONE"
       => CheckedOrReplaced(disk)
  /\ pc = "Session" \/ outcome # "NONE" \/ sending # NoPackage => CheckedOrReplaced(sending)
  /\ replaced \in Nat

SendsAtItsRate ==
  /\ pc \in {"OpenToSend", "Session"} \/ sending # NoPackage => rate = CmdArgs.Baudrate
  /\ image # << >> => modRate = CmdArgs.Baudrate
  /\ outcome = "OK" => image # << >> /\ Session!Received = FileSize

Checked(k) == pkg.part[k].MD5 = Digest(Hashed(pkg.part[k]))

(* The loops of CheckPackageM7xx. *)
ChecksInOrder ==
  /\ FWIndex \in 0..pkg.FWNum /\ DevIndex \in 0..pkg.DevNum
  /\ pc \in Opening => FWIndex = 0 /\ DevIndex = 0
  /\ DevIndex > 0 => FWIndex = pkg.FWNum
  /\ ret # "FAILED" => \A k \in 1..(FWIndex + DevIndex) : Checked(k)
  /\ ret = "OK" => FWIndex = pkg.FWNum /\ DevIndex = pkg.DevNum
  /\ ret = "FAILED" => \E k \in 1..(pkg.FWNum + pkg.DevNum) : ~Checked(k)

-----------------------------------------------------------------------------
(* What the steps of the two long calls, of the module and of the disk
   change. *)

LEMMA FitBaudrateSteps ==
  ASSUME FitBaudrate
  PROVE  /\ pc = "FitBaudrate" /\ verdict = "NONE"
         /\ UNCHANGED <<pc, options, CmdArgs, result, exit, files, held, checking, session>>
         /\ modRate' = modRate
BY DEF FitBaudrate, Fitting!SetPort, Fitting!Agree, Fitting!Disagree

LEMMA SessionSteps ==
  ASSUME SubPackageUpgradeProc
  PROVE  /\ pc = "Session" /\ outcome = "NONE"
         /\ UNCHANGED <<pc, options, CmdArgs, result, exit, files, held, checking, agreement>>
         /\ image' = image
         /\ outcome' \in {"OK", "FAILED"}
         /\ outcome' = "OK" => Session!Received = FileSize
BY DEF SubPackageUpgradeProc, Session!Succeed, Session!Fail

LEMMA ModuleFollowsSteps ==
  ASSUME ModuleFollows
  PROVE  /\ pc = "FitBaudrate" \/ verdict # "NONE"
         /\ UNCHANGED <<pc, options, CmdArgs, result, exit, files, held, checking, session>>
         /\ UNCHANGED <<rate, misset, verdict>>
         /\ modRate' = CmdArgs.Baudrate
BY DEF ModuleFollows, Fitting!ModuleFollows

LEMMA ModuleReceivesSteps ==
  ASSUME ModuleReceives
  PROVE  /\ sending # NoPackage /\ rate = modRate /\ outcome # "OK"
         /\ UNCHANGED <<pc, options, CmdArgs, result, exit, files, held, checking, agreement>>
         /\ outcome' = outcome
BY DEF ModuleReceives, Session!Deliver

LEMMA OutsideLeaves ==
  ASSUME CheckPackage \/ FitBaudrate \/ SubPackageUpgradeProc
           \/ ModuleFollows \/ ModuleReceives \/ Replace
  PROVE  UNCHANGED <<pc, options, CmdArgs, result, exit, sending, held>>
<1>1. CASE CheckPackage
  BY <1>1 DEF CheckPackage
<1>2. CASE FitBaudrate
  BY <1>2, FitBaudrateSteps DEF files
<1>3. CASE SubPackageUpgradeProc
  BY <1>3, SessionSteps DEF files
<1>4. CASE ModuleFollows
  BY <1>4, ModuleFollowsSteps DEF files
<1>5. CASE ModuleReceives
  BY <1>5, ModuleReceivesSteps DEF files
<1>6. CASE Replace
  BY <1>6 DEF Replace
<1>7. QED
  BY <1>1, <1>2, <1>3, <1>4, <1>5, <1>6

-----------------------------------------------------------------------------
(* The verdicts. *)

LEMMA CheckSteps ==
  ASSUME CheckPackage
  PROVE  /\ pc = "CheckPackage" /\ ret = "NONE" /\ ret' \in {"NONE", "OK", "FAILED"}
         /\ UNCHANGED <<pc, options, CmdArgs, result, exit, files, held, agreement, session>>
BY DEF CheckPackage, CheckNext, CheckFirmware, CheckDevice, Accept, CheckPartition, files

LEMMA OrderInit == Init => CallsInOrder /\ ExitInOrder
BY DEF Init, CheckInit, Fitting!Init, Session!Init, CallsInOrder, ExitInOrder, Opening, Checking,
       Connecting

(* The exit codes of the results. *)
LEMMA ExitCodes ==
  /\ ExitCode("OK") = "SUCCESS"
  /\ ExitCode("PACKAGE_CHECK_FAILED") = "PACKAGE_FAILED"
  /\ ExitCode("UART_OPEN_FAILED") = "UART_FAILED"
  /\ ExitCode("UART_CONFIG_FAILED") = "UART_FAILED"
  /\ ExitCode("FILE_OPEN_FAILED") = "FILE_FAILED"
  /\ \A res \in SessionFailures :
       /\ res \notin {"OK", "FILE_OPEN_FAILED"}
       /\ ExitCode(res) \in {"PROTOCOL_FAILED", "TIMEOUT", "FILE_FAILED"}
       /\ ExitCode(res) = "FILE_FAILED" => res = "FILE_READ_FAILED"
BY DEF ExitCode, SessionFailures

LEMMA CallsNext ==
  ASSUME CallsInOrder, Next
  PROVE  CallsInOrder'
<1> USE DEF Opening, Checking, Connecting
<1>1. CASE GetOption
  BY <1>1 DEF GetOption, Exit, CallsInOrder, files, checking, agreement, session
<1>2. CASE StartUpgrade
  BY <1>2 DEF StartUpgrade, CallsInOrder, files, checking, agreement, session
<1>3. CASE OpenPackage
  BY <1>3, ExitCodes DEF OpenPackage, Continue, Return, Exit, CallsInOrder, checking, agreement, session
<1>4. CASE Allocate
  BY <1>4, ExitCodes DEF Allocate, Continue, Return, Exit, CallsInOrder, files, checking, agreement, session
<1>5. CASE ReadPackage
  BY <1>5, ExitCodes DEF ReadPackage, Continue, Return, Exit, CallsInOrder, files, checking, agreement,
                         session
<1>6. CASE PackageChecked
  BY <1>6, ExitCodes DEF PackageChecked, Continue, Return, Exit, CallsInOrder, files, checking, agreement,
                         session
<1>7. CASE BaudrateFitted
  BY <1>7, ExitCodes DEF BaudrateFitted, Continue, Return, Exit, CallsInOrder, files, checking, agreement,
                         session
<1>8. CASE UartOpen
  BY <1>8, ExitCodes DEF UartOpen, Continue, Return, Exit, CallsInOrder, files, checking, agreement, session
<1>9. CASE UartOptionSet
  BY <1>9, ExitCodes DEF UartOptionSet, Continue, Return, Exit, CallsInOrder, files, checking, session
<1>10. CASE OpenToSend
  BY <1>10, ExitCodes DEF OpenToSend, Continue, Return, Exit, CallsInOrder, checking, agreement, session
<1>11. CASE SessionReturned
  <2>1. \E res : exit' = ExitCode(res) /\ res \in SessionFailures \cup {"OK"}
    BY <1>11 DEF SessionReturned, Return, Exit
  <2>2. exit' # "NONE"
    BY <2>1, ExitCodes
  <2>3. QED
    BY <1>11, <2>2 DEF SessionReturned, Return, Exit, CallsInOrder, files, checking, agreement, session
<1>12. CASE CheckPackage
  BY <1>12, CheckSteps DEF CallsInOrder, files, agreement, session
<1>13. CASE FitBaudrate
  BY <1>13, FitBaudrateSteps DEF CallsInOrder, files, checking, session
<1>14. CASE SubPackageUpgradeProc
  BY <1>14, SessionSteps DEF CallsInOrder, files, checking, agreement
<1>15. CASE ModuleFollows
  BY <1>15, ModuleFollowsSteps DEF CallsInOrder, files, checking, session
<1>16. CASE ModuleReceives
  BY <1>16, ModuleReceivesSteps DEF CallsInOrder, files, checking, agreement
<1>17. CASE Replace
  BY <1>17 DEF Replace, CallsInOrder, checking, agreement, session
<1>18. QED
  BY <1>1, <1>2, <1>3, <1>4, <1>5, <1>6, <1>7, <1>8, <1>9, <1>10, <1>11, <1>12, <1>13, <1>14,
     <1>15, <1>16, <1>17 DEF Next, Program

LEMMA ExitNext ==
  ASSUME CallsInOrder, ExitInOrder, Next
  PROVE  ExitInOrder'
<1> USE DEF Opening, Checking, Connecting
<1>1. CASE GetOption
  BY <1>1 DEF GetOption, Exit, CallsInOrder, ExitInOrder, files, checking, agreement, session
<1>2. CASE StartUpgrade
  BY <1>2 DEF StartUpgrade, CallsInOrder, ExitInOrder, files, checking, agreement, session
<1>3. CASE OpenPackage
  BY <1>3, ExitCodes DEF OpenPackage, Continue, Return, Exit, CallsInOrder, ExitInOrder, checking,
                         agreement, session
<1>4. CASE Allocate
  BY <1>4, ExitCodes DEF Allocate, Continue, Return, Exit, CallsInOrder, ExitInOrder, files, checking,
                         agreement, session
<1>5. CASE ReadPackage
  BY <1>5, ExitCodes DEF ReadPackage, Continue, Return, Exit, CallsInOrder, ExitInOrder, files, checking,
                         agreement, session
<1>6. CASE PackageChecked
  BY <1>6, ExitCodes DEF PackageChecked, Continue, Return, Exit, CallsInOrder, ExitInOrder, files, checking,
                         agreement, session
<1>7. CASE BaudrateFitted
  BY <1>7, ExitCodes DEF BaudrateFitted, Continue, Return, Exit, CallsInOrder, ExitInOrder, files, checking,
                         agreement, session
<1>8. CASE UartOpen
  BY <1>8, ExitCodes DEF UartOpen, Continue, Return, Exit, CallsInOrder, ExitInOrder, files, checking,
                         agreement, session
<1>9. CASE UartOptionSet
  BY <1>9, ExitCodes DEF UartOptionSet, Continue, Return, Exit, CallsInOrder, ExitInOrder, files, checking,
                         session
<1>10. CASE OpenToSend
  BY <1>10, ExitCodes DEF OpenToSend, Continue, Return, Exit, CallsInOrder, ExitInOrder, checking,
                          agreement, session
<1>11. CASE SessionReturned
  <2>1. /\ pc = "Session" /\ pc' = "exit" /\ outcome # "NONE"
        /\ UNCHANGED <<sending, verdict, outcome>>
    BY <1>11 DEF SessionReturned, Return, Exit, files, agreement, session
  <2>2. outcome \in {"OK", "FAILED"}
    BY <2>1 DEF CallsInOrder
  <2>3. CASE outcome = "OK"
    <3>1. result' = "OK" /\ exit' = "SUCCESS"
      BY <1>11, <2>3, ExitCodes DEF SessionReturned, Return, Exit
    <3>2. QED
      BY <2>1, <2>3, <3>1 DEF ExitInOrder, CallsInOrder
  <2>4. CASE outcome = "FAILED"
    <3>1. PICK res \in SessionFailures : result' = res /\ exit' = ExitCode(res)
      BY <1>11, <2>4 DEF SessionReturned, Return, Exit
    <3>2. /\ result' \notin {"OK", "FILE_OPEN_FAILED"}
          /\ exit' \in {"PROTOCOL_FAILED", "TIMEOUT", "FILE_FAILED"}
          /\ exit' = "FILE_FAILED" => result' = "FILE_READ_FAILED"
      BY <3>1, ExitCodes
    <3>3. verdict = "OK"
      BY <2>1 DEF CallsInOrder
    <3>4. QED
      BY <2>1, <2>4, <3>2, <3>3 DEF ExitInOrder
  <2>5. QED
    BY <2>2, <2>3, <2>4
<1>12. CASE CheckPackage
  BY <1>12, CheckSteps DEF CallsInOrder, ExitInOrder, files, agreement, session
<1>13. CASE FitBaudrate
  BY <1>13, FitBaudrateSteps DEF CallsInOrder, ExitInOrder, files, checking, session
<1>14. CASE SubPackageUpgradeProc
  BY <1>14, SessionSteps DEF CallsInOrder, ExitInOrder, files, checking, agreement
<1>15. CASE ModuleFollows
  BY <1>15, ModuleFollowsSteps DEF ExitInOrder, files, checking, session
<1>16. CASE ModuleReceives
  BY <1>16, ModuleReceivesSteps DEF ExitInOrder, files, checking, agreement
<1>17. CASE Replace
  BY <1>17 DEF Replace, ExitInOrder, checking, agreement, session
<1>18. QED
  BY <1>1, <1>2, <1>3, <1>4, <1>5, <1>6, <1>7, <1>8, <1>9, <1>10, <1>11, <1>12, <1>13, <1>14,
     <1>15, <1>16, <1>17 DEF Next, Program

LEMMA OrderStutter == CallsInOrder /\ ExitInOrder /\ UNCHANGED vars => CallsInOrder' /\ ExitInOrder'
BY DEF vars, files, checking, agreement, session, CallsInOrder, ExitInOrder

LEMMA OrderInvariant == Spec => [](CallsInOrder /\ ExitInOrder)
<1>1. CallsInOrder /\ ExitInOrder /\ [Next]_vars => CallsInOrder' /\ ExitInOrder'
  BY CallsNext, ExitNext, OrderStutter
<1>2. QED
  BY <1>1, OrderInit, PTL DEF Spec

(* From each exit code a script knows which of the verdicts of the program
   have been given and whether the module is untouched; FILE_FAILED is one code
   for an untouched module and for one in the middle of the firmware
   (main.c:29-55, UpgradeM7xx.c:1021-1065). *)
THEOREM ExitCodeTells == Spec => []ExitTells
<1>1. CallsInOrder /\ ExitInOrder => ExitTells
  BY DEF CallsInOrder, ExitInOrder, ExitTells, Untouched
<1>2. QED
  BY <1>1, OrderInvariant, PTL

-----------------------------------------------------------------------------
(* What is held. *)

LEMMA HeldNext ==
  ASSUME HeldAsNeeded, CallsInOrder, Next
  PROVE  HeldAsNeeded'
<1> USE DEF Calls, Opening, Checking, Connecting
<1>1. CASE GetOption
  BY <1>1 DEF GetOption, Exit, HeldAsNeeded, HeldBefore
<1>2. CASE StartUpgrade
  BY <1>2 DEF StartUpgrade, HeldAsNeeded, HeldBefore
<1>3. CASE OpenPackage
  BY <1>3 DEF OpenPackage, Continue, Return, Exit, HeldAsNeeded, HeldBefore
<1>4. CASE Allocate
  BY <1>4 DEF Allocate, Continue, Return, Exit, HeldAsNeeded, HeldBefore
<1>5. CASE ReadPackage
  BY <1>5 DEF ReadPackage, Continue, Return, Exit, HeldAsNeeded, HeldBefore
<1>6. CASE PackageChecked
  BY <1>6 DEF PackageChecked, Continue, Return, Exit, HeldAsNeeded, HeldBefore
<1>7. CASE BaudrateFitted
  BY <1>7, ExitCodes DEF BaudrateFitted, UartNotOpened, Continue, Return, Exit, HeldAsNeeded, HeldBefore
<1>8. CASE UartOpen
  BY <1>8, ExitCodes DEF UartOpen, UartNotOpened, Continue, Return, Exit, HeldAsNeeded, HeldBefore
<1>9. CASE UartOptionSet
  BY <1>9 DEF UartOptionSet, Continue, Return, Exit, HeldAsNeeded, HeldBefore
<1>10. CASE OpenToSend
  BY <1>10 DEF OpenToSend, Continue, Return, Exit, HeldAsNeeded, HeldBefore
<1>11. CASE SessionReturned
  BY <1>11 DEF SessionReturned, Return, Exit, HeldAsNeeded, HeldBefore
<1>12. CASE CheckPackage \/ FitBaudrate \/ SubPackageUpgradeProc
              \/ ModuleFollows \/ ModuleReceives \/ Replace
  BY <1>12, OutsideLeaves DEF HeldAsNeeded, HeldBefore
<1>13. QED
  BY <1>1, <1>2, <1>3, <1>4, <1>5, <1>6, <1>7, <1>8, <1>9, <1>10, <1>11, <1>12 DEF Next, Program

LEMMA HeldInit == Init => HeldAsNeeded
BY DEF Init, HeldAsNeeded, HeldBefore, Calls, Opening, Checking, Connecting

(* Every way out of the program has closed the file and the port it has and
   freed the buffer (UpgradeM7xx.c:953-994, 1030-1064); what may be left is a
   descriptor that was forgotten by UartOpen (UartCommon.c:56-60), and then the
   program ends with UART_FAILED without a byte of the package sent. *)
THEOREM HeldIsGivenBack == Spec => []HeldGivenBack
<1>1. HeldAsNeeded /\ UNCHANGED vars => HeldAsNeeded'
  BY DEF vars, HeldAsNeeded, HeldBefore
<1>2. HeldAsNeeded /\ CallsInOrder /\ [Next]_vars => HeldAsNeeded'
  BY <1>1, HeldNext
<1>3. Spec => []HeldAsNeeded
  BY <1>2, HeldInit, OrderInvariant, PTL DEF Spec
<1>4. HeldAsNeeded /\ ExitInOrder => HeldGivenBack
  BY DEF HeldAsNeeded, ExitInOrder, HeldGivenBack
<1>5. QED
  BY <1>3, <1>4, OrderInvariant, PTL

-----------------------------------------------------------------------------
(* The package that is sent. *)

LEMMA SendsInit == Init => SendsWhatWasChecked /\ SendsAtItsRate
BY DEF Init, CheckInit, Fitting!Init, Session!Init, SendsWhatWasChecked, SendsAtItsRate, Opening,
       Checking, Connecting, CheckedOrReplaced

LEMMA SendsNext ==
  ASSUME CallsInOrder, SendsWhatWasChecked, Next
  PROVE  SendsWhatWasChecked'
<1> USE DEF Opening, Checking, Connecting, CheckedOrReplaced
<1>1. CASE GetOption
  BY <1>1 DEF GetOption, Exit, CallsInOrder, SendsWhatWasChecked, files, checking, session
<1>2. CASE StartUpgrade
  BY <1>2 DEF StartUpgrade, CallsInOrder, SendsWhatWasChecked, files, checking, session
<1>3. CASE OpenPackage
  BY <1>3 DEF OpenPackage, Continue, Return, Exit, CallsInOrder, SendsWhatWasChecked, checking, agreement,
              session
<1>4. CASE Allocate \/ ReadPackage
  BY <1>4 DEF Allocate, ReadPackage, Continue, Return, Exit, SendsWhatWasChecked, files, checking, session
<1>5. CASE PackageChecked \/ BaudrateFitted
  BY <1>5 DEF PackageChecked, BaudrateFitted, Continue, Return, Exit, SendsWhatWasChecked, files, checking,
              session
<1>6. CASE UartOpen \/ UartOptionSet
  BY <1>6 DEF UartOpen, UartOptionSet, Continue, Return, Exit, SendsWhatWasChecked, files, checking, session
<1>7. CASE OpenToSend
  BY <1>7 DEF OpenToSend, Continue, Return, Exit, CallsInOrder, SendsWhatWasChecked, checking, agreement,
              session
<1>8. CASE SessionReturned
  BY <1>8 DEF SessionReturned, Return, Exit, SendsWhatWasChecked, files, checking, session
<1>9. CASE CheckPackage
  BY <1>9, CheckSteps DEF SendsWhatWasChecked, files, agreement, session
<1>10. CASE FitBaudrate
  BY <1>10, FitBaudrateSteps DEF SendsWhatWasChecked, files, checking, session
<1>11. CASE SubPackageUpgradeProc
  BY <1>11, SessionSteps DEF SendsWhatWasChecked, files, checking, agreement
<1>12. CASE ModuleFollows
  BY <1>12, ModuleFollowsSteps DEF SendsWhatWasChecked, files, checking, session
<1>13. CASE ModuleReceives
  BY <1>13, ModuleReceivesSteps DEF SendsWhatWasChecked, files, checking, agreement
<1>14. CASE Replace
  BY <1>14, ReplaceAssumption DEF Replace, SendsWhatWasChecked, checking, agreement, session
<1>15. QED
  BY <1>1, <1>2, <1>3, <1>4, <1>5, <1>6, <1>7, <1>8, <1>9, <1>10, <1>11, <1>12, <1>13, <1>14
     DEF Next, Program

(* What has come in is a matter of the module's image alone. *)
LEMMA ReceivedStays == image' = image => Session!Received' = Session!Received
BY DEF Session!Received

LEMMA RateNext ==
  ASSUME CallsInOrder, SendsAtItsRate, Next
  PROVE  SendsAtItsRate'
<1> USE DEF Opening, Checking, Connecting
<1>1. CASE GetOption
  BY <1>1 DEF GetOption, Exit, CallsInOrder, SendsAtItsRate, files, agreement, session
<1>2. CASE StartUpgrade \/ OpenPackage \/ Allocate \/ ReadPackage \/ PackageChecked \/ BaudrateFitted
             \/ UartOpen
  <2>1. /\ UNCHANGED <<CmdArgs, sending, rate, modRate, image, outcome>>
        /\ pc' \notin {"OpenToSend", "Session"}
    BY <1>2 DEF StartUpgrade, OpenPackage, Allocate, ReadPackage, PackageChecked, BaudrateFitted,
                UartOpen, Continue, Return, Exit, files, agreement, session
  <2>2. QED
    BY <2>1, ReceivedStays DEF SendsAtItsRate
<1>3. CASE UartOptionSet
  <2>1. /\ UNCHANGED <<CmdArgs, sending, modRate, image, outcome>>
        /\ sending = NoPackage
        /\ pc' = "OpenToSend" => rate' = CmdArgs.Baudrate
        /\ pc' # "Session"
    BY <1>3 DEF UartOptionSet, Continue, Return, Exit, files, session, CallsInOrder
  <2>2. QED
    BY <2>1, ReceivedStays DEF SendsAtItsRate
<1>4. CASE OpenToSend \/ SessionReturned
  <2>1. /\ UNCHANGED <<CmdArgs, rate, modRate, image, outcome>>
        /\ pc \in {"OpenToSend", "Session"}
    BY <1>4 DEF OpenToSend, SessionReturned, files, agreement, session
  <2>2. QED
    BY <2>1, ReceivedStays DEF SendsAtItsRate
<1>5. CASE CheckPackage \/ Replace
  <2>1. UNCHANGED <<pc, CmdArgs, sending, rate, modRate, image, outcome>>
    BY <1>5, CheckSteps DEF Replace, files, agreement, session
  <2>2. QED
    BY <2>1, ReceivedStays DEF SendsAtItsRate
<1>6. CASE FitBaudrate
  <2>1. /\ UNCHANGED <<pc, CmdArgs, sending, modRate, image, outcome>>
        /\ pc = "FitBaudrate" /\ sending = NoPackage
    BY <1>6, FitBaudrateSteps DEF files, session, CallsInOrder
  <2>2. QED
    BY <2>1, ReceivedStays DEF SendsAtItsRate
<1>7. CASE SubPackageUpgradeProc
  <2>1. UNCHANGED <<pc, CmdArgs, sending, rate, modRate, image>>
    BY <1>7, SessionSteps DEF files, agreement
  <2>2. outcome' = "OK" => Session!Received = FileSize /\ image # << >>
    BY <1>7, SessionSteps, FileSizeAssumption DEF Session!Received
  <2>3. QED
    BY <2>1, <2>2, ReceivedStays DEF SendsAtItsRate
<1>8. CASE ModuleFollows
  <2>1. /\ UNCHANGED <<pc, CmdArgs, sending, rate, image, outcome>>
        /\ modRate' = CmdArgs.Baudrate
    BY <1>8, ModuleFollowsSteps DEF files, session
  <2>2. QED
    BY <2>1, ReceivedStays DEF SendsAtItsRate
<1>9. CASE ModuleReceives
  <2>1. /\ UNCHANGED <<pc, CmdArgs, sending, rate, modRate>>
        /\ sending # NoPackage /\ rate = modRate /\ outcome' # "OK"
    BY <1>9, ModuleReceivesSteps DEF files, agreement
  <2>2. QED
    BY <2>1 DEF SendsAtItsRate
<1>10. QED
  BY <1>1, <1>2, <1>3, <1>4, <1>5, <1>6, <1>7, <1>8, <1>9 DEF Next, Program

-----------------------------------------------------------------------------
(* The check of the package. *)

LEMMA PackageFacts ==
  ASSUME pkg \in Packages \cup {NoPackage}
  PROVE  pkg.FWNum \in Nat /\ pkg.DevNum \in Nat
BY PackagesAssumption DEF NoPackage

LEMMA ChecksInit == Init => ChecksInOrder
BY DEF Init, CheckInit, NoPackage, ChecksInOrder, Opening

(* A turn of either loop looks at the partition that follows. *)
LEMMA CheckTurn ==
  ASSUME pkg \in Packages \cup {NoPackage}, ChecksInOrder, pc = "CheckPackage", CheckPackage
  PROVE  ChecksInOrder'
<1>1. pkg.FWNum \in Nat /\ pkg.DevNum \in Nat /\ pkg' = pkg /\ pc' = pc
  BY PackageFacts DEF CheckPackage, CheckNext, CheckFirmware, CheckDevice, Accept
<1>2. \A k : Checked(k)' <=> Checked(k)
  BY <1>1 DEF Checked
<1>3. ASSUME NEW k \in Nat, CheckPartition(k), k = FWIndex + DevIndex, ret = "NONE",
             FWIndex' + DevIndex' = k + 1, k + 1 <= pkg.FWNum + pkg.DevNum,
             FWIndex' \in 0..pkg.FWNum, DevIndex' \in 0..pkg.DevNum, DevIndex' > 0 => FWIndex' = pkg.FWNum
      PROVE  ChecksInOrder'
  <2>1. ret' = IF Checked(k + 1) THEN "NONE" ELSE "FAILED"
    BY <1>3 DEF CheckPartition, Checked
  <2>2. ret' = "NONE" => \A j \in 1..(FWIndex' + DevIndex') : Checked(j)
    <3>1. \A j \in 1..k : Checked(j)
      BY <1>3 DEF ChecksInOrder
    <3>2. ret' = "NONE" => Checked(k + 1)
      BY <2>1
    <3>3. \A j \in 1..(k + 1) : j \in 1..k \/ j = k + 1
      BY <1>3
    <3>4. QED
      BY <1>3, <3>1, <3>2, <3>3
  <2>3. ret' = "FAILED" => \E j \in 1..(pkg.FWNum + pkg.DevNum) : ~Checked(j)
    BY <1>1, <1>3, <2>1
  <2>4. QED
    BY <1>1, <1>2, <1>3, <2>1, <2>2, <2>3 DEF ChecksInOrder, Opening
<1>4. CASE CheckFirmware
  BY <1>1, <1>3, <1>4 DEF CheckFirmware, ChecksInOrder
<1>5. CASE CheckDevice
  BY <1>1, <1>3, <1>5 DEF CheckDevice, ChecksInOrder
<1>6. CASE Accept
  BY <1>1, <1>2, <1>6 DEF Accept, ChecksInOrder
<1>7. QED
  BY <1>4, <1>5, <1>6 DEF CheckPackage, CheckNext

LEMMA ChecksNext ==
  ASSUME CallsInOrder, SendsWhatWasChecked, ChecksInOrder, Next
  PROVE  ChecksInOrder'
<1>1. CASE CheckPackage
  BY <1>1, CheckTurn DEF CheckPackage, SendsWhatWasChecked
<1>2. CASE OpenPackage
  <2>1. /\ FWIndex = 0 /\ DevIndex = 0 /\ ret = "NONE"
        /\ UNCHANGED <<FWIndex, DevIndex, ret>>
    BY <1>2 DEF OpenPackage, CallsInOrder, ChecksInOrder, Opening, checking
  <2>2. pkg' \in Packages \cup {NoPackage}
    BY <1>2 DEF OpenPackage, SendsWhatWasChecked
  <2>3. pkg'.FWNum \in Nat /\ pkg'.DevNum \in Nat
    BY <2>2, PackagesAssumption DEF NoPackage
  <2>4. QED
    BY <2>1, <2>3 DEF ChecksInOrder
<1>3. CASE Next /\ ~CheckPackage /\ ~OpenPackage
  <2>1. /\ UNCHANGED <<FWIndex, DevIndex, ret, pkg>>
        /\ pc' \in Opening => pc \in Opening
    <3>1. CASE GetOption \/ StartUpgrade \/ Allocate \/ ReadPackage \/ PackageChecked \/ BaudrateFitted
      BY <3>1 DEF GetOption, StartUpgrade, Allocate, ReadPackage, PackageChecked, BaudrateFitted,
                  Continue, Return, Exit, files, checking, Opening
    <3>2. CASE UartOpen \/ UartOptionSet \/ OpenToSend \/ SessionReturned
      BY <3>2 DEF UartOpen, UartOptionSet, OpenToSend, SessionReturned, Continue, Return, Exit,
                  files, checking, Opening
    <3>3. CASE FitBaudrate \/ SubPackageUpgradeProc
      BY <3>3, FitBaudrateSteps, SessionSteps DEF files, checking
    <3>4. CASE ModuleFollows \/ ModuleReceives \/ Replace
      BY <3>4, ModuleFollowsSteps, ModuleReceivesSteps DEF Replace, files, checking
    <3>5. QED
      BY <1>3, <3>1, <3>2, <3>3, <3>4 DEF Next, Program
  <2>2. \A k : Checked(k)' <=> Checked(k)
    BY <2>1 DEF Checked
  <2>3. QED
    BY <2>1, <2>2 DEF ChecksInOrder
<1>4. QED
  BY <1>1, <1>2, <1>3

UpgradeInv == CallsInOrder /\ SendsWhatWasChecked /\ SendsAtItsRate /\ ChecksInOrder

LEMMA UpgradeInvariant == Spec => []UpgradeInv
<1>1. Init => UpgradeInv
  BY OrderInit, SendsInit, ChecksInit DEF UpgradeInv
<1>2. UpgradeInv /\ Next => UpgradeInv'
  BY CallsNext, SendsNext, RateNext, ChecksNext DEF UpgradeInv
<1>3. UpgradeInv /\ UNCHANGED vars => UpgradeInv'
  BY DEF vars, files, checking, agreement, session, UpgradeInv, CallsInOrder, SendsWhatWasChecked,
         SendsAtItsRate, ChecksInOrder, Checked, CheckedOrReplaced, Session!Received
<1>4. QED
  BY <1>1, <1>2, <1>3, PTL DEF Spec

-----------------------------------------------------------------------------
(* The verdict. *)

(* The comparison with the digest finds out whether the partition is intact. *)
LEMMA CheckedIsIntact ==
  ASSUME pkg \in Packages \cup {NoPackage}, NEW k \in 1..(pkg.FWNum + pkg.DevNum)
  PROVE  Checked(k) <=> Intact(pkg.part[k])
<1>1. pkg \in Packages /\ k \in DOMAIN pkg.part
  <2>1. pkg # NoPackage
    BY DEF NoPackage
  <2>2. pkg \in Packages
    BY <2>1
  <2>3. pkg.FWNum \in Nat /\ pkg.DevNum \in Nat /\ pkg.FWNum + pkg.DevNum <= Len(pkg.part)
    BY <2>2, PackagesAssumption
  <2>4. Len(pkg.part) \in Nat /\ DOMAIN pkg.part = 1..Len(pkg.part)
    BY <2>2, PackagesAssumption
  <2>5. QED
    BY <2>2, <2>3, <2>4
<1>2. pkg.part[k].data \in Seq(Nat) /\ Len(pkg.part[k].data) < WordMax
  BY <1>1, PartitionsAssumption
<1>3. Digest(Hashed(pkg.part[k])) = Padded(pkg.part[k].data)
  BY <1>2, HashedWhole DEF Hashed
<1>4. QED
  BY <1>3 DEF Checked, Intact

LEMMA VerdictFollows == UpgradeInv => VerdictRight
<1> SUFFICES ASSUME UpgradeInv
             PROVE  VerdictRight
  OBVIOUS
<1>1. pkg \in Packages \cup {NoPackage}
  BY DEF UpgradeInv, SendsWhatWasChecked
<1>2. \A k \in 1..(pkg.FWNum + pkg.DevNum) : Checked(k) <=> Intact(pkg.part[k])
  BY <1>1, CheckedIsIntact
<1>3. ASSUME ret = "OK"
      PROVE  IntactPackage
  <2>1. \A k \in 1..(pkg.FWNum + pkg.DevNum) : Checked(k)
    BY <1>3 DEF UpgradeInv, ChecksInOrder
  <2>2. QED
    BY <1>2, <2>1 DEF IntactPackage, Partitions
<1>4. ASSUME ret = "FAILED"
      PROVE  ~IntactPackage
  <2>1. PICK k \in 1..(pkg.FWNum + pkg.DevNum) : ~Checked(k)
    BY <1>4 DEF UpgradeInv, ChecksInOrder
  <2>2. QED
    BY <1>2, <2>1 DEF IntactPackage, Partitions
<1>5. QED
  BY <1>3, <1>4 DEF VerdictRight

(* CheckPackageM7xx returns OK for the packages all of whose named partitions
   carry the MD5 of their bytes, and for no other, whatever the number, kind
   and length of the partitions (UpgradeM7xx.c:885-924). *)
THEOREM VerdictIsRight == Spec => []VerdictRight
BY UpgradeInvariant, VerdictFollows, PTL

-----------------------------------------------------------------------------
(* What the checks are for. *)

(* Exit code 0 of an upgrade means an intact package, which is the one that
   was sent unless the file was replaced in between, received as a whole by a
   module that talks at the chosen rate (UpgradeM7xx.c:1021-1065,
   main.c:193-198). *)
THEOREM SuccessIsInstalled == Spec => []SuccessMeansInstalled
<1>1. UpgradeInv /\ ExitInOrder => SuccessMeansInstalled
  <2> SUFFICES ASSUME UpgradeInv, ExitInOrder, exit = "SUCCESS", result = "OK"
               PROVE  /\ ret = "OK" /\ IntactPackage
                      /\ Session!Received = FileSize
                      /\ replaced = 0 => sending = pkg
                      /\ modRate = CmdArgs.Baudrate
    BY DEF SuccessMeansInstalled
  <2>1. outcome = "OK"
    BY DEF ExitInOrder
  <2>2. ret = "OK"
    BY <2>1 DEF UpgradeInv, CallsInOrder
  <2>3. IntactPackage
    BY <2>2, VerdictFollows DEF VerdictRight
  <2>4. Session!Received = FileSize /\ modRate = CmdArgs.Baudrate
    BY <2>1 DEF UpgradeInv, SendsAtItsRate
  <2>5. replaced = 0 => sending = pkg
    BY <2>1 DEF UpgradeInv, SendsWhatWasChecked, CheckedOrReplaced
  <2>6. QED
    BY <2>2, <2>3, <2>4, <2>5
<1>2. QED
  BY <1>1, UpgradeInvariant, OrderInvariant, PTL

LEMMA TouchingStep ==
  ASSUME UpgradeInv, Next, modRate' # modRate \/ image' # image
  PROVE  ret = "OK" /\ (image' # image => sending # NoPackage)
<1>1. CASE GetOption \/ StartUpgrade \/ OpenPackage \/ Allocate \/ ReadPackage \/ PackageChecked
             \/ BaudrateFitted
  BY <1>1 DEF GetOption, StartUpgrade, OpenPackage, Allocate, ReadPackage, PackageChecked,
              BaudrateFitted, agreement, session
<1>2. CASE UartOpen \/ UartOptionSet \/ OpenToSend \/ SessionReturned \/ CheckPackage \/ Replace
  BY <1>2 DEF UartOpen, UartOptionSet, OpenToSend, SessionReturned, CheckPackage, Replace,
              agreement, session
<1>3. CASE FitBaudrate
  BY <1>3, FitBaudrateSteps DEF session
<1>4. CASE SubPackageUpgradeProc
  BY <1>4, SessionSteps DEF agreement
<1>5. CASE ModuleFollows
  BY <1>5, ModuleFollowsSteps DEF UpgradeInv, CallsInOrder, session
<1>6. CASE ModuleReceives
  BY <1>6, ModuleReceivesSteps DEF UpgradeInv, CallsInOrder
<1>7. QED
  BY <1>1, <1>2, <1>3, <1>4, <1>5, <1>6 DEF Next, Program

(* Nothing reaches the module that could change its rate or its firmware
   before the package has been found intact, and the firmware it then gets is
   from that package or from one that has replaced it, damaged or not
   (UpgradeM7xx.c:1021-1056). *)
THEOREM UntouchedUntilChecked == Spec => TouchedOnlyAfterCheck
<1>1. ASSUME UpgradeInv, Next, modRate' # modRate \/ image' # image
      PROVE  /\ ret = "OK" /\ IntactPackage
             /\ image' # image => sending = pkg \/ (replaced > 0 /\ sending \in Replacements)
  <2>1. ret = "OK" /\ (image' # image => sending # NoPackage)
    BY <1>1, TouchingStep
  <2>2. IntactPackage
    BY <1>1, <2>1, VerdictFollows DEF VerdictRight
  <2>3. sending # NoPackage => CheckedOrReplaced(sending)
    BY <1>1 DEF UpgradeInv, SendsWhatWasChecked
  <2>4. QED
    BY <2>1, <2>2, <2>3 DEF CheckedOrReplaced
<1>2. UpgradeInv /\ [Next]_vars
        => [/\ modRate' # modRate \/ image' # image => ret = "OK" /\ IntactPackage
            /\ image' # image => sending = pkg \/ (replaced > 0 /\ sending \in Replacements)]_vars
  BY <1>1
<1>3. QED
  BY <1>2, UpgradeInvariant, PTL DEF Spec, TouchedOnlyAfterCheck
=============================================================================
