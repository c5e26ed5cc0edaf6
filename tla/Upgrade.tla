------------------------------ MODULE Upgrade ------------------------------
(***************************************************************************)
(* The program: main and GetCmdArgs (main.c), UpgradeM7xx and              *)
(* CheckUpdatePackage (UpgradeM7xx.c).  The two long calls it makes are    *)
(* what their own modules show them to be: FitBaudrate is RateAgreement,   *)
(* which BaudFit implements, and SubPackageUpgradeProc is UpgradeSession,  *)
(* which UpgradeProc implements.  CheckPackageM7xx is PackageCheck itself. *)
(*                                                                         *)
(* The package is a file that others may replace while the program runs:   *)
(* an open file is the package it was when it was opened.                  *)
(***************************************************************************)
EXTENDS PackageCheck

CONSTANTS
  Rates,            \* s_UartBaudRateTable of main.c
  TransferSizeTable,
  OptionLists,      \* command lines, sequences of options
  Replacements,     \* packages that may replace the file while the program runs
  ReplaceLimit,     \* how many times that happens
  First, FileSize   \* of UpgradeSession

DefaultBaudrate == 115200
DefaultTransferSize == 32768

ASSUME RatesAssumption == DefaultBaudrate \in Rates
ASSUME SizesAssumption == DefaultTransferSize \in TransferSizeTable
ASSUME ReplaceAssumption == Replacements \subseteq Packages /\ ReplaceLimit \in Nat
ASSUME FileSizeAssumption == First \in Nat /\ FileSize \in Nat /\ First < FileSize

VARIABLES
  pc,         \* the call that is next
  options,    \* what getopt has not returned yet
  CmdArgs,
  result,     \* UpgradeResult
  exit,       \* the exit code, "NONE" while the program runs
  disk,       \* the package on the disk
  replaced,   \* how many times it has been replaced
  sending,    \* the package the session reads from
  held,       \* what is open or allocated: "file", "buffer", "uart", and
              \* "forgotten", descriptors of the port that nobody has
  rate, modRate, misset, verdict,     \* RateAgreement
  image, outcome                      \* UpgradeSession

files == <<disk, replaced, pkg, sending>>
agreement == <<rate, modRate, misset, verdict>>
session == <<image, outcome>>
vars == <<pc, options, CmdArgs, result, exit, files, held, checking, agreement, session>>

Fitting == INSTANCE RateAgreement WITH wanted <- CmdArgs.Baudrate
Session == INSTANCE UpgradeSession

NoPackage == [FWNum |-> 0, DevNum |-> 0, part |-> << >>]

Init ==
  /\ pc = "GetCmdArgs"
  /\ options \in OptionLists
  /\ CmdArgs = [Baudrate |-> DefaultBaudrate, TransferSize |-> DefaultTransferSize]
  /\ result = "INTERNAL_FAILED"
  /\ exit = "NONE"
  /\ disk \in Packages
  /\ replaced = 0
  /\ pkg = NoPackage
  /\ sending = NoPackage
  /\ held = {}
  /\ CheckInit
  /\ Fitting!Init
  /\ Session!Init
-----------------------------------------------------------------------------
(* main.c *)

Exit(code) == pc' = "exit" /\ exit' = code

(* Mutant of ExitCode: the case of a failed read is missing. *)
ExitCodeWithoutRead(res) ==
  CASE res = "OK" -> "SUCCESS"
    [] res = "INVALID_ARG" -> "INVALID_ARG"
    [] res = "PACKAGE_CHECK_FAILED" -> "PACKAGE_FAILED"
    [] res \in {"UART_OPEN_FAILED", "UART_CONFIG_FAILED"} -> "UART_FAILED"
    [] res \in {"PROTOCOL_FAILED", "STATE_FAILED"} -> "PROTOCOL_FAILED"
    [] res = "TIMEOUT" -> "TIMEOUT"
    [] res = "FILE_OPEN_FAILED" -> "FILE_FAILED"
    [] OTHER -> "INTERNAL_FAILED"

ExitCode(res) ==                        \* GetUpgradeProcessExitCode
  CASE res = "OK" -> "SUCCESS"
    [] res = "INVALID_ARG" -> "INVALID_ARG"
    [] res = "PACKAGE_CHECK_FAILED" -> "PACKAGE_FAILED"
    [] res \in {"UART_OPEN_FAILED", "UART_CONFIG_FAILED"} -> "UART_FAILED"
    [] res \in {"PROTOCOL_FAILED", "STATE_FAILED"} -> "PROTOCOL_FAILED"
    [] res = "TIMEOUT" -> "TIMEOUT"
    [] res \in {"FILE_OPEN_FAILED", "FILE_READ_FAILED", "ENCODE_FAILED"} -> "FILE_FAILED"
    [] OTHER -> "INTERNAL_FAILED"

Supported(option) ==
  /\ option.key = "b" => option.value \in Rates
  /\ option.key = "t" => option.value \in TransferSizeTable

ArgsAfter(option) ==
  CASE option.key = "b" -> [CmdArgs EXCEPT !.Baudrate = option.value]
    [] option.key = "t" -> [CmdArgs EXCEPT !.TransferSize = option.value]
    [] OTHER -> CmdArgs

(* Mutant of Consumed: an unknown option is looked at again. *)
ConsumedKnown == IF Head(options).key = "?" THEN options ELSE Tail(options)

Consumed == Tail(options)

(* One option; -h and -v end the program, -b and -t may. *)
GetOption ==
  /\ pc = "GetCmdArgs" /\ options # << >>
  /\ options' = Consumed
  /\ CmdArgs' = ArgsAfter(Head(options))
  /\ \/ Head(options).key \in {"h", "v"} /\ Exit("SUCCESS")
     \/ ~Supported(Head(options)) /\ Exit("INVALID_ARG")
     \/ /\ Head(options).key \notin {"h", "v"} /\ Supported(Head(options))
        /\ UNCHANGED <<pc, exit>>
  /\ UNCHANGED <<result, files, held, checking, agreement, session>>

(* Mutant of StartUpgrade: UpgradeM7xx starts with FitBaudrate. *)
StartUpgradeUnchecked ==
  /\ pc = "GetCmdArgs" /\ options = << >>
  /\ pc' = "FitBaudrate"
  /\ UNCHANGED <<options, CmdArgs, result, exit, files, held, checking, agreement, session>>

StartUpgrade ==
  /\ pc = "GetCmdArgs" /\ options = << >>
  /\ pc' = "OpenPackage"
  /\ UNCHANGED <<options, CmdArgs, result, exit, files, held, checking, agreement, session>>
-----------------------------------------------------------------------------
(* CheckUpdatePackage, called first by UpgradeM7xx. *)

Return(res) == result' = res /\ Exit(ExitCode(res))

Continue(call) == pc' = call /\ UNCHANGED <<result, exit>>

OpenPackage ==
  /\ pc = "OpenPackage"
  /\ \/ held' = held \cup {"file"} /\ pkg' = disk /\ Continue("Allocate")
     \/ Return("PACKAGE_CHECK_FAILED") /\ UNCHANGED <<held, pkg>>
  /\ UNCHANGED <<options, CmdArgs, disk, replaced, sending, checking, agreement, session>>

Allocate ==
  /\ pc = "Allocate"
  /\ \/ held' = held \cup {"buffer"} /\ Continue("ReadPackage")
     \/ held' = held \ {"file"} /\ Return("PACKAGE_CHECK_FAILED")
  /\ UNCHANGED <<options, CmdArgs, files, checking, agreement, session>>

ReadPackage ==
  /\ pc = "ReadPackage"
  /\ \/ held' = held \ {"file"} /\ Continue("CheckPackage")
     \/ held' = held \ {"file", "buffer"} /\ Return("PACKAGE_CHECK_FAILED")
  /\ UNCHANGED <<options, CmdArgs, files, checking, agreement, session>>

CheckPackage ==
  /\ pc = "CheckPackage"
  /\ CheckNext
  /\ UNCHANGED <<pc, options, CmdArgs, result, exit, disk, replaced, sending, held,
                 agreement, session>>

(* Mutant of PackageChecked: the verdict is only printed. *)
PackageCheckedPrinted ==
  /\ pc = "CheckPackage" /\ ret # "NONE"
  /\ held' = held \ {"buffer"}
  /\ Continue("FitBaudrate")
  /\ UNCHANGED <<options, CmdArgs, files, checking, agreement, session>>

PackageChecked ==
  /\ pc = "CheckPackage" /\ ret # "NONE"
  /\ held' = held \ {"buffer"}
  /\ IF ret = "OK" THEN Continue("FitBaudrate") ELSE Return("PACKAGE_CHECK_FAILED")
  /\ UNCHANGED <<options, CmdArgs, files, checking, agreement, session>>
-----------------------------------------------------------------------------
(* UpgradeM7xx *)

FitBaudrate ==
  /\ pc = "FitBaudrate"
  /\ UNCHANGED <<pc, options, CmdArgs, result, exit, files, held, checking, session>>
  /\ Fitting!SetPort \/ Fitting!Agree \/ Fitting!Disagree

(* UartOpen returns -1 because open failed, or because fcntl did: then the
   descriptor is open and nobody has it. *)
UartNotOpened == held' \in {held, held \cup {"forgotten"}}

(* FitBaudrate closes the port it has opened (PortClosed of BaudFit), and fails
   when it cannot open it (leaked of BaudFit). *)
BaudrateFitted ==
  /\ pc = "FitBaudrate"
  /\ \/ verdict = "OK" /\ UNCHANGED held /\ Continue("UartOpen")
     \/ verdict = "FAILED" /\ UartNotOpened /\ Return("UART_CONFIG_FAILED")
  /\ UNCHANGED <<options, CmdArgs, files, checking, agreement, session>>

UartOpen ==
  /\ pc = "UartOpen"
  /\ \/ held' = held \cup {"uart"} /\ Continue("UartOptionSet")
     \/ UartNotOpened /\ Return("UART_OPEN_FAILED")
  /\ UNCHANGED <<options, CmdArgs, files, checking, agreement, session>>

(* Here, unlike in FitBaudrate, a failure is noticed. *)
UartOptionSet ==
  /\ pc = "UartOptionSet"
  /\ \/ rate' = CmdArgs.Baudrate /\ UNCHANGED held /\ Continue("OpenToSend")
     \/ /\ rate' \in {rate, CmdArgs.Baudrate}
        /\ held' = held \ {"uart"}
        /\ Return("UART_CONFIG_FAILED")
  /\ UNCHANGED <<options, CmdArgs, files, checking, modRate, misset, verdict, session>>

(* Mutant of OpenToSend: the port is not closed when fopen fails. *)
OpenToSendUartKept ==
  /\ pc = "OpenToSend"
  /\ \/ held' = held \cup {"file"} /\ sending' = disk /\ Continue("Session")
     \/ Return("FILE_OPEN_FAILED") /\ UNCHANGED <<held, sending>>
  /\ UNCHANGED <<options, CmdArgs, disk, replaced, pkg, checking, agreement, session>>

OpenToSend ==
  /\ pc = "OpenToSend"
  /\ \/ held' = held \cup {"file"} /\ sending' = disk /\ Continue("Session")
     \/ held' = held \ {"uart"} /\ Return("FILE_OPEN_FAILED") /\ UNCHANGED sending
  /\ UNCHANGED <<options, CmdArgs, disk, replaced, pkg, checking, agreement, session>>

SubPackageUpgradeProc ==
  /\ pc = "Session"
  /\ Session!Succeed \/ Session!Fail
  /\ UNCHANGED <<pc, options, CmdArgs, result, exit, files, held, checking, agreement>>

(* The results a failed session may have: FailureNamed of UpgradeProc. *)
SessionFailures == {"PROTOCOL_FAILED", "TIMEOUT", "FILE_READ_FAILED"}

SessionReturned ==
  /\ pc = "Session" /\ outcome # "NONE"
  /\ held' = held \ {"file", "uart"}
  /\ \E res \in SessionFailures : Return(IF outcome = "OK" THEN "OK" ELSE res)
  /\ UNCHANGED <<options, CmdArgs, files, checking, agreement, session>>

Program ==
  \/ GetOption \/ StartUpgrade
  \/ OpenPackage \/ Allocate \/ ReadPackage \/ CheckPackage \/ PackageChecked
  \/ FitBaudrate \/ BaudrateFitted \/ UartOpen \/ UartOptionSet
  \/ OpenToSend \/ SubPackageUpgradeProc \/ SessionReturned
-----------------------------------------------------------------------------
(* The module and the disk: external.  What is on its way to the module when
   a call returns may still get there. *)

ModuleFollows ==
  /\ pc = "FitBaudrate" \/ verdict # "NONE"
  /\ UNCHANGED <<pc, options, CmdArgs, result, exit, files, held, checking, session>>
  /\ Fitting!ModuleFollows

ModuleReceives ==
  /\ sending # NoPackage /\ rate = modRate
  /\ Session!Received < FileSize
  /\ image' \in {Append(image, [at |-> Session!Received, size |-> n]) : n \in 1..FileSize}
  /\ Session!Deliver
  /\ UNCHANGED <<pc, options, CmdArgs, result, exit, files, held, checking, agreement>>

Replace ==
  /\ replaced < ReplaceLimit
  /\ replaced' = replaced + 1
  /\ disk' \in Replacements
  /\ UNCHANGED <<pc, options, CmdArgs, result, exit, pkg, sending, held, checking,
                 agreement, session>>

Next == Program \/ ModuleFollows \/ ModuleReceives \/ Replace

Spec == Init /\ [][Next]_vars

(* The program is one thread; FitBaudrate and SubPackageUpgradeProc return
   (FitReturns of BaudFit, Termination of UpgradeProc). *)
FairSpec ==
  /\ Spec
  /\ WF_vars(Program)
  /\ WF_vars(FitBaudrate /\ verdict' # "NONE")
-----------------------------------------------------------------------------
(* Every way out of the program closes the file and the port it has and frees
   the buffer (UpgradeM7xx.c:953-994, 1030-1064).  The one thing that may be
   left behind is a descriptor no caller ever had, that of a port which was
   opened and could not be switched to non-blocking (UartCommon.c:56-60); the
   program then ends with UART_FAILED and has not opened the package to send. *)
HeldGivenBack ==
  pc = "exit" =>
    /\ held \subseteq {"forgotten"}
    /\ held # {} => exit = "UART_FAILED" /\ sending = NoPackage

(* Exit code 0 of an upgrade: a package was checked and found intact, the
   module has received all of the file that was opened afterwards, which is
   the one that was checked unless it was replaced in between, and it talks at
   the rate the user chose (UpgradeM7xx.c:1021-1065, main.c:193-198). *)
SuccessMeansInstalled ==
  exit = "SUCCESS" /\ result = "OK" =>
    /\ ret = "OK" /\ IntactPackage
    /\ Session!Received = FileSize
    /\ replaced = 0 => sending = pkg
    /\ modRate = CmdArgs.Baudrate

(* Nothing of the firmware has been or will be written. *)
Untouched == sending = NoPackage /\ image = << >>

(* What a script knows from the exit code (main.c:29-55).  INVALID_ARG and
   PACKAGE_FAILED: the package was not found intact and the module was not
   spoken to.  UART_FAILED: the package was intact and the module is untouched;
   whether it has been spoken to and moved to another rate is not told.
   PROTOCOL_FAILED and TIMEOUT: the session began and failed, and the module may
   hold any part of the firmware.  FILE_FAILED is one code for two cases the
   result alone tells apart: the package could not be opened again and the
   module is untouched, or it could not be read in a session that then failed.
   SUCCESS: the session succeeded, or -h or -v ended the program before it had
   done anything.  INTERNAL_FAILED is not returned. *)
ExitTells ==
  /\ exit \in {"INVALID_ARG", "PACKAGE_FAILED"} => ret # "OK" /\ verdict = "NONE" /\ Untouched
  /\ exit = "UART_FAILED" => ret = "OK" /\ outcome = "NONE" /\ Untouched
  /\ exit = "FILE_FAILED" =>
       /\ verdict = "OK"
       /\ \/ result = "FILE_OPEN_FAILED" /\ Untouched
          \/ result = "FILE_READ_FAILED" /\ outcome = "FAILED"
  /\ exit \in {"PROTOCOL_FAILED", "TIMEOUT"} => outcome = "FAILED"
  /\ exit = "SUCCESS" =>
       \/ result = "OK" /\ outcome = "OK"
       \/ result = "INTERNAL_FAILED" /\ verdict = "NONE" /\ Untouched
  /\ exit # "INTERNAL_FAILED"

(* The module is moved to another rate, and its firmware written, only after
   CheckUpdatePackage has found the package it opened intact, and what is
   written comes from that package or from one that has replaced it on the
   disk (UpgradeM7xx.c:1021-1056).  The code does not look at the replacement:
   it may be damaged. *)
TouchedOnlyAfterCheck ==
  [][/\ modRate' # modRate \/ image' # image => ret = "OK" /\ IntactPackage
     /\ image' # image => sending = pkg \/ (replaced > 0 /\ sending \in Replacements)]_vars

(* The program ends. *)
Exits == <>(pc = "exit")
=============================================================================
