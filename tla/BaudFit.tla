------------------------------- MODULE BaudFit -------------------------------
(***************************************************************************)
(* FitBaudrate and MatchModule (UpgradeM7xx.c) over UartCommon.c: the      *)
(* search for the rate the module talks at, its reconfiguration, and the   *)
(* check at the new rate.                                                  *)
(*                                                                         *)
(* What arrives is a sequence of tokens: the two halves of the answer to   *)
(* OFFMSG, other text, text with a NUL byte in it, and an upgrade frame,   *)
(* which has NUL bytes too.  A token sent at one rate and received at      *)
(* another becomes text, with or without NUL.  The module and the line     *)
(* are external.                                                           *)
(***************************************************************************)
EXTENDS Integers, Sequences

CONSTANTS
  Rates,        \* s_UartBaudRateTable, a sequence
  WaitMax,      \* iterations of MatchModule (500)
  TempSize,     \* sizeof(TempBuf), in tokens
  BufSize,      \* sizeof(ReadBuf), in tokens
  Environments  \* what line and module may do: see below

(* limit: how many times each kind of fault may happen; timely: what is under
   way arrives before WaitCntr moves on; killed: a session may have been killed
   just before, its frames still on the line. *)
FaultKinds == {"open", "fcntl", "option", "write", "lost", "refusal", "talk"}

RateTable == {Rates[i] : i \in DOMAIN Rates}

ASSUME RatesAssumption == Rates \in Seq(Nat) /\ Rates # << >>
ASSUME SizesAssumption ==
  WaitMax \in Nat \ {0} /\ TempSize \in Nat \ {0} /\ BufSize \in Nat \ {0}
ASSUME EnvironmentsAssumption ==
  Environments \subseteq [limit : [FaultKinds -> Nat], timely : BOOLEAN, killed : BOOLEAN]

VARIABLES
  Baudrate,   \* argument of FitBaudrate
  pc,         \* where FitBaudrate is
  Index,      \* position in Rates
  again,      \* FALSE in the search, TRUE after the port has been closed and opened again
  WaitCntr,
  ReadBuf,    \* the tokens in ReadBuf
  ret,        \* what FitBaudrate returned, "NONE" before
  port,       \* the descriptor is open
  leaked,     \* descriptors that were opened and forgotten
  rate,       \* the rate the port is set to
  rx,         \* received and not yet read
  toHost,     \* on the line towards the host: token and rate
  toModule,   \* on the line towards the module: command and rate
  mod,        \* the module: its rate, and whether it sends of its own accord
  env,        \* the environment
  faults      \* how many faults of each kind have happened

given == <<Baudrate, env>>
fitting == <<given, pc, Index, again, ret>>
matching == <<WaitCntr, ReadBuf>>
uart == <<port, leaked, rate>>
vars == <<fitting, matching, uart, rx, toHost, toModule, mod, faults>>

Tokens == {"answer1", "answer2", "text", "nul", "frame"}
Garbage == {"text", "nul"}

LeftBehind(x) == IF env.killed THEN {<< >>, <<x>>} ELSE {<< >>}

Init ==
  /\ Baudrate \in RateTable
  /\ env \in Environments
  /\ pc = "open"
  /\ Index = 1
  /\ again = FALSE
  /\ WaitCntr = 0
  /\ ReadBuf = << >>
  /\ ret = "NONE"
  /\ port = FALSE
  /\ leaked = 0
  /\ rate \in RateTable
  /\ rx = << >>
  /\ mod \in [rate : RateTable, talks : BOOLEAN]
  /\ toHost \in LeftBehind([token |-> "frame", rate |-> mod.rate])
  /\ toModule \in LeftBehind([cmd |-> "REQUEST", rate |-> mod.rate, arg |-> 0])
  /\ faults = [k \in FaultKinds |-> 0]

Fault(k) ==
  /\ faults[k] < env.limit[k]
  /\ faults' = [faults EXCEPT ![k] = @ + 1]
-----------------------------------------------------------------------------
(* UartCommon.c *)

UartOpened ==
  /\ port' = TRUE
  /\ UNCHANGED <<leaked, faults>>

(* The descriptor is not closed when fcntl fails. *)
UartNotOpened ==
  /\ \/ Fault("open") /\ UNCHANGED leaked
     \/ Fault("fcntl") /\ leaked' = leaked + 1
  /\ UNCHANGED port

(* The rate is set by the first of two calls of tcsetattr, either of which
   may fail. *)
UartOptionSet(speed) ==
  \/ rate' = speed /\ UNCHANGED faults
  \/ rate' \in {rate, speed} /\ Fault("option")

(* All of the command is written, or the module gets nothing it knows. *)
UartWrite(line, cmd) ==
  \/ toModule' = Append(line, cmd) /\ UNCHANGED faults
  \/ toModule' = line /\ Fault("write")

(* What tcflush(TCIOFLUSH) may leave of the output: what has left the port. *)
Flushed == {SubSeq(toModule, 1, n) : n \in 0..Len(toModule)}

UartClosed ==                           \* tcflush and UartClose
  /\ port' = FALSE
  /\ rx' = << >>
  /\ toModule' \in Flushed
-----------------------------------------------------------------------------
(* FitBaudrate and MatchModule; neither looks at what UartOptionSet and
   UartWrite return. *)

Least(m, n) == IF m <= n THEN m ELSE n

Return(value) == pc' = "done" /\ ret' = value

Open ==
  /\ pc = "open"
  /\ \/ UartOpened /\ pc' = "set" /\ UNCHANGED ret
     \/ UartNotOpened /\ Return("FAILED")
  /\ UNCHANGED <<given, Index, again, matching, rate, rx, toHost, toModule, mod>>

Set ==
  /\ pc = "set"
  /\ UartOptionSet(IF again THEN Baudrate ELSE Rates[Index])
  /\ pc' = "ask"
  /\ UNCHANGED <<given, Index, again, ret, matching, port, leaked, rx, toHost,
                 toModule, mod>>

(* Mutant of Ask: MatchModule starts without tcflush. *)
AskUnflushed ==
  /\ pc = "ask"
  /\ \E line \in Flushed : UartWrite(line, [cmd |-> "OFFMSG", rate |-> rate, arg |-> 0])
  /\ WaitCntr' = WaitMax
  /\ ReadBuf' = << >>
  /\ pc' = "match"
  /\ UNCHANGED <<given, Index, again, ret, uart, rx, toHost, mod>>

Ask ==                                  \* the start of MatchModule
  /\ pc = "ask"
  /\ rx' = << >>
  /\ \E line \in Flushed : UartWrite(line, [cmd |-> "OFFMSG", rate |-> rate, arg |-> 0])
  /\ WaitCntr' = WaitMax
  /\ ReadBuf' = << >>
  /\ pc' = "match"
  /\ UNCHANGED <<given, Index, again, ret, uart, toHost, mod>>

(* What this turn of the loop reads, and ReadBuf with it. *)
Count == Least(Len(rx), TempSize)
(* Mutant of Filled: every turn copies to the start of ReadBuf. *)
FilledAnew == SubSeq(rx, 1, Count)

Filled == ReadBuf \o SubSeq(rx, 1, Count)

Fits == Len(ReadBuf) + Count < BufSize

(* Mutant of Answered: whatever is read is an answer. *)
AnsweredByAnything(buf) == buf # << >>

(* strstr: the answer, in front of the first NUL. *)
Answered(buf) ==
  \E i \in 1..(Len(buf) - 1) :
    /\ buf[i] = "answer1" /\ buf[i + 1] = "answer2"
    /\ \A j \in 1..i : buf[j] \notin {"nul", "frame"}

Quiet == rx = << >> /\ toHost = << >> /\ toModule = << >>

ReadAnswer ==
  /\ pc = "match"
  /\ Count > 0 /\ Fits /\ Answered(Filled)
  /\ ReadBuf' = Filled
  /\ IF again THEN UartClosed /\ Return("OK")
              ELSE /\ rx' = SubSeq(rx, Count + 1, Len(rx))
                   /\ pc' = "configure"
                   /\ UNCHANGED <<port, ret, toModule>>
  /\ UNCHANGED <<given, Index, again, WaitCntr, leaked, rate, toHost, mod, faults>>

(* Mutant of ReadOn: the turns are not counted. *)
ReadOnUncounted ==
  /\ pc = "match"
  /\ WaitCntr > 1
  /\ Count > 0 => Fits /\ ~Answered(Filled)
  /\ env.timely => Count > 0 \/ Quiet
  /\ ReadBuf' = Filled
  /\ rx' = SubSeq(rx, Count + 1, Len(rx))
  /\ UNCHANGED <<WaitCntr, fitting, uart, toHost, toModule, mod, faults>>

ReadOn ==
  /\ pc = "match"
  /\ WaitCntr > 1
  /\ Count > 0 => Fits /\ ~Answered(Filled)
  /\ env.timely => Count > 0 \/ Quiet
  /\ ReadBuf' = Filled
  /\ rx' = SubSeq(rx, Count + 1, Len(rx))
  /\ WaitCntr' = WaitCntr - 1
  /\ UNCHANGED <<fitting, uart, toHost, toModule, mod, faults>>

(* MatchModule returns -1: no room, or no answer in the last turn. *)
NoMatch ==
  /\ pc = "match"
  /\ \/ Count > 0 /\ ~Fits
     \/ /\ WaitCntr = 1
        /\ Count > 0 => Fits /\ ~Answered(Filled)
        /\ env.timely => Count > 0 \/ Quiet

(* Mutant of NextRate: the last rate is not noticed. *)
NextRatePastTable ==
  /\ NoMatch /\ ~again /\ Index <= Len(Rates)
  /\ Index' = Index + 1
  /\ pc' = "set"
  /\ rx' = SubSeq(rx, Count + 1, Len(rx))
  /\ UNCHANGED <<given, again, ret, matching, uart, toHost, toModule, mod, faults>>

NextRate ==
  /\ NoMatch /\ ~again /\ Index < Len(Rates)
  /\ Index' = Index + 1
  /\ pc' = "set"
  /\ rx' = SubSeq(rx, Count + 1, Len(rx))
  /\ UNCHANGED <<given, again, ret, matching, uart, toHost, toModule, mod, faults>>

(* Mutant of GiveUp: the second MatchModule is called, and its result ignored. *)
GiveUpInSearchOnly ==
  /\ NoMatch /\ (again \/ Index = Len(Rates))
  /\ UartClosed
  /\ Return(IF again THEN "OK" ELSE "FAILED")
  /\ UNCHANGED <<given, Index, again, matching, leaked, rate, toHost, mod, faults>>

(* Mutant of GiveUp: the port is not closed when the search fails. *)
GiveUpPortOpen ==
  /\ NoMatch /\ (again \/ Index = Len(Rates))
  /\ IF again THEN UartClosed ELSE UNCHANGED <<port, rx, toModule>>
  /\ Return("FAILED")
  /\ UNCHANGED <<given, Index, again, matching, leaked, rate, toHost, mod, faults>>

GiveUp ==
  /\ NoMatch /\ (again \/ Index = Len(Rates))
  /\ UartClosed
  /\ Return("FAILED")
  /\ UNCHANGED <<given, Index, again, matching, leaked, rate, toHost, mod, faults>>

Configure ==
  /\ pc = "configure"
  /\ UartWrite(toModule, [cmd |-> "CONFIGCOM", rate |-> rate, arg |-> Baudrate])
  /\ pc' = "settle"
  /\ UNCHANGED <<given, Index, again, ret, matching, uart, rx, toHost, mod>>

(* Half a second later. *)
Settle ==
  /\ pc = "settle"
  /\ env.timely => toHost = << >> /\ toModule = << >>
  /\ UartClosed
  /\ again' = TRUE
  /\ pc' = "open"
  /\ UNCHANGED <<given, Index, ret, matching, leaked, rate, toHost, mod, faults>>

Host ==
  \/ Open \/ Set \/ Ask \/ Configure \/ Settle
  \/ ReadAnswer \/ ReadOn \/ NextRate \/ GiveUp
-----------------------------------------------------------------------------
(* The module and the line: external. *)

Sent(token) == [token |-> token, rate |-> mod.rate]

ModuleTakes ==
  /\ toModule # << >>
  /\ toModule' = Tail(toModule)
  /\ LET c == Head(toModule) IN
     \/ c.rate # mod.rate /\ UNCHANGED <<mod, toHost, faults>>
     \/ /\ c.rate = mod.rate /\ c.cmd = "OFFMSG"
        /\ mod' = [mod EXCEPT !.talks = FALSE]
        /\ toHost' = toHost \o <<Sent("answer1"), Sent("answer2")>>
        /\ UNCHANGED faults
     \/ /\ c.rate = mod.rate /\ c.cmd = "REQUEST"
        /\ toHost' = Append(toHost, Sent("frame"))
        /\ UNCHANGED <<mod, faults>>
     \/ /\ c.rate = mod.rate /\ c.cmd = "CONFIGCOM"
        /\ toHost' = Append(toHost, Sent("text"))
        /\ \/ mod' = [mod EXCEPT !.rate = c.arg] /\ UNCHANGED faults
           \/ UNCHANGED mod /\ Fault("refusal")
  /\ UNCHANGED <<fitting, matching, uart, rx>>

ModuleTalks ==
  /\ mod.talks
  /\ Fault("talk")
  /\ toHost' = Append(toHost, Sent("text"))
  /\ UNCHANGED <<fitting, matching, uart, rx, toModule, mod>>

(* A byte is received at the rate the port has when it comes in. *)
Arrive ==
  /\ toHost # << >>
  /\ toHost' = Tail(toHost)
  /\ \E t \in IF Head(toHost).rate = rate THEN {Head(toHost).token} ELSE Garbage :
       rx' = IF port THEN Append(rx, t) ELSE rx
  /\ UNCHANGED <<fitting, matching, uart, toModule, mod, faults>>

Lose ==
  /\ Fault("lost")
  /\ \/ /\ toHost # << >>
        /\ toHost' = Tail(toHost)
        /\ UNCHANGED toModule
     \/ /\ toModule # << >>
        /\ toModule' = Tail(toModule)
        /\ UNCHANGED toHost
  /\ UNCHANGED <<fitting, matching, uart, rx, mod>>

Next == Host \/ ModuleTakes \/ ModuleTalks \/ Arrive \/ Lose

Spec == Init /\ [][Next]_vars

(* MatchModule counts its turns and never blocks: the port is opened with
   O_NONBLOCK.  The module takes what it gets, and what is sent arrives. *)
FairSpec == Spec /\ WF_vars(Host) /\ WF_vars(ModuleTakes) /\ WF_vars(Arrive)
-----------------------------------------------------------------------------
Commands == [cmd : {"OFFMSG", "CONFIGCOM", "REQUEST"}, rate : RateTable, arg : RateTable \cup {0}]

TypeOK ==
  /\ Baudrate \in RateTable
  /\ env \in Environments
  /\ pc \in {"open", "set", "ask", "match", "configure", "settle", "done"}
  /\ Index \in DOMAIN Rates
  /\ again \in BOOLEAN
  /\ ret \in {"NONE", "OK", "FAILED"}
  /\ WaitCntr \in 0..WaitMax
  /\ ReadBuf \in Seq(Tokens)
  /\ port \in BOOLEAN
  /\ leaked \in Nat
  /\ rate \in RateTable
  /\ rx \in Seq(Tokens)
  /\ toHost \in Seq([token : Tokens, rate : RateTable])
  /\ toModule \in Seq(Commands)
  /\ mod \in [rate : RateTable, talks : BOOLEAN]
  /\ faults \in [FaultKinds -> Nat]

(* If the port could be set to the rates asked of it, a return of 0 means that
   port and module both talk at the rate the user chose: no answer of the
   search, no late answer and no refused or lost CONFIGCOM passes for the
   answer at the new rate (UpgradeM7xx.c:740, 831-846). *)
FittedMeansAgreed ==
  ret = "OK" /\ faults["option"] = 0 => rate = Baudrate /\ mod.rate = Baudrate

(* CONFIGCOM goes out at the rate the module talks at: no answer that came
   in before the port was set to its rate, and no remains of an earlier
   MatchModule, end the search at the wrong rate, whether UartOptionSet
   succeeded or not (UpgradeM7xx.c:740-756, 803-828). *)
FoundAtItsRate == pc = "configure" => mod.rate = rate

(* However the search, the configuration and the second match end, no
   descriptor is left open, but for the one UartOpen forgets when fcntl
   fails (UpgradeM7xx.c:796-860, UartCommon.c:56-60). *)
PortClosed == pc \in {"open", "done"} <=> ~port

(* When the call succeeds, nothing of a session that was killed just before is
   on the line any more: no late frame of it can reach the session that
   follows, whose frame numbers start again (UpgradeM7xx.c:740-758, 854-860,
   UpgradeProtocol.c:191-215). *)
OldTrafficGone ==
  ret = "OK" =>
    /\ \A i \in DOMAIN toHost : toHost[i].token # "frame"
    /\ \A i \in DOMAIN toModule : toModule[i].cmd # "REQUEST"
    /\ \A i \in DOMAIN rx : rx[i] # "frame"

(* The caller need not know of tokens, turns and flushes: to UpgradeM7xx the
   call is one of RateAgreement, in which the module moves at most once, to the
   rate asked for, and 0 is returned only on agreement (UpgradeM7xx.c:785-861). *)
Agreement == INSTANCE RateAgreement WITH
  Rates <- RateTable, wanted <- Baudrate, modRate <- mod.rate,
  misset <- faults["option"] > 0, verdict <- ret

ReachesAgreement == Agreement!Spec

(* The call returns. *)
FitReturns == <>(pc = "done")

(* A module that answers in time and whose messages leave room for the answer
   is found at whichever rate it talks, moved to the new rate, and found
   there. *)
Undisturbed == env.timely /\ \A k \in FaultKinds \ {"talk"} : env.limit[k] = 0

FitsTimelyModule == Undisturbed => <>(ret = "OK")

(* "fit baud rate ... =0:success" (UpgradeM7xx.c:776-781): 0 is returned only
   when the port has been set to the rate that was asked for. *)
SuccessMeansFitted == ret = "OK" => rate = Baudrate
=============================================================================
