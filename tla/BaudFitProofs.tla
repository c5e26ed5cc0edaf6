--------------------------- MODULE BaudFitProofs ---------------------------
(***************************************************************************)
(* Proofs about BaudFit for every table of rates, every number of turns,   *)
(* every size of the buffers and every environment.                        *)
(*                                                                         *)
(* An answer says that the module heard OFFMSG at the rate at which it was *)
(* sent.  It is taken only if it has come in since the flush at the start  *)
(* of MatchModule, at the rate the port has had since, and the module has  *)
(* not moved in between, or has moved to the rate that was asked for.      *)
(***************************************************************************)
EXTENDS BaudFit, TLAPS

Answers == {"answer1", "answer2"}

Holds(s, tokens) == \E i \in DOMAIN s : s[i] \in tokens

Coming(tokens) == \E i \in DOMAIN toHost : toHost[i].token \in tokens

(* An answer has come in since MatchModule began. *)
Heard == Holds(ReadBuf, Answers) \/ Holds(rx, Answers)

(* Where the call is, and what it has returned. *)
Progress ==
  /\ pc \in {"open", "done"} <=> ~port
  /\ ret = "NONE" <=> pc # "done"
  /\ ret = "OK" => again
  /\ pc \in {"configure", "settle"} => ~again

(* Only the configuration moves the module, and to no other rate than the
   one asked for. *)
MovedAsAsked ==
  /\ \A i \in DOMAIN toModule :
       toModule[i].cmd = "CONFIGCOM" =>
         toModule[i].arg = Baudrate /\ (again \/ pc = "settle")
  /\ \A i \in DOMAIN toHost :
       toHost[i].rate = mod.rate \/ (mod.rate = Baudrate /\ (again \/ pc = "settle"))

(* What an answer in the buffers is worth. *)
HeardAtItsRate ==
  /\ pc = "match" /\ ~again /\ Heard => mod.rate = rate
  /\ pc = "configure" => mod.rate = rate
  /\ again /\ faults["option"] = 0 =>
       /\ pc \in {"ask", "match"} \/ ret = "OK" => rate = Baudrate
       /\ (pc = "match" /\ Heard) \/ ret = "OK" => mod.rate = Baudrate

FramesFirst(s) ==
  \A i, j \in DOMAIN s : s[i] \in Answers /\ s[j] = "frame" => j < i

(* The line keeps the order: what a killed session has left is in front of
   the first answer. *)
LeftInFront ==
  /\ \A i \in DOMAIN toModule : toModule[i].cmd = "REQUEST" =>
       i = 1 /\ ~Heard /\ ~Coming(Answers)
  /\ Coming({"frame"}) => ~Heard
  /\ \A i, j \in DOMAIN toHost :
       toHost[i].token \in Answers /\ toHost[j].token = "frame" => j < i
  /\ Holds(ReadBuf, Answers) => ~Holds(rx, {"frame"})
  /\ FramesFirst(rx)
  /\ FramesFirst(ReadBuf)

(* So nothing of it is left once an answer has been taken. *)
Clean ==
  /\ ~Coming({"frame"})
  /\ ~Holds(rx, {"frame"})
  /\ \A i \in DOMAIN toModule : toModule[i].cmd # "REQUEST"

CleanAfterMatch == pc \in {"configure", "settle"} \/ again => Clean

FitInv ==
  /\ TypeOK
  /\ Progress
  /\ MovedAsAsked
  /\ HeardAtItsRate
  /\ LeftInFront
  /\ CleanAfterMatch

-----------------------------------------------------------------------------
(* Sequences. *)

LEMMA AppendFacts ==
  ASSUME NEW S, NEW s \in Seq(S), NEW x \in S
  PROVE  /\ Append(s, x) \in Seq(S)
         /\ DOMAIN Append(s, x) = 1..(Len(s) + 1)
         /\ DOMAIN s = 1..Len(s)
         /\ \A i \in 1..Len(s) : Append(s, x)[i] = s[i]
         /\ Append(s, x)[Len(s) + 1] = x
OBVIOUS

LEMMA TailFacts ==
  ASSUME NEW S, NEW s \in Seq(S), s # << >>
  PROVE  /\ Head(s) \in S
         /\ Head(s) = s[1]
         /\ 1 \in DOMAIN s
         /\ Tail(s) \in Seq(S)
         /\ \A i \in DOMAIN Tail(s) : i \in Nat \ {0} /\ i + 1 \in DOMAIN s /\ Tail(s)[i] = s[i + 1]
OBVIOUS

(* A part of a sequence, and where its elements come from. *)
LEMMA PartFacts ==
  ASSUME NEW S, NEW s \in Seq(S), NEW m \in Nat, NEW n \in Nat, m <= Len(s), n <= Len(s)
  PROVE  /\ SubSeq(s, m + 1, n) \in Seq(S)
         /\ Len(SubSeq(s, m + 1, n)) = IF m <= n THEN n - m ELSE 0
         /\ \A i \in DOMAIN SubSeq(s, m + 1, n) :
              /\ i \in Nat \ {0}
              /\ i + m \in DOMAIN s
              /\ i + m <= n
              /\ SubSeq(s, m + 1, n)[i] = s[i + m]
OBVIOUS

LEMMA JoinFacts ==
  ASSUME NEW S, NEW s \in Seq(S), NEW t \in Seq(S)
  PROVE  /\ s \o t \in Seq(S)
         /\ Len(s \o t) = Len(s) + Len(t)
         /\ DOMAIN s = 1..Len(s) /\ DOMAIN t = 1..Len(t)
         /\ \A i \in DOMAIN s : i \in DOMAIN (s \o t) /\ (s \o t)[i] = s[i]
         /\ \A i \in DOMAIN t : i + Len(s) \in DOMAIN (s \o t) /\ (s \o t)[i + Len(s)] = t[i]
         /\ \A i \in DOMAIN (s \o t) :
              \/ i \in DOMAIN s /\ (s \o t)[i] = s[i]
              \/ i - Len(s) \in DOMAIN t /\ (s \o t)[i] = t[i - Len(s)]
OBVIOUS

-----------------------------------------------------------------------------
(* Types. *)

LEMMA TableFacts ==
  /\ RateTable \subseteq Nat
  /\ DOMAIN Rates = 1..Len(Rates)
  /\ Len(Rates) \in Nat \ {0}
  /\ \A i \in DOMAIN Rates : Rates[i] \in RateTable
BY RatesAssumption DEF RateTable

(* What a turn of MatchModule has read. *)
LEMMA CountFacts ==
  ASSUME rx \in Seq(Tokens)
  PROVE  Count \in Nat /\ Count <= Len(rx) /\ Len(rx) \in Nat
BY SizesAssumption DEF Count, Least

LEMMA FilledType ==
  ASSUME rx \in Seq(Tokens), ReadBuf \in Seq(Tokens)
  PROVE  /\ Filled \in Seq(Tokens)
         /\ SubSeq(rx, Count + 1, Len(rx)) \in Seq(Tokens)
<1>1. Count \in Nat /\ Count <= Len(rx) /\ Len(rx) \in Nat
  BY CountFacts
<1>2. SubSeq(rx, Count + 1, Len(rx)) \in Seq(Tokens)
  BY <1>1, PartFacts
<1>3. SubSeq(rx, 0 + 1, Count) \in Seq(Tokens)
  BY <1>1, PartFacts
<1>4. Filled \in Seq(Tokens)
  BY <1>3 DEF Filled
<1>5. QED
  BY <1>2, <1>4

LEMMA FaultType ==
  ASSUME NEW k \in FaultKinds, faults \in [FaultKinds -> Nat], Fault(k)
  PROVE  /\ faults' \in [FaultKinds -> Nat]
         /\ k = "option" => faults'["option"] # 0
         /\ k # "option" => faults'["option"] = faults["option"]
BY DEF Fault, FaultKinds

(* tcflush and UartWrite: the rest of the line, and the command behind it. *)
LEMMA FlushedType ==
  ASSUME TypeOK, NEW line \in Flushed
  PROVE  /\ line \in Seq(Commands)
         /\ \A i \in DOMAIN line : i \in DOMAIN toModule /\ line[i] = toModule[i]
<1>1. toModule \in Seq(Commands)
  BY DEF TypeOK
<1>2. PICK n \in 0..Len(toModule) : line = SubSeq(toModule, 1, n)
  BY DEF Flushed
<1>3. n \in Nat /\ n <= Len(toModule)
  BY <1>1, <1>2
<1>4. line = SubSeq(toModule, 0 + 1, n)
  BY <1>2
<1>5. line \in Seq(Commands)
  BY <1>1, <1>3, <1>4, PartFacts
<1>6. \A i \in DOMAIN line : i \in Nat \ {0} /\ i + 0 \in DOMAIN toModule /\ line[i] = toModule[i + 0]
  BY <1>1, <1>3, <1>4, PartFacts
<1>7. QED
  BY <1>5, <1>6

LEMMA WriteType ==
  ASSUME TypeOK, NEW line \in Seq(Commands), NEW cmd \in Commands, UartWrite(line, cmd)
  PROVE  /\ toModule' \in Seq(Commands)
         /\ \A i \in DOMAIN toModule' :
              \/ i \in DOMAIN line /\ toModule'[i] = line[i]
              \/ i = Len(line) + 1 /\ toModule'[i] = cmd
         /\ faults' \in [FaultKinds -> Nat]
         /\ faults'["option"] = faults["option"]
<1>1. CASE toModule' = Append(line, cmd) /\ UNCHANGED faults
  BY <1>1, AppendFacts DEF TypeOK
<1>2. CASE toModule' = line /\ Fault("write")
  BY <1>2, FaultType DEF TypeOK, FaultKinds
<1>3. QED
  BY <1>1, <1>2 DEF UartWrite

LEMMA AskType ==
  ASSUME TypeOK, Ask
  PROVE  TypeOK'
<1>1. PICK line \in Flushed : UartWrite(line, [cmd |-> "OFFMSG", rate |-> rate, arg |-> 0])
  BY DEF Ask
<1>2. [cmd |-> "OFFMSG", rate |-> rate, arg |-> 0] \in Commands
  BY DEF TypeOK, Commands
<1>3. toModule' \in Seq(Commands) /\ faults' \in [FaultKinds -> Nat]
  BY <1>1, <1>2, FlushedType, WriteType
<1>4. QED
  BY <1>3, SizesAssumption DEF Ask, TypeOK, given, uart

LEMMA ConfigureType ==
  ASSUME TypeOK, Configure
  PROVE  TypeOK'
<1>1. [cmd |-> "CONFIGCOM", rate |-> rate, arg |-> Baudrate] \in Commands
  BY DEF TypeOK, Commands
<1>2. toModule' \in Seq(Commands) /\ faults' \in [FaultKinds -> Nat]
  BY <1>1, WriteType DEF Configure, TypeOK
<1>3. QED
  BY <1>2 DEF Configure, TypeOK, given, uart, matching

LEMMA ClosedType ==
  ASSUME TypeOK, UartClosed
  PROVE  /\ port' = FALSE
         /\ rx' = << >>
         /\ toModule' \in Seq(Commands)
BY FlushedType DEF UartClosed

LEMMA HostType ==
  ASSUME TypeOK, Host
  PROVE  TypeOK'
<1>1. CASE Open
  <2>1. CASE UartOpened /\ pc' = "set" /\ UNCHANGED ret
    BY <1>1, <2>1 DEF Open, UartOpened, TypeOK, given, matching
  <2>2. CASE UartNotOpened /\ Return("FAILED")
    <3>1. faults' \in [FaultKinds -> Nat]
      BY <2>2, FaultType DEF UartNotOpened, FaultKinds, TypeOK
    <3>2. leaked' \in Nat /\ port' = port /\ pc' = "done" /\ ret' = "FAILED"
      BY <2>2 DEF UartNotOpened, Return, TypeOK
    <3>3. QED
      BY <1>1, <3>1, <3>2 DEF Open, TypeOK, given, matching
  <2>3. QED
    BY <1>1, <2>1, <2>2 DEF Open
<1>2. CASE Set
  <2>1. rate' \in RateTable
    BY <1>2, TableFacts DEF Set, UartOptionSet, TypeOK
  <2>2. faults' \in [FaultKinds -> Nat]
    BY <1>2, FaultType DEF Set, UartOptionSet, TypeOK, FaultKinds
  <2>3. QED
    BY <1>2, <2>1, <2>2 DEF Set, TypeOK, given, matching
<1>3. CASE Ask
  BY <1>3, AskType
<1>4. CASE Configure
  BY <1>4, ConfigureType
<1>5. CASE Settle
  <2>1. port' \in BOOLEAN /\ rx' \in Seq(Tokens) /\ toModule' \in Seq(Commands)
    BY <1>5, ClosedType DEF Settle
  <2>2. QED
    BY <1>5, <2>1 DEF Settle, TypeOK, given, matching
<1>6. rx \in Seq(Tokens) /\ ReadBuf \in Seq(Tokens)
  BY DEF TypeOK
<1>7. CASE ReadAnswer
  <2>1. CASE again
    <3>1. port' \in BOOLEAN /\ rx' \in Seq(Tokens) /\ toModule' \in Seq(Commands)
      BY <1>7, <2>1, ClosedType DEF ReadAnswer
    <3>2. ReadBuf' \in Seq(Tokens)
      BY <1>6, <1>7, FilledType DEF ReadAnswer
    <3>3. QED
      BY <1>7, <2>1, <3>1, <3>2 DEF ReadAnswer, Return, TypeOK, given
  <2>2. CASE ~again
    BY <1>6, <1>7, <2>2, FilledType DEF ReadAnswer, TypeOK, given
  <2>3. QED
    BY <2>1, <2>2
<1>8. CASE ReadOn
  <2>1. ReadBuf' \in Seq(Tokens) /\ rx' \in Seq(Tokens)
    BY <1>6, <1>8, FilledType DEF ReadOn
  <2>2. WaitCntr' \in 0..WaitMax
    BY <1>8, SizesAssumption DEF ReadOn, TypeOK
  <2>3. QED
    BY <1>8, <2>1, <2>2 DEF ReadOn, TypeOK, fitting, given, uart
<1>9. CASE NextRate
  <2>1. rx' \in Seq(Tokens)
    BY <1>6, <1>9, FilledType DEF NextRate
  <2>2. Index' \in DOMAIN Rates
    BY <1>9, TableFacts DEF NextRate, TypeOK
  <2>3. QED
    BY <1>9, <2>1, <2>2 DEF NextRate, TypeOK, given, matching, uart
<1>10. CASE GiveUp
  <2>1. port' \in BOOLEAN /\ rx' \in Seq(Tokens) /\ toModule' \in Seq(Commands)
    BY <1>10, ClosedType DEF GiveUp
  <2>2. QED
    BY <1>10, <2>1 DEF GiveUp, Return, TypeOK, given, matching
<1>11. QED
  BY <1>1, <1>2, <1>3, <1>4, <1>5, <1>7, <1>8, <1>9, <1>10 DEF Host

(* What is on the line towards the host. *)
Messages == [token : Tokens, rate : RateTable]

LEMMA MessagesType == TypeOK => toHost \in Seq(Messages)
BY DEF TypeOK, Messages

(* One more token on the line, or one less. *)
LEMMA ComingType ==
  ASSUME TypeOK, NEW t \in Tokens
  PROVE  /\ Append(toHost, Sent(t)) \in Seq(Messages)
         /\ DOMAIN toHost = 1..Len(toHost)
         /\ \A i \in DOMAIN Append(toHost, Sent(t)) :
              \/ i \in DOMAIN toHost /\ Append(toHost, Sent(t))[i] = toHost[i]
              \/ i = Len(toHost) + 1 /\ Append(toHost, Sent(t))[i] = Sent(t)
<1>1. Sent(t) \in Messages
  BY DEF TypeOK, Sent, Messages
<1>2. QED
  BY <1>1, AppendFacts, MessagesType

LEMMA TokenType == "answer1" \in Tokens /\ "answer2" \in Tokens /\ "text" \in Tokens /\ "frame" \in Tokens
BY DEF Tokens

LEMMA HostLineType ==
  ASSUME TypeOK, toHost # << >>
  PROVE  /\ Head(toHost) = toHost[1] /\ 1 \in DOMAIN toHost
         /\ Head(toHost) \in Messages
         /\ Tail(toHost) \in Seq(Messages)
         /\ \A i \in DOMAIN Tail(toHost) :
              i \in Nat \ {0} /\ i + 1 \in DOMAIN toHost /\ Tail(toHost)[i] = toHost[i + 1]
<1>1. toHost \in Seq(Messages)
  BY MessagesType
<1>2. QED
  BY <1>1, TailFacts

LEMMA ModuleLineType ==
  ASSUME TypeOK, toModule # << >>
  PROVE  /\ Head(toModule) = toModule[1] /\ 1 \in DOMAIN toModule
         /\ Head(toModule) \in Commands
         /\ Tail(toModule) \in Seq(Commands)
         /\ \A i \in DOMAIN Tail(toModule) :
              i \in Nat \ {0} /\ i + 1 \in DOMAIN toModule /\ Tail(toModule)[i] = toModule[i + 1]
<1>1. toModule \in Seq(Commands)
  BY DEF TypeOK
<1>2. QED
  BY <1>1, TailFacts

LEMMA OutsideType ==
  ASSUME TypeOK, MovedAsAsked, ModuleTakes \/ ModuleTalks \/ Arrive \/ Lose
  PROVE  TypeOK'
<1>1. CASE ModuleTakes
  <2> DEFINE c == Head(toModule)
  <2>1. c \in Commands /\ toModule' \in Seq(Commands) /\ 1 \in DOMAIN toModule /\ c = toModule[1]
    BY <1>1, ModuleLineType DEF ModuleTakes
  <2>2. c.cmd = "CONFIGCOM" => c.arg \in RateTable
    BY <2>1 DEF MovedAsAsked, TypeOK
  <2>3. toHost' \in Seq(Messages)
    <3>1. Sent("answer1") \in Messages
          /\ Sent("answer2") \in Messages
          /\ toHost \in Seq(Messages)
      BY TokenType, MessagesType DEF TypeOK, Sent, Messages
    <3>2. toHost \o <<Sent("answer1"), Sent("answer2")>> \in Seq(Messages)
      BY <3>1
    <3>3. /\ Append(toHost, Sent("text")) \in Seq(Messages)
          /\ Append(toHost, Sent("frame")) \in Seq(Messages)
      BY ComingType, TokenType
    <3>4. QED
      BY <1>1, <3>1, <3>2, <3>3 DEF ModuleTakes
  <2>4. mod' \in [rate : RateTable, talks : BOOLEAN]
    BY <1>1, <2>2 DEF ModuleTakes, TypeOK
  <2>5. faults' \in [FaultKinds -> Nat]
    BY <1>1, FaultType DEF ModuleTakes, TypeOK, FaultKinds
  <2>6. QED
    BY <1>1, <2>1, <2>3, <2>4, <2>5 DEF ModuleTakes, Messages, TypeOK, fitting, given, matching, uart
<1>2. CASE ModuleTalks
  <2>1. toHost' \in Seq(Messages)
    BY <1>2, ComingType, TokenType DEF ModuleTalks
  <2>2. faults' \in [FaultKinds -> Nat]
    BY <1>2, FaultType DEF ModuleTalks, TypeOK, FaultKinds
  <2>3. QED
    BY <1>2, <2>1, <2>2 DEF ModuleTalks, Messages, TypeOK, fitting, given, matching, uart
<1>3. CASE Arrive
  <2>1. Head(toHost) \in Messages
        /\ toHost' \in Seq(Messages)
    BY <1>3, HostLineType DEF Arrive
  <2>2. PICK t \in IF Head(toHost).rate = rate THEN {Head(toHost).token} ELSE Garbage :
          rx' = IF port THEN Append(rx, t) ELSE rx
    BY <1>3 DEF Arrive
  <2>3. t \in Tokens
    BY <2>1, <2>2 DEF Garbage, Tokens, Messages
  <2>4. rx' \in Seq(Tokens)
    BY <2>2, <2>3 DEF TypeOK
  <2>5. QED
    BY <1>3, <2>1, <2>4 DEF Arrive, Messages, TypeOK, fitting, given, matching, uart
<1>4. CASE Lose
  <2>1. faults' \in [FaultKinds -> Nat]
    BY <1>4, FaultType DEF Lose, TypeOK, FaultKinds
  <2>2. /\ toHost' \in Seq(Messages)
        /\ toModule' \in Seq(Commands)
    BY <1>4, HostLineType, ModuleLineType, MessagesType DEF Lose, TypeOK
  <2>3. QED
    BY <1>4, <2>1, <2>2 DEF Lose, Messages, TypeOK, fitting, given, matching, uart
<1>5. QED
  BY <1>1, <1>2, <1>3, <1>4

-----------------------------------------------------------------------------
(* Where the call is. *)

LEMMA OutsideLeaves ==
  ASSUME ModuleTakes \/ ModuleTalks \/ Arrive \/ Lose
  PROVE  UNCHANGED <<Baudrate, env, pc, Index, again, ret, WaitCntr, ReadBuf, port, leaked, rate>>
<1>1. CASE ModuleTakes
  BY <1>1 DEF ModuleTakes, fitting, given, matching, uart
<1>2. CASE ModuleTalks
  BY <1>2 DEF ModuleTalks, fitting, given, matching, uart
<1>3. CASE Arrive
  BY <1>3 DEF Arrive, fitting, given, matching, uart
<1>4. CASE Lose
  BY <1>4 DEF Lose, fitting, given, matching, uart
<1>5. QED
  BY <1>1, <1>2, <1>3, <1>4

LEMMA ProgressNext ==
  ASSUME TypeOK, Progress, Next
  PROVE  Progress'
<1>1. CASE Open
  BY <1>1 DEF Open, UartOpened, UartNotOpened, Return, TypeOK, Progress
<1>2. CASE Set
  BY <1>2 DEF Set, Progress
<1>3. CASE Ask
  BY <1>3 DEF Ask, uart, Progress
<1>4. CASE Configure
  BY <1>4 DEF Configure, uart, Progress
<1>5. CASE Settle
  BY <1>5 DEF Settle, UartClosed, Progress
<1>6. CASE ReadAnswer
  BY <1>6 DEF ReadAnswer, UartClosed, Return, Progress
<1>7. CASE ReadOn
  BY <1>7 DEF ReadOn, fitting, uart, Progress
<1>8. CASE NextRate
  BY <1>8 DEF NextRate, NoMatch, uart, Progress
<1>9. CASE GiveUp
  BY <1>9 DEF GiveUp, NoMatch, UartClosed, Return, Progress
<1>10. CASE ModuleTakes \/ ModuleTalks \/ Arrive \/ Lose
  BY <1>10, OutsideLeaves DEF Progress
<1>11. QED
  BY <1>1, <1>2, <1>3, <1>4, <1>5, <1>6, <1>7, <1>8, <1>9, <1>10 DEF Next, Host

(* The module is configured before the port is opened again, and not after. *)
Configured == again \/ pc = "settle"

LEMMA ConfiguredNext ==
  ASSUME Progress, Next
  PROVE  Configured => Configured'
<1>1. CASE Open
  BY <1>1 DEF Open, Configured
<1>2. CASE Set
  BY <1>2 DEF Set, Configured
<1>3. CASE Ask
  BY <1>3 DEF Ask, Configured
<1>4. CASE Configure
  BY <1>4 DEF Configure, Configured
<1>5. CASE Settle
  BY <1>5 DEF Settle, Configured
<1>6. CASE ReadAnswer
  BY <1>6 DEF ReadAnswer, Configured
<1>7. CASE ReadOn
  BY <1>7 DEF ReadOn, fitting, Configured
<1>8. CASE NextRate
  BY <1>8 DEF NextRate, NoMatch, Configured
<1>9. CASE GiveUp
  BY <1>9 DEF GiveUp, NoMatch, Configured
<1>10. CASE ModuleTakes \/ ModuleTalks \/ Arrive \/ Lose
  BY <1>10, OutsideLeaves DEF Configured
<1>11. QED
  BY <1>1, <1>2, <1>3, <1>4, <1>5, <1>6, <1>7, <1>8, <1>9, <1>10 DEF Next, Host

-----------------------------------------------------------------------------
(* The lines. *)

OffMsg == [cmd |-> "OFFMSG", rate |-> rate, arg |-> 0]

ConfigCom == [cmd |-> "CONFIGCOM", rate |-> rate, arg |-> Baudrate]

(* A command moves to the front, or is new. *)
LEMMA CommandsNext ==
  ASSUME TypeOK, Next, NEW i \in DOMAIN toModule'
  PROVE  \/ \E j \in DOMAIN toModule : 1 <= i /\ i <= j /\ toModule'[i] = toModule[j]
         \/ Ask /\ toModule'[i] = OffMsg
         \/ Configure /\ toModule'[i] = ConfigCom
<1>1. toModule \in Seq(Commands) /\ DOMAIN toModule = 1..Len(toModule)
  BY DEF TypeOK
<1>2. ASSUME UNCHANGED toModule
      PROVE  \E j \in DOMAIN toModule : 1 <= i /\ i <= j /\ toModule'[i] = toModule[j]
  BY <1>1, <1>2
<1>3. ASSUME UartClosed
      PROVE  \E j \in DOMAIN toModule : 1 <= i /\ i <= j /\ toModule'[i] = toModule[j]
  BY <1>1, <1>3, FlushedType DEF UartClosed
<1>4. ASSUME toModule # << >>, toModule' = Tail(toModule)
      PROVE  \E j \in DOMAIN toModule : 1 <= i /\ i <= j /\ toModule'[i] = toModule[j]
  <2>1. i \in Nat \ {0} /\ i + 1 \in DOMAIN toModule /\ toModule'[i] = toModule[i + 1]
    BY <1>4, ModuleLineType
  <2>2. QED
    BY <2>1
<1>5. CASE Ask
  <2>1. PICK line \in Flushed : UartWrite(line, OffMsg)
    BY <1>5 DEF Ask, OffMsg
  <2>2. OffMsg \in Commands
    BY DEF TypeOK, Commands, OffMsg
  <2>3. (i \in DOMAIN line /\ toModule'[i] = line[i]) \/ toModule'[i] = OffMsg
    BY <2>1, <2>2, FlushedType, WriteType
  <2>4. QED
    BY <1>1, <1>5, <2>1, <2>3, FlushedType
<1>6. CASE Configure
  <2>1. UartWrite(toModule, ConfigCom)
    BY <1>6 DEF Configure, ConfigCom
  <2>2. ConfigCom \in Commands
    BY DEF TypeOK, Commands, ConfigCom
  <2>3. (i \in DOMAIN toModule /\ toModule'[i] = toModule[i]) \/ toModule'[i] = ConfigCom
    BY <1>1, <2>1, <2>2, WriteType
  <2>4. QED
    BY <1>1, <1>6, <2>3
<1>7. CASE Open \/ Set \/ ReadOn \/ NextRate \/ ModuleTalks \/ Arrive
  BY <1>2, <1>7 DEF Open, Set, ReadOn, NextRate, ModuleTalks, Arrive
<1>8. CASE Settle \/ GiveUp
  BY <1>3, <1>8 DEF Settle, GiveUp
<1>9. CASE ReadAnswer
  BY <1>2, <1>3, <1>9 DEF ReadAnswer
<1>10. CASE ModuleTakes
  BY <1>4, <1>10 DEF ModuleTakes
<1>11. CASE Lose
  BY <1>2, <1>4, <1>11 DEF Lose
<1>12. QED
  BY <1>5, <1>6, <1>7, <1>8, <1>9, <1>10, <1>11 DEF Next, Host

(* A token moves to the front, or is new. *)
LEMMA ComingNext ==
  ASSUME TypeOK, Next, NEW i \in DOMAIN toHost'
  PROVE  \/ \E j \in DOMAIN toHost : 1 <= i /\ i <= j /\ toHost'[i] = toHost[j]
         \/ /\ ModuleTakes \/ ModuleTalks
            /\ i > Len(toHost)
            /\ \/ toHost'[i] = Sent("text")
               \/ toHost'[i] = Sent("frame") /\ ModuleTakes /\ Head(toModule).cmd = "REQUEST"
               \/ /\ toHost'[i] \in {Sent("answer1"), Sent("answer2")}
                  /\ ModuleTakes /\ Head(toModule).cmd = "OFFMSG"
<1>1. toHost \in Seq(Messages) /\ DOMAIN toHost = 1..Len(toHost) /\ Len(toHost) \in Nat
  BY MessagesType
<1>2. ASSUME UNCHANGED toHost
      PROVE  \E j \in DOMAIN toHost : 1 <= i /\ i <= j /\ toHost'[i] = toHost[j]
  BY <1>1, <1>2
<1>3. ASSUME toHost # << >>, toHost' = Tail(toHost)
      PROVE  \E j \in DOMAIN toHost : 1 <= i /\ i <= j /\ toHost'[i] = toHost[j]
  <2>1. i \in Nat \ {0} /\ i + 1 \in DOMAIN toHost /\ toHost'[i] = toHost[i + 1]
    BY <1>3, HostLineType
  <2>2. QED
    BY <2>1
<1>4. ASSUME NEW t \in Tokens, toHost' = Append(toHost, Sent(t))
      PROVE  \/ \E j \in DOMAIN toHost : 1 <= i /\ i <= j /\ toHost'[i] = toHost[j]
             \/ i > Len(toHost) /\ toHost'[i] = Sent(t)
  BY <1>1, <1>4, ComingType
<1>5. ASSUME toHost' = toHost \o <<Sent("answer1"), Sent("answer2")>>
      PROVE  \/ \E j \in DOMAIN toHost : 1 <= i /\ i <= j /\ toHost'[i] = toHost[j]
             \/ i > Len(toHost) /\ toHost'[i] \in {Sent("answer1"), Sent("answer2")}
  <2>1. <<Sent("answer1"), Sent("answer2")>> \in Seq(Messages)
    BY TokenType DEF Sent, Messages, TypeOK
  <2>2. \/ i \in DOMAIN toHost /\ toHost'[i] = toHost[i]
        \/ /\ i - Len(toHost) \in DOMAIN <<Sent("answer1"), Sent("answer2")>>
           /\ toHost'[i] = <<Sent("answer1"), Sent("answer2")>>[i - Len(toHost)]
    BY <1>1, <1>5, <2>1, JoinFacts
  <2>3. i \in Int
    BY <1>1, <1>5, <2>1, JoinFacts
  <2>4. QED
    BY <1>1, <2>2, <2>3
<1>6. CASE Host
  <2>1. UNCHANGED toHost
    BY <1>6 DEF Host, Open, Set, Ask, Configure, Settle, ReadAnswer, ReadOn, NextRate, GiveUp
  <2>2. QED
    BY <1>2, <2>1
<1>7. CASE ModuleTakes
  <2>1. \/ UNCHANGED toHost
        \/ toHost' = toHost \o <<Sent("answer1"), Sent("answer2")>> /\ Head(toModule).cmd = "OFFMSG"
        \/ toHost' = Append(toHost, Sent("frame")) /\ Head(toModule).cmd = "REQUEST"
        \/ toHost' = Append(toHost, Sent("text"))
    BY <1>7 DEF ModuleTakes
  <2>2. QED
    BY <1>2, <1>4, <1>5, <1>7, <2>1, TokenType
<1>8. CASE ModuleTalks
  BY <1>4, <1>8, TokenType DEF ModuleTalks
<1>9. CASE Arrive
  BY <1>3, <1>9 DEF Arrive
<1>10. CASE Lose
  BY <1>2, <1>3, <1>10 DEF Lose
<1>11. QED
  BY <1>6, <1>7, <1>8, <1>9, <1>10 DEF Next

-----------------------------------------------------------------------------
(* The rates. *)

LEMMA GivenStays ==
  ASSUME Next
  PROVE  Baudrate' = Baudrate /\ env' = env
<1>1. CASE Host
  BY <1>1 DEF Host, Open, Set, Ask, Configure, Settle, ReadAnswer, ReadOn, NextRate, GiveUp,
              fitting, given
<1>2. CASE ModuleTakes \/ ModuleTalks \/ Arrive \/ Lose
  BY <1>2, OutsideLeaves
<1>3. QED
  BY <1>1, <1>2 DEF Next

(* The module moves when it takes CONFIGCOM, and then to the rate asked for. *)
LEMMA ModuleMoves ==
  ASSUME TypeOK, MovedAsAsked, Next
  PROVE  /\ mod'.rate = mod.rate \/ (mod'.rate = Baudrate /\ Configured)
         /\ mod.rate = Baudrate => mod'.rate = Baudrate
<1>1. CASE Host
  BY <1>1 DEF Host, Open, Set, Ask, Configure, Settle, ReadAnswer, ReadOn, NextRate, GiveUp
<1>2. CASE ModuleTalks \/ Arrive \/ Lose
  BY <1>2 DEF ModuleTalks, Arrive, Lose
<1>3. CASE ModuleTakes
  <2> DEFINE c == Head(toModule)
  <2>1. c.cmd = "CONFIGCOM" => c.arg = Baudrate /\ Configured
    BY <1>3, ModuleLineType DEF ModuleTakes, MovedAsAsked, Configured
  <2>2. \/ mod' = mod \/ mod' = [mod EXCEPT !.talks = FALSE]
        \/ c.cmd = "CONFIGCOM" /\ mod' = [mod EXCEPT !.rate = c.arg]
    BY <1>3 DEF ModuleTakes
  <2>3. mod \in [rate : RateTable, talks : BOOLEAN]
    BY DEF TypeOK
  <2>4. QED
    BY <2>1, <2>2, <2>3
<1>4. QED
  BY <1>1, <1>2, <1>3 DEF Next

LEMMA MovedAsAskedNext ==
  ASSUME TypeOK, Progress, MovedAsAsked, Next
  PROVE  MovedAsAsked'
<1>1. Configured => Configured'
  BY ConfiguredNext
<1>2. Baudrate' = Baudrate
  BY GivenStays
<1>3. ASSUME NEW i \in DOMAIN toModule', toModule'[i].cmd = "CONFIGCOM"
      PROVE  toModule'[i].arg = Baudrate /\ Configured'
  <2>1. CASE \E j \in DOMAIN toModule : toModule'[i] = toModule[j]
    BY <1>1, <1>3, <2>1 DEF MovedAsAsked, Configured
  <2>2. CASE Ask /\ toModule'[i] = OffMsg
    BY <1>3, <2>2 DEF OffMsg
  <2>3. CASE Configure /\ toModule'[i] = ConfigCom
    BY <2>3 DEF ConfigCom, Configure, Configured
  <2>4. QED
    BY <2>1, <2>2, <2>3, CommandsNext
<1>4. ASSUME NEW i \in DOMAIN toHost'
      PROVE  toHost'[i].rate = mod'.rate \/ (mod'.rate = Baudrate /\ Configured')
  <2>1. toHost'[i].rate = mod.rate \/ (mod.rate = Baudrate /\ Configured)
    <3>1. CASE \E j \in DOMAIN toHost : toHost'[i] = toHost[j]
      BY <3>1 DEF MovedAsAsked, Configured
    <3>2. CASE toHost'[i] \in {Sent("text"), Sent("frame"), Sent("answer1"), Sent("answer2")}
      BY <3>2 DEF Sent
    <3>3. QED
      BY <3>1, <3>2, ComingNext
  <2>2. QED
    BY <1>1, <2>1, ModuleMoves
<1>5. QED
  BY <1>2, <1>3, <1>4 DEF MovedAsAsked, Configured

(* What is in the buffers has been read, or has just come in. *)
LEMMA BuffersNext ==
  ASSUME TypeOK, Next
  PROVE  /\ \A i \in DOMAIN rx' :
              \/ \E j \in DOMAIN rx : rx'[i] = rx[j]
              \/ /\ Arrive /\ toHost # << >>
                 /\ \/ rx'[i] \in Garbage
                    \/ rx'[i] = Head(toHost).token /\ Head(toHost).rate = rate
         /\ \A i \in DOMAIN ReadBuf' :
              \/ \E j \in DOMAIN ReadBuf : ReadBuf'[i] = ReadBuf[j]
              \/ \E j \in DOMAIN rx : ReadBuf'[i] = rx[j]
<1>1. rx \in Seq(Tokens) /\ ReadBuf \in Seq(Tokens)
  BY DEF TypeOK
<1>2. Count \in Nat /\ Count <= Len(rx) /\ Len(rx) \in Nat
  BY <1>1, CountFacts
<1>3. \A i \in DOMAIN SubSeq(rx, Count + 1, Len(rx)) :
        i + Count \in DOMAIN rx /\ SubSeq(rx, Count + 1, Len(rx))[i] = rx[i + Count]
  BY <1>1, <1>2, PartFacts
<1>4. \A i \in DOMAIN Filled :
        \/ \E j \in DOMAIN ReadBuf : Filled[i] = ReadBuf[j]
        \/ \E j \in DOMAIN rx : Filled[i] = rx[j]
  <2>1. /\ SubSeq(rx, 0 + 1, Count) \in Seq(Tokens)
        /\ \A j \in DOMAIN SubSeq(rx, 0 + 1, Count) :
             j + 0 \in DOMAIN rx /\ SubSeq(rx, 0 + 1, Count)[j] = rx[j + 0]
    BY <1>1, <1>2, PartFacts
  <2>2. Filled = ReadBuf \o SubSeq(rx, 0 + 1, Count)
    BY DEF Filled
  <2>3. \A i \in DOMAIN Filled :
          \/ i \in DOMAIN ReadBuf /\ Filled[i] = ReadBuf[i]
          \/ /\ i - Len(ReadBuf) \in DOMAIN SubSeq(rx, 0 + 1, Count)
             /\ Filled[i] = SubSeq(rx, 0 + 1, Count)[i - Len(ReadBuf)]
    BY <1>1, <2>1, <2>2, JoinFacts
  <2>4. QED
    BY <2>1, <2>3
<1>5. CASE Open \/ Set \/ Configure \/ ModuleTakes \/ ModuleTalks \/ Lose
  <2>1. rx' = rx /\ ReadBuf' = ReadBuf
    BY <1>5 DEF Open, Set, Configure, ModuleTakes, ModuleTalks, Lose, matching
  <2>2. QED
    BY <2>1
<1>6. CASE Ask
  <2>1. rx' = << >> /\ ReadBuf' = << >>
    BY <1>6 DEF Ask
  <2>2. QED
    BY <2>1
<1>7. CASE Settle \/ GiveUp
  <2>1. rx' = << >> /\ ReadBuf' = ReadBuf
    BY <1>7 DEF Settle, GiveUp, UartClosed, matching
  <2>2. QED
    BY <2>1
<1>8. CASE ReadAnswer
  <2>1. ReadBuf' = Filled /\ (rx' = << >> \/ rx' = SubSeq(rx, Count + 1, Len(rx)))
    BY <1>8 DEF ReadAnswer, UartClosed
  <2>2. \A i \in DOMAIN rx' : \E j \in DOMAIN rx : rx'[i] = rx[j]
    <3>1. CASE rx' = << >>
      BY <3>1
    <3>2. CASE rx' = SubSeq(rx, Count + 1, Len(rx))
      BY <1>3, <3>2
    <3>3. QED
      BY <2>1, <3>1, <3>2
  <2>3. QED
    BY <1>4, <2>1, <2>2
<1>9. CASE ReadOn
  <2>1. ReadBuf' = Filled /\ rx' = SubSeq(rx, Count + 1, Len(rx))
    BY <1>9 DEF ReadOn
  <2>2. QED
    BY <1>3, <1>4, <2>1
<1>10. CASE NextRate
  <2>1. ReadBuf' = ReadBuf /\ rx' = SubSeq(rx, Count + 1, Len(rx))
    BY <1>10 DEF NextRate, matching
  <2>2. QED
    BY <1>3, <2>1
<1>11. CASE Arrive
  <2>1. toHost # << >> /\ ReadBuf' = ReadBuf
    BY <1>11 DEF Arrive, matching
  <2>2. PICK t \in IF Head(toHost).rate = rate THEN {Head(toHost).token} ELSE Garbage :
          rx' = IF port THEN Append(rx, t) ELSE rx
    BY <1>11 DEF Arrive
  <2>3. t \in Tokens
    BY <2>1, <2>2, HostLineType DEF Garbage, Tokens, Messages
  <2>4. \A i \in DOMAIN Append(rx, t) : (i \in DOMAIN rx /\ Append(rx, t)[i] = rx[i]) \/ Append(rx, t)[i] = t
    BY <1>1, <2>3, AppendFacts
  <2>5. \A i \in DOMAIN rx' : (\E j \in DOMAIN rx : rx'[i] = rx[j]) \/ rx'[i] = t
    BY <2>2, <2>4
  <2>6. QED
    BY <1>11, <2>1, <2>2, <2>5
<1>12. QED
  BY <1>5, <1>6, <1>7, <1>8, <1>9, <1>10, <1>11 DEF Next, Host

LEMMA AnsweredIsHeard ==
  ASSUME TypeOK, Answered(Filled)
  PROVE  Heard
<1>1. rx \in Seq(Tokens) /\ ReadBuf \in Seq(Tokens)
  BY DEF TypeOK
<1>2. Count \in Nat /\ Count <= Len(rx) /\ Len(rx) \in Nat
  BY <1>1, CountFacts
<1>3. /\ SubSeq(rx, 0 + 1, Count) \in Seq(Tokens)
      /\ \A j \in DOMAIN SubSeq(rx, 0 + 1, Count) :
           j + 0 \in DOMAIN rx /\ SubSeq(rx, 0 + 1, Count)[j] = rx[j + 0]
  BY <1>1, <1>2, PartFacts
<1>4. Filled = ReadBuf \o SubSeq(rx, 0 + 1, Count)
  BY DEF Filled
<1>5. /\ Filled \in Seq(Tokens)
      /\ \A i \in DOMAIN Filled :
           \/ i \in DOMAIN ReadBuf /\ Filled[i] = ReadBuf[i]
           \/ /\ i - Len(ReadBuf) \in DOMAIN SubSeq(rx, 0 + 1, Count)
              /\ Filled[i] = SubSeq(rx, 0 + 1, Count)[i - Len(ReadBuf)]
  BY <1>1, <1>3, <1>4, JoinFacts
<1>6. PICK i \in DOMAIN Filled : Filled[i] = "answer1"
  BY <1>5 DEF Answered
<1>7. QED
  BY <1>3, <1>5, <1>6 DEF Heard, Holds, Answers

(* An answer is in the buffers during MatchModule: it was there, or it has
   come in at the rate of the port. *)
LEMMA HeardNext ==
  ASSUME TypeOK, Next, pc' = "match", Heard'
  PROVE  /\ pc = "match" /\ again' = again /\ rate' = rate
         /\ \/ Heard
            \/ Arrive /\ toHost # << >> /\ Head(toHost).rate = rate /\ Head(toHost).token \in Answers
<1>1. CASE Ask
  BY <1>1 DEF Ask, Heard, Holds
<1>2. CASE Open \/ Set \/ Configure \/ Settle \/ ReadAnswer \/ NextRate \/ GiveUp
  BY <1>2 DEF Open, Set, Configure, Settle, ReadAnswer, NextRate, GiveUp, Return
<1>3. CASE ReadOn \/ ModuleTakes \/ ModuleTalks \/ Arrive \/ Lose
  <2>1. pc = "match" /\ again' = again /\ rate' = rate
    BY <1>3, OutsideLeaves DEF ReadOn, fitting, uart
  <2>2. PICK t \in Answers : (\E i \in DOMAIN rx' : rx'[i] = t) \/ (\E i \in DOMAIN ReadBuf' : ReadBuf'[i] = t)
    BY DEF Heard, Holds
  <2>3. t \notin Garbage
    BY DEF Answers, Garbage
  <2>4. \/ \E j \in DOMAIN rx : rx[j] = t
        \/ \E j \in DOMAIN ReadBuf : ReadBuf[j] = t
        \/ Arrive /\ toHost # << >> /\ Head(toHost).rate = rate /\ Head(toHost).token = t
    BY <2>2, <2>3, BuffersNext
  <2>5. QED
    BY <2>1, <2>4 DEF Heard, Holds
<1>4. QED
  BY <1>1, <1>2, <1>3 DEF Next, Host

(* Only Set changes the rate of the port, and not to another one than asked
   unless it fails. *)
LEMMA RateNext ==
  ASSUME TypeOK, Next, faults'["option"] = 0
  PROVE  /\ faults["option"] = 0
         /\ Set /\ again => rate' = Baudrate
         /\ ~Set => rate' = rate
<1>1. ASSUME NEW k \in FaultKinds, Fault(k)
      PROVE  faults["option"] = 0 /\ k # "option"
  BY <1>1, FaultType DEF TypeOK
<1>2. {"open", "fcntl", "option", "write", "lost", "refusal", "talk"} \subseteq FaultKinds
  BY DEF FaultKinds
<1>3. ASSUME NEW line, NEW cmd, UartWrite(line, cmd)
      PROVE  faults["option"] = 0
  BY <1>1, <1>2, <1>3 DEF UartWrite
<1>4. CASE Set
  BY <1>1, <1>2, <1>4 DEF Set, UartOptionSet
<1>5. CASE Open
  BY <1>1, <1>2, <1>5 DEF Open, UartOpened, UartNotOpened, Set
<1>6. CASE Ask
  <2>1. PICK line \in Flushed : UartWrite(line, OffMsg)
    BY <1>6 DEF Ask, OffMsg
  <2>2. faults["option"] = 0
    BY <1>3, <2>1
  <2>3. QED
    BY <1>6, <2>2 DEF Ask, uart, Set
<1>7. CASE Configure
  <2>1. UartWrite(toModule, ConfigCom)
    BY <1>7 DEF Configure, ConfigCom
  <2>2. faults["option"] = 0
    BY <1>3, <2>1
  <2>3. QED
    BY <1>7, <2>2 DEF Configure, uart, Set
<1>8. CASE Settle \/ ReadAnswer \/ ReadOn \/ NextRate \/ GiveUp
  BY <1>8 DEF Settle, ReadAnswer, ReadOn, NextRate, GiveUp, NoMatch, uart, Set
<1>9. CASE ModuleTakes
  <2>1. faults["option"] = 0
    BY <1>1, <1>2, <1>9 DEF ModuleTakes
  <2>2. QED
    BY <1>9, <2>1 DEF ModuleTakes, Set, uart, fitting
<1>10. CASE ModuleTalks \/ Arrive \/ Lose
  BY <1>1, <1>2, <1>10 DEF ModuleTalks, Arrive, Lose, Set, uart, fitting
<1>11. QED
  BY <1>4, <1>5, <1>6, <1>7, <1>8, <1>9, <1>10 DEF Next, Host

(* Where FitBaudrate returns 0, and where it does not. *)
LEMMA ReturnsNext ==
  ASSUME Progress, Next, ret' = "OK"
  PROVE  ~Set /\ (ret = "OK" \/ (ReadAnswer /\ again))
<1>1. CASE Host
  <2>1. CASE Set
    BY <2>1 DEF Set, Progress
  <2>2. CASE ReadAnswer
    BY <2>2 DEF ReadAnswer, Set
  <2>3. CASE Open \/ Ask \/ Configure \/ Settle \/ ReadOn \/ NextRate \/ GiveUp
    BY <2>3 DEF Open, Set, Ask, Configure, Settle, ReadOn, NextRate, GiveUp, Return, fitting, NoMatch
  <2>4. QED
    BY <1>1, <2>1, <2>2, <2>3 DEF Host
<1>2. CASE ModuleTakes \/ ModuleTalks \/ Arrive \/ Lose
  BY <1>2, OutsideLeaves DEF Set, Progress
<1>3. QED
  BY <1>1, <1>2 DEF Next

(* The search: whoever has answered talks at the rate of the port. *)
LEMMA SearchNext ==
  ASSUME TypeOK, Progress, MovedAsAsked, HeardAtItsRate, Next
  PROVE  /\ pc' = "match" /\ ~again' /\ Heard' => mod'.rate = rate'
         /\ pc' = "configure" => mod'.rate = rate'
<1>1. ~Configured => mod'.rate = mod.rate
  BY ModuleMoves
<1>2. ASSUME pc' = "match", ~again', Heard'
      PROVE  mod'.rate = rate'
  <2>1. /\ pc = "match" /\ ~again /\ rate' = rate
        /\ \/ Heard
           \/ toHost # << >> /\ Head(toHost).rate = rate
    BY <1>2, HeardNext
  <2>2. ~Configured
    BY <2>1 DEF Configured
  <2>3. mod.rate = rate
    <3>1. CASE Heard
      BY <2>1, <3>1 DEF HeardAtItsRate
    <3>2. CASE toHost # << >> /\ Head(toHost).rate = rate
      BY <2>2, <3>2, HostLineType DEF MovedAsAsked, Configured
    <3>3. QED
      BY <2>1, <3>1, <3>2
  <2>4. QED
    BY <1>1, <2>1, <2>2, <2>3
<1>3. ASSUME pc' = "configure"
      PROVE  mod'.rate = rate'
  <2>1. CASE ReadAnswer
    <3>1. pc = "match" /\ ~again /\ Answered(Filled) /\ rate' = rate
      BY <1>3, <2>1 DEF ReadAnswer, Return
    <3>2. mod.rate = rate
      BY <3>1, AnsweredIsHeard DEF HeardAtItsRate
    <3>3. QED
      BY <1>1, <3>1, <3>2 DEF Configured
  <2>2. CASE ModuleTakes \/ ModuleTalks \/ Arrive \/ Lose
    <3>1. pc = "configure" /\ rate' = rate
      BY <1>3, <2>2, OutsideLeaves
    <3>2. QED
      BY <1>1, <3>1 DEF Configured, Progress, HeardAtItsRate
  <2>3. CASE Host /\ ~ReadAnswer
    BY <1>3, <2>3 DEF Host, Open, Set, Ask, Configure, Settle, ReadOn, NextRate, GiveUp, Return,
                      NoMatch, fitting
  <2>4. QED
    BY <2>1, <2>2, <2>3 DEF Next
<1>4. QED
  BY <1>2, <1>3

(* The second match: if the port could be set, whoever has answered has
   moved. *)
LEMMA AgreedNext ==
  ASSUME TypeOK, Progress, MovedAsAsked, HeardAtItsRate, Next, again', faults'["option"] = 0
  PROVE  /\ pc' \in {"ask", "match"} \/ ret' = "OK" => rate' = Baudrate'
         /\ (pc' = "match" /\ Heard') \/ ret' = "OK" => mod'.rate = Baudrate'
<1>1. Baudrate' = Baudrate /\ faults["option"] = 0
  BY GivenStays, RateNext
<1>2. mod.rate = Baudrate => mod'.rate = Baudrate
  BY ModuleMoves
<1>3. ASSUME ret' = "OK"
      PROVE  rate' = Baudrate /\ mod'.rate = Baudrate
  <2>1. rate' = rate
    BY <1>3, ReturnsNext, RateNext
  <2>2. CASE ret = "OK"
    BY <1>1, <1>2, <2>1, <2>2 DEF HeardAtItsRate, Progress
  <2>3. CASE ReadAnswer /\ again
    <3>1. pc = "match" /\ Answered(Filled)
      BY <2>3 DEF ReadAnswer
    <3>2. QED
      BY <1>1, <1>2, <2>1, <2>3, <3>1, AnsweredIsHeard DEF HeardAtItsRate
  <2>4. QED
    BY <1>3, <2>2, <2>3, ReturnsNext
<1>4. ASSUME pc' \in {"ask", "match"}
      PROVE  rate' = Baudrate
  <2>1. CASE Set
    BY <1>4, <2>1, RateNext DEF Set
  <2>2. CASE ~Set
    <3>1. rate' = rate
      BY <2>2, RateNext
    <3>2. pc \in {"ask", "match"} /\ again
      <4>1. CASE Ask \/ ReadOn
        BY <4>1 DEF Ask, ReadOn, fitting
      <4>2. CASE ModuleTakes \/ ModuleTalks \/ Arrive \/ Lose
        BY <1>4, <4>2, OutsideLeaves
      <4>3. CASE Host /\ ~Ask /\ ~ReadOn
        BY <1>4, <2>2, <4>3 DEF Host, Open, Configure, Settle, ReadAnswer, NextRate, GiveUp, Return
      <4>4. QED
        BY <4>1, <4>2, <4>3 DEF Next
    <3>3. QED
      BY <1>1, <3>1, <3>2 DEF HeardAtItsRate
  <2>3. QED
    BY <2>1, <2>2
<1>5. ASSUME pc' = "match", Heard'
      PROVE  mod'.rate = Baudrate
  <2>1. /\ pc = "match" /\ again /\ rate' = rate
        /\ \/ Heard
           \/ toHost # << >> /\ Head(toHost).rate = rate
    BY <1>5, HeardNext
  <2>2. rate = Baudrate
    BY <1>1, <2>1 DEF HeardAtItsRate
  <2>3. CASE Heard
    BY <1>1, <1>2, <2>1, <2>3 DEF HeardAtItsRate
  <2>4. CASE toHost # << >> /\ Head(toHost).rate = rate
    BY <1>2, <2>2, <2>4, HostLineType DEF MovedAsAsked
  <2>5. QED
    BY <2>1, <2>3, <2>4
<1>6. QED
  BY <1>1, <1>3, <1>4, <1>5

LEMMA HeardAtItsRateNext ==
  ASSUME TypeOK, Progress, MovedAsAsked, HeardAtItsRate, Next
  PROVE  HeardAtItsRate'
BY SearchNext, AgreedNext DEF HeardAtItsRate

-----------------------------------------------------------------------------
(* The order of the line. *)

LEMMA ShiftNext ==
  ASSUME TypeOK, Next
  PROVE  \E d \in Nat : \A i \in DOMAIN toHost' :
           /\ i \in Nat \ {0}
           /\ i > Len(toHost) \/ (i + d \in DOMAIN toHost /\ toHost'[i] = toHost[i + d])
<1>1. toHost \in Seq(Messages) /\ DOMAIN toHost = 1..Len(toHost) /\ Len(toHost) \in Nat
  BY MessagesType
<1>2. ASSUME UNCHANGED toHost
      PROVE  \A i \in DOMAIN toHost' : i \in Nat \ {0} /\ i + 0 \in DOMAIN toHost /\ toHost'[i] = toHost[i + 0]
  BY <1>1, <1>2
<1>3. ASSUME toHost # << >>, toHost' = Tail(toHost)
      PROVE  \A i \in DOMAIN toHost' : i \in Nat \ {0} /\ i + 1 \in DOMAIN toHost /\ toHost'[i] = toHost[i + 1]
  BY <1>3, HostLineType
<1>4. ASSUME NEW s \in Seq(Messages), toHost' = toHost \o s
      PROVE  \A i \in DOMAIN toHost' :
               /\ i \in Nat \ {0}
               /\ i > Len(toHost) \/ (i + 0 \in DOMAIN toHost /\ toHost'[i] = toHost[i + 0])
  <2>1. /\ DOMAIN toHost' = 1..(Len(toHost) + Len(s)) /\ Len(s) \in Nat
        /\ \A i \in DOMAIN toHost : toHost'[i] = toHost[i]
    BY <1>1, <1>4, JoinFacts
  <2>2. QED
    BY <1>1, <2>1
<1>5. \A t \in Tokens : Sent(t) \in Messages /\ Append(toHost, Sent(t)) = toHost \o <<Sent(t)>>
  <2>1. \A t \in Tokens : Sent(t) \in Messages
    BY DEF TypeOK, Sent, Messages
  <2>2. QED
    BY <1>1, <2>1
<1>6. \A t, u \in Tokens : <<Sent(t)>> \in Seq(Messages) /\ <<Sent(t), Sent(u)>> \in Seq(Messages)
  <2>1. ASSUME NEW x \in Messages, NEW y \in Messages
        PROVE  <<x>> \in Seq(Messages) /\ <<x, y>> \in Seq(Messages)
    OBVIOUS
  <2>2. QED
    BY <1>5, <2>1
<1>7. \/ UNCHANGED toHost
      \/ toHost # << >> /\ toHost' = Tail(toHost)
      \/ \E s \in Seq(Messages) : toHost' = toHost \o s
  <2>1. CASE Host
    BY <2>1 DEF Host, Open, Set, Ask, Configure, Settle, ReadAnswer, ReadOn, NextRate, GiveUp
  <2>2. CASE ModuleTakes
    <3>1. \/ UNCHANGED toHost
          \/ toHost' = toHost \o <<Sent("answer1"), Sent("answer2")>>
          \/ toHost' = Append(toHost, Sent("frame"))
          \/ toHost' = Append(toHost, Sent("text"))
      BY <2>2 DEF ModuleTakes
    <3>2. QED
      BY <1>5, <1>6, <3>1, TokenType
  <2>3. CASE ModuleTalks
    BY <1>5, <1>6, <2>3, TokenType DEF ModuleTalks
  <2>4. CASE Arrive \/ Lose
    BY <2>4 DEF Arrive, Lose
  <2>5. QED
    BY <2>1, <2>2, <2>3, <2>4 DEF Next
<1>8. QED
  BY <1>2, <1>3, <1>4, <1>7

(* An answer that comes into the buffers was first on the line. *)
LEMMA HeardFromLine ==
  ASSUME TypeOK, Next, Heard'
  PROVE  Heard \/ (toHost # << >> /\ toHost[1].token \in Answers)
<1>1. PICK t \in Answers : (\E i \in DOMAIN rx' : rx'[i] = t) \/ (\E i \in DOMAIN ReadBuf' : ReadBuf'[i] = t)
  BY DEF Heard, Holds
<1>2. t \notin Garbage
  BY DEF Answers, Garbage
<1>3. \/ \E j \in DOMAIN rx : rx[j] = t
      \/ \E j \in DOMAIN ReadBuf : ReadBuf[j] = t
      \/ toHost # << >> /\ Head(toHost).token = t
  BY <1>1, <1>2, BuffersNext
<1>4. toHost # << >> => Head(toHost) = toHost[1]
  BY HostLineType
<1>5. QED
  BY <1>1, <1>3, <1>4 DEF Heard, Holds

LEMMA RequestsFirst ==
  ASSUME TypeOK, TypeOK', LeftInFront, Next,
         NEW i \in DOMAIN toModule', toModule'[i].cmd = "REQUEST"
  PROVE  i = 1 /\ ~Heard' /\ ~Coming(Answers)'
<1>1. toModule \in Seq(Commands) /\ DOMAIN toModule = 1..Len(toModule)
  BY DEF TypeOK
<1>2. PICK j \in DOMAIN toModule : 1 <= i /\ i <= j /\ toModule'[i] = toModule[j]
  BY CommandsNext DEF OffMsg, ConfigCom
<1>3. j = 1 /\ ~Heard /\ ~Coming(Answers)
  BY <1>2 DEF LeftInFront
<1>4. i = 1
  <2>1. i \in Int
    BY DEF TypeOK
  <2>2. QED
    BY <1>2, <1>3, <2>1
<1>5. ~Heard'
  <2>1. toHost # << >> => 1 \in DOMAIN toHost
    BY HostLineType
  <2>2. QED
    BY <1>3, <2>1, HeardFromLine DEF Coming
<1>6. ~Coming(Answers)'
  <2>1. SUFFICES ASSUME NEW k \in DOMAIN toHost', toHost'[k].token \in Answers
                 PROVE  FALSE
    BY DEF Coming
  <2>2. CASE \E m \in DOMAIN toHost : toHost'[k] = toHost[m]
    BY <1>3, <2>1, <2>2 DEF Coming
  <2>3. CASE toHost'[k] \in {Sent("text"), Sent("frame")}
    BY <2>1, <2>3 DEF Sent, Answers
  <2>4. CASE ModuleTakes /\ Head(toModule).cmd = "OFFMSG"
    <3>1. Head(toModule) = toModule[1]
      BY <2>4, ModuleLineType DEF ModuleTakes
    <3>2. QED
      BY <1>2, <1>3, <2>4, <3>1
  <2>5. QED
    BY <2>2, <2>3, <2>4, ComingNext
<1>7. QED
  BY <1>4, <1>5, <1>6

(* A frame comes onto the line when the module takes a request. *)
LEMMA FramesComing ==
  ASSUME TypeOK, LeftInFront, Next, Coming({"frame"})'
  PROVE  \/ Coming({"frame"})
         \/ ModuleTakes /\ 1 \in DOMAIN toModule /\ toModule[1].cmd = "REQUEST"
<1>1. PICK i \in DOMAIN toHost' : toHost'[i].token = "frame"
  BY DEF Coming
<1>2. CASE \E m \in DOMAIN toHost : toHost'[i] = toHost[m]
  BY <1>1, <1>2 DEF Coming
<1>3. CASE toHost'[i] \in {Sent("text"), Sent("answer1"), Sent("answer2")}
  BY <1>1, <1>3 DEF Sent
<1>4. CASE ModuleTakes /\ Head(toModule).cmd = "REQUEST"
  <2>1. Head(toModule) = toModule[1] /\ 1 \in DOMAIN toModule
    BY <1>4, ModuleLineType DEF ModuleTakes
  <2>2. QED
    BY <1>4, <2>1
<1>5. QED
  BY <1>2, <1>3, <1>4, ComingNext

LEMMA FramesNotBehind ==
  ASSUME TypeOK, LeftInFront, Next, Coming({"frame"})'
  PROVE  ~Heard'
<1>1. CASE Coming({"frame"})
  <2>1. ~Heard
    BY <1>1 DEF LeftInFront
  <2>2. toHost # << >> => toHost[1].token \notin Answers
    <3>1. PICK j \in DOMAIN toHost : toHost[j].token = "frame"
      BY <1>1 DEF Coming
    <3>2. toHost # << >> => 1 \in DOMAIN toHost
      BY HostLineType
    <3>3. ~(j < 1)
      BY MessagesType
    <3>4. QED
      BY <3>1, <3>2, <3>3 DEF LeftInFront
  <2>3. QED
    BY <2>1, <2>2, HeardFromLine
<1>2. CASE ModuleTakes /\ 1 \in DOMAIN toModule /\ toModule[1].cmd = "REQUEST"
  <2>1. ~Heard /\ ~Coming(Answers)
    BY <1>2 DEF LeftInFront
  <2>2. toHost # << >> => 1 \in DOMAIN toHost
    BY HostLineType
  <2>3. QED
    BY <2>1, <2>2, HeardFromLine DEF Coming
<1>3. QED
  BY <1>1, <1>2, FramesComing

LEMMA LineInOrder ==
  ASSUME TypeOK, LeftInFront, Next,
         NEW i \in DOMAIN toHost', toHost'[i].token \in Answers,
         NEW j \in DOMAIN toHost', toHost'[j].token = "frame"
  PROVE  j < i
<1>1. toHost \in Seq(Messages) /\ DOMAIN toHost = 1..Len(toHost) /\ Len(toHost) \in Nat
  BY MessagesType
<1>2. PICK d \in Nat : \A k \in DOMAIN toHost' :
        /\ k \in Nat \ {0}
        /\ k > Len(toHost) \/ (k + d \in DOMAIN toHost /\ toHost'[k] = toHost[k + d])
  BY ShiftNext
<1>3. i \in Nat \ {0} /\ j \in Nat \ {0}
  BY <1>2
<1>4. CASE i <= Len(toHost) /\ j <= Len(toHost)
  <2>1. /\ i + d \in DOMAIN toHost /\ toHost[i + d].token \in Answers
        /\ j + d \in DOMAIN toHost /\ toHost[j + d].token = "frame"
    BY <1>1, <1>2, <1>3, <1>4
  <2>2. j + d < i + d
    BY <2>1 DEF LeftInFront
  <2>3. QED
    BY <1>3, <2>2
<1>5. CASE i > Len(toHost) /\ j <= Len(toHost)
  BY <1>1, <1>3, <1>5
<1>6. CASE j > Len(toHost)
  <2>1. ~(\E k \in DOMAIN toHost : j <= k /\ toHost'[j] = toHost[k])
    BY <1>1, <1>3, <1>6
  <2>2. toHost'[j] = Sent("frame") /\ ModuleTakes /\ Head(toModule).cmd = "REQUEST"
    BY <2>1, ComingNext DEF Sent
  <2>3. Head(toModule) = toModule[1] /\ 1 \in DOMAIN toModule
    BY <2>2, ModuleLineType DEF ModuleTakes
  <2>4. ~Coming(Answers)
    BY <2>2, <2>3 DEF LeftInFront
  <2>5. CASE \E k \in DOMAIN toHost : toHost'[i] = toHost[k]
    BY <2>4, <2>5 DEF Coming
  <2>6. CASE toHost'[i] \in {Sent("text"), Sent("frame")}
    BY <2>6 DEF Sent, Answers
  <2>7. QED
    BY <2>2, <2>5, <2>6, ComingNext
<1>7. QED
  BY <1>1, <1>3, <1>4, <1>5, <1>6

(* A turn of MatchModule moves the front of rx to the end of ReadBuf. *)
Rest == SubSeq(rx, Count + 1, Len(rx))

LEMMA TurnInOrder ==
  ASSUME TypeOK, LeftInFront
  PROVE  /\ Holds(Filled, Answers) => ~Holds(Rest, {"frame"})
         /\ Holds(Rest, {"frame"}) => Holds(rx, {"frame"})
         /\ FramesFirst(Rest)
         /\ FramesFirst(Filled)
<1>1. rx \in Seq(Tokens) /\ ReadBuf \in Seq(Tokens)
  BY DEF TypeOK
<1>2. /\ Count \in Nat /\ Count <= Len(rx) /\ Len(rx) \in Nat /\ Len(ReadBuf) \in Nat
      /\ DOMAIN rx = 1..Len(rx) /\ DOMAIN ReadBuf = 1..Len(ReadBuf)
  BY <1>1, CountFacts
<1>3. \A i \in DOMAIN Rest :
        /\ i \in Nat \ {0}
        /\ i + Count \in DOMAIN rx /\ Rest[i] = rx[i + Count]
  BY <1>1, <1>2, PartFacts DEF Rest
<1>4. \A i \in DOMAIN Filled :
        \/ i \in DOMAIN ReadBuf /\ Filled[i] = ReadBuf[i]
        \/ /\ i - Len(ReadBuf) \in DOMAIN rx /\ i - Len(ReadBuf) <= Count
           /\ Filled[i] = rx[i - Len(ReadBuf)]
  <2>1. /\ SubSeq(rx, 0 + 1, Count) \in Seq(Tokens)
        /\ \A j \in DOMAIN SubSeq(rx, 0 + 1, Count) :
             j + 0 \in DOMAIN rx /\ j + 0 <= Count /\ SubSeq(rx, 0 + 1, Count)[j] = rx[j + 0]
    BY <1>1, <1>2, PartFacts
  <2>2. Filled = ReadBuf \o SubSeq(rx, 0 + 1, Count)
    BY DEF Filled
  <2>3. \A i \in DOMAIN Filled :
          \/ i \in DOMAIN ReadBuf /\ Filled[i] = ReadBuf[i]
          \/ /\ i - Len(ReadBuf) \in DOMAIN SubSeq(rx, 0 + 1, Count)
             /\ Filled[i] = SubSeq(rx, 0 + 1, Count)[i - Len(ReadBuf)]
    BY <1>1, <2>1, <2>2, JoinFacts
  <2>4. \A j \in DOMAIN SubSeq(rx, 0 + 1, Count) :
          j \in DOMAIN rx /\ j <= Count /\ SubSeq(rx, 0 + 1, Count)[j] = rx[j]
    BY <1>2, <2>1
  <2>5. QED
    BY <2>3, <2>4
<1>5. \A i \in DOMAIN Filled : i \in Int
  <2>1. Filled \in Seq(Tokens)
    BY <1>1, FilledType
  <2>2. QED
    BY <2>1
<1>6. \A i, j \in DOMAIN rx : rx[i] \in Answers /\ rx[j] = "frame" => j < i
  BY DEF LeftInFront, FramesFirst
<1>7. \A i, j \in DOMAIN ReadBuf : ReadBuf[i] \in Answers /\ ReadBuf[j] = "frame" => j < i
  BY DEF LeftInFront, FramesFirst
<1>8. \A i \in DOMAIN ReadBuf, j \in DOMAIN rx : ~(ReadBuf[i] \in Answers /\ rx[j] = "frame")
  BY DEF LeftInFront, Holds
<1>9. ASSUME NEW i \in DOMAIN Filled, Filled[i] \in Answers, NEW j \in DOMAIN Rest, Rest[j] = "frame"
      PROVE  FALSE
  BY <1>2, <1>3, <1>4, <1>5, <1>6, <1>8, <1>9
<1>10. ASSUME NEW i \in DOMAIN Rest, Rest[i] \in Answers, NEW j \in DOMAIN Rest, Rest[j] = "frame"
       PROVE  j < i
  BY <1>2, <1>3, <1>6, <1>10
<1>11. ASSUME NEW i \in DOMAIN Filled, Filled[i] \in Answers, NEW j \in DOMAIN Filled, Filled[j] = "frame"
       PROVE  j < i
  <2>1. CASE i \in DOMAIN ReadBuf /\ Filled[i] = ReadBuf[i]
    BY <1>4, <1>7, <1>8, <1>11, <2>1
  <2>2. CASE i - Len(ReadBuf) \in DOMAIN rx /\ Filled[i] = rx[i - Len(ReadBuf)]
    <3>1. CASE j \in DOMAIN ReadBuf
      BY <1>2, <1>5, <2>2, <3>1
    <3>2. CASE j - Len(ReadBuf) \in DOMAIN rx /\ Filled[j] = rx[j - Len(ReadBuf)]
      <4>1. j - Len(ReadBuf) < i - Len(ReadBuf)
        BY <1>6, <1>11, <2>2, <3>2
      <4>2. QED
        BY <1>2, <1>5, <4>1
    <3>3. QED
      BY <1>4, <3>1, <3>2
  <2>3. QED
    BY <1>4, <2>1, <2>2
<1>12. Holds(Rest, {"frame"}) => Holds(rx, {"frame"})
  BY <1>3 DEF Holds
<1>13. QED
  BY <1>9, <1>10, <1>11, <1>12 DEF Holds, FramesFirst

LEMMA BuffersInOrder ==
  ASSUME TypeOK, LeftInFront, Next
  PROVE  /\ Holds(ReadBuf, Answers)' => ~Holds(rx, {"frame"})'
         /\ FramesFirst(rx)'
         /\ FramesFirst(ReadBuf)'
<1>1. CASE Open \/ Set \/ Configure \/ ModuleTakes \/ ModuleTalks \/ Lose
  <2>1. rx' = rx /\ ReadBuf' = ReadBuf
    BY <1>1 DEF Open, Set, Configure, ModuleTakes, ModuleTalks, Lose, matching
  <2>2. QED
    BY <2>1 DEF LeftInFront, Holds, FramesFirst
<1>2. CASE Ask
  <2>1. rx' = << >> /\ ReadBuf' = << >>
    BY <1>2 DEF Ask
  <2>2. QED
    BY <2>1 DEF Holds, FramesFirst
<1>3. CASE Settle \/ GiveUp
  <2>1. rx' = << >> /\ ReadBuf' = ReadBuf
    BY <1>3 DEF Settle, GiveUp, UartClosed, matching
  <2>2. FramesFirst(ReadBuf)'
    BY <2>1 DEF LeftInFront, FramesFirst
  <2>3. ~Holds(rx, {"frame"})' /\ FramesFirst(rx)'
    BY <2>1 DEF Holds, FramesFirst
  <2>4. QED
    BY <2>2, <2>3
<1>4. CASE ReadAnswer \/ ReadOn
  <2>1. ReadBuf' = Filled /\ (rx' = << >> \/ rx' = Rest)
    BY <1>4 DEF ReadAnswer, ReadOn, UartClosed, Rest
  <2>2. FramesFirst(ReadBuf)'
    BY <2>1, TurnInOrder DEF FramesFirst
  <2>3. CASE rx' = << >>
    BY <2>2, <2>3 DEF Holds, FramesFirst
  <2>4. CASE rx' = Rest
    BY <2>1, <2>2, <2>4, TurnInOrder DEF Holds, FramesFirst
  <2>5. QED
    BY <2>1, <2>3, <2>4
<1>5. CASE NextRate
  <2>1. ReadBuf' = ReadBuf /\ rx' = Rest
    BY <1>5 DEF NextRate, matching, Rest
  <2>2. FramesFirst(ReadBuf)' /\ FramesFirst(rx)'
    BY <2>1, TurnInOrder DEF LeftInFront, FramesFirst
  <2>3. Holds(ReadBuf, Answers)' => Holds(ReadBuf, Answers)
    BY <2>1 DEF Holds
  <2>4. Holds(rx, {"frame"})' => Holds(rx, {"frame"})
    BY <2>1, TurnInOrder DEF Holds
  <2>5. QED
    BY <2>2, <2>3, <2>4 DEF LeftInFront
<1>6. CASE Arrive
  <2>1. toHost # << >> /\ ReadBuf' = ReadBuf
    BY <1>6 DEF Arrive, matching
  <2>2. PICK t \in IF Head(toHost).rate = rate THEN {Head(toHost).token} ELSE Garbage :
          rx' = IF port THEN Append(rx, t) ELSE rx
    BY <1>6 DEF Arrive
  <2>3. t \in Tokens
    BY <2>1, <2>2, HostLineType DEF Garbage, Tokens, Messages
  <2>4. t = "frame" => ~Heard
    <3>1. t = "frame" => Head(toHost).token = "frame"
      BY <2>2 DEF Garbage
    <3>2. 1 \in DOMAIN toHost /\ Head(toHost) = toHost[1]
      BY <2>1, HostLineType
    <3>3. QED
      BY <3>1, <3>2 DEF Coming, LeftInFront
  <2>5. FramesFirst(ReadBuf)' /\ (Holds(ReadBuf, Answers)' => Holds(ReadBuf, Answers))
    BY <2>1 DEF LeftInFront, FramesFirst, Holds
  <2>6. CASE ~port
    BY <2>2, <2>5, <2>6 DEF LeftInFront, FramesFirst, Holds
  <2>7. CASE port
    <3>1. rx' = Append(rx, t) /\ rx \in Seq(Tokens)
      BY <2>2, <2>7 DEF TypeOK
    <3>2. /\ DOMAIN rx' = 1..(Len(rx) + 1) /\ DOMAIN rx = 1..Len(rx) /\ Len(rx) \in Nat
          /\ \A i \in 1..Len(rx) : rx'[i] = rx[i]
          /\ rx'[Len(rx) + 1] = t
      BY <2>3, <3>1, AppendFacts
    <3>3. \A i, j \in DOMAIN rx : rx[i] \in Answers /\ rx[j] = "frame" => j < i
      BY DEF LeftInFront, FramesFirst
    <3>4. t = "frame" => \A i \in DOMAIN rx : rx[i] \notin Answers
      BY <2>4 DEF Heard, Holds
    <3>5. "frame" \notin Answers
      BY DEF Answers
    <3>6. FramesFirst(rx)'
      <4>1. SUFFICES ASSUME NEW i \in DOMAIN rx', rx'[i] \in Answers,
                            NEW j \in DOMAIN rx', rx'[j] = "frame"
                     PROVE  j < i
        BY DEF FramesFirst
      <4>2. CASE j = Len(rx) + 1
        <5>1. t = "frame" /\ i # Len(rx) + 1
          BY <3>2, <3>5, <4>1, <4>2
        <5>2. i \in DOMAIN rx /\ rx[i] \in Answers
          BY <3>2, <4>1, <5>1
        <5>3. QED
          BY <3>4, <5>1, <5>2
      <4>3. CASE j # Len(rx) + 1
        <5>1. j \in DOMAIN rx /\ rx[j] = "frame"
          BY <3>2, <4>1, <4>3
        <5>2. CASE i = Len(rx) + 1
          BY <3>2, <5>1, <5>2
        <5>3. CASE i # Len(rx) + 1
          BY <3>2, <3>3, <4>1, <5>1, <5>3
        <5>4. QED
          BY <5>2, <5>3
      <4>4. QED
        BY <4>2, <4>3
    <3>7. Holds(rx, {"frame"})' => Holds(rx, {"frame"}) \/ t = "frame"
      BY <3>2 DEF Holds
    <3>8. QED
      BY <2>4, <2>5, <3>6, <3>7 DEF LeftInFront, Heard
  <2>8. QED
    BY <2>6, <2>7
<1>7. QED
  BY <1>1, <1>2, <1>3, <1>4, <1>5, <1>6 DEF Next, Host

LEMMA LeftInFrontNext ==
  ASSUME TypeOK, TypeOK', LeftInFront, Next
  PROVE  LeftInFront'
<1>1. \A i \in DOMAIN toModule' : toModule'[i].cmd = "REQUEST" =>
        i = 1 /\ ~Heard' /\ ~Coming(Answers)'
  BY RequestsFirst
<1>2. Coming({"frame"})' => ~Heard'
  BY FramesNotBehind
<1>3. \A i, j \in DOMAIN toHost' :
        toHost'[i].token \in Answers /\ toHost'[j].token = "frame" => j < i
  BY LineInOrder
<1>4. QED
  BY <1>1, <1>2, <1>3, BuffersInOrder DEF LeftInFront

(* Nothing of a killed session comes back once it is gone. *)
LEMMA StaysClean ==
  ASSUME TypeOK, LeftInFront, Clean, Next
  PROVE  Clean'
<1>1. ~Coming({"frame"})'
  BY FramesComing DEF Clean
<1>2. \A i \in DOMAIN toModule' : toModule'[i].cmd # "REQUEST"
  BY CommandsNext DEF Clean, OffMsg, ConfigCom
<1>3. ~Holds(rx, {"frame"})'
  <2>1. SUFFICES ASSUME NEW i \in DOMAIN rx', rx'[i] = "frame"
                 PROVE  FALSE
    BY DEF Holds
  <2>2. ~(\E j \in DOMAIN rx : rx'[i] = rx[j])
    BY <2>1 DEF Clean, Holds
  <2>3. toHost # << >> /\ Head(toHost).token = "frame"
    BY <2>1, <2>2, BuffersNext DEF Garbage
  <2>4. QED
    BY <2>3, HostLineType DEF Clean, Coming
<1>4. QED
  BY <1>1, <1>2, <1>3 DEF Clean

LEMMA CleanedByAnswer ==
  ASSUME TypeOK, TypeOK', LeftInFront, ReadAnswer
  PROVE  Clean'
<1>1. Heard /\ ReadBuf' = Filled /\ toHost' = toHost
  BY AnsweredIsHeard DEF ReadAnswer
<1>2. Next
  BY DEF Next, Host
<1>3. ~Coming({"frame"})
  BY <1>1 DEF LeftInFront
<1>4. \A i \in DOMAIN toModule : toModule[i].cmd # "REQUEST"
  BY <1>1 DEF LeftInFront
<1>5. \A i \in DOMAIN toModule' : toModule'[i].cmd # "REQUEST"
  BY <1>2, <1>4, CommandsNext DEF OffMsg, ConfigCom
<1>6. Holds(ReadBuf, Answers)'
  <2>1. PICK i \in 1..(Len(Filled) - 1) : Filled[i] = "answer1"
    BY DEF ReadAnswer, Answered
  <2>2. ReadBuf' \in Seq(Tokens)
    BY DEF TypeOK
  <2>3. i \in DOMAIN ReadBuf'
    BY <1>1, <2>1, <2>2
  <2>4. QED
    BY <1>1, <2>1, <2>3 DEF Holds, Answers
<1>7. ~Holds(rx, {"frame"})'
  BY <1>2, <1>6, BuffersInOrder
<1>8. ~Coming({"frame"})'
  BY <1>1, <1>3 DEF Coming
<1>9. QED
  BY <1>5, <1>7, <1>8 DEF Clean

LEMMA CleanAfterMatchNext ==
  ASSUME TypeOK, TypeOK', LeftInFront, CleanAfterMatch, Next
  PROVE  CleanAfterMatch'
<1>1. SUFFICES ASSUME pc' \in {"configure", "settle"} \/ again'
               PROVE  Clean'
  BY DEF CleanAfterMatch
<1>2. CASE ReadAnswer
  BY <1>2, CleanedByAnswer
<1>3. CASE ~ReadAnswer
  <2>1. pc \in {"configure", "settle"} \/ again
    <3>1. CASE Host
      BY <1>1, <1>3, <3>1 DEF Host, Open, Set, Ask, Configure, Settle, ReadOn, NextRate, GiveUp,
                              NoMatch, Return, fitting
    <3>2. CASE ModuleTakes \/ ModuleTalks \/ Arrive \/ Lose
      BY <1>1, <3>2, OutsideLeaves
    <3>3. QED
      BY <3>1, <3>2 DEF Next
  <2>2. QED
    BY <2>1, StaysClean DEF CleanAfterMatch
<1>4. QED
  BY <1>2, <1>3

-----------------------------------------------------------------------------
(* The invariant. *)

LEMMA OneElement ==
  ASSUME NEW S, NEW x \in S
  PROVE  <<x>> \in Seq(S) /\ << >> \in Seq(S)
OBVIOUS

LEMMA FitInit == Init => FitInv
<1> SUFFICES ASSUME Init PROVE FitInv
  OBVIOUS
<1>1. TypeOK
  <2>1. toHost \in Seq([token : Tokens, rate : RateTable])
    <3>1. [token |-> "frame", rate |-> mod.rate] \in Messages
      BY DEF Init, Tokens, Messages
    <3>2. toHost = << >> \/ toHost = <<[token |-> "frame", rate |-> mod.rate]>>
      BY DEF Init, LeftBehind
    <3>3. toHost \in Seq(Messages)
      BY <3>1, <3>2, OneElement
    <3>4. QED
      BY <3>3 DEF Messages
  <2>2. toModule \in Seq(Commands)
    <3>1. [cmd |-> "REQUEST", rate |-> mod.rate, arg |-> 0] \in Commands
      BY DEF Init, Commands
    <3>2. toModule = << >> \/ toModule = <<[cmd |-> "REQUEST", rate |-> mod.rate, arg |-> 0]>>
      BY DEF Init, LeftBehind
    <3>3. QED
      BY <3>1, <3>2, OneElement
  <2>3. Index \in DOMAIN Rates /\ WaitCntr \in 0..WaitMax
    BY TableFacts, SizesAssumption DEF Init
  <2>4. faults \in [FaultKinds -> Nat]
    BY DEF Init
  <2>5. QED
    <3>1. /\ Baudrate \in RateTable /\ env \in Environments /\ pc = "open" /\ again = FALSE
          /\ ret = "NONE" /\ port = FALSE /\ leaked = 0 /\ rate \in RateTable
          /\ mod \in [rate : RateTable, talks : BOOLEAN]
      BY DEF Init
    <3>2. ReadBuf \in Seq(Tokens) /\ rx \in Seq(Tokens)
      BY DEF Init
    <3>3. QED
      BY <2>1, <2>2, <2>3, <2>4, <3>1, <3>2 DEF TypeOK
<1>2. Progress
  BY DEF Init, Progress
<1>3. \A i \in DOMAIN toHost : i = 1 /\ toHost[i] = [token |-> "frame", rate |-> mod.rate]
  BY DEF Init, LeftBehind
<1>4. \A i \in DOMAIN toModule : i = 1 /\ toModule[i].cmd = "REQUEST"
  BY DEF Init, LeftBehind
<1>5. MovedAsAsked
  BY <1>3, <1>4 DEF MovedAsAsked
<1>6. HeardAtItsRate
  BY DEF Init, HeardAtItsRate
<1>7. ~Heard /\ ~Coming(Answers)
  BY <1>3 DEF Init, Heard, Holds, Coming, Answers
<1>8. LeftInFront
  BY <1>3, <1>4, <1>7 DEF Init, LeftInFront, FramesFirst, Heard, Holds, Answers
<1>9. CleanAfterMatch
  BY DEF Init, CleanAfterMatch
<1>10. QED
  BY <1>1, <1>2, <1>5, <1>6, <1>8, <1>9 DEF FitInv

LEMMA FitNext == FitInv /\ [Next]_vars => FitInv'
<1> SUFFICES ASSUME FitInv, [Next]_vars PROVE FitInv'
  OBVIOUS
<1>1. CASE Next
  <2>1. TypeOK'
    BY <1>1, HostType, OutsideType DEF FitInv, Next
  <2>2. QED
    BY <1>1, <2>1, ProgressNext, MovedAsAskedNext, HeardAtItsRateNext, LeftInFrontNext,
       CleanAfterMatchNext DEF FitInv
<1>2. CASE UNCHANGED vars
  <2>1. UNCHANGED <<Baudrate, env, pc, Index, again, ret, WaitCntr, ReadBuf, port, leaked, rate,
                    rx, toHost, toModule, mod, faults>>
    BY <1>2 DEF vars, fitting, given, matching, uart
  <2>2. TypeOK'
    BY <2>1 DEF FitInv, TypeOK
  <2>3. Progress' /\ MovedAsAsked'
    BY <2>1 DEF FitInv, Progress, MovedAsAsked
  <2>4. Heard' = Heard /\ (\A s : Coming(s)' = Coming(s))
    BY <2>1 DEF Heard, Holds, Coming
  <2>5. HeardAtItsRate'
    BY <2>1, <2>4 DEF FitInv, HeardAtItsRate
  <2>6. LeftInFront'
    BY <2>1 DEF FitInv, LeftInFront, Heard, Holds, Coming, FramesFirst
  <2>7. CleanAfterMatch'
    BY <2>1 DEF FitInv, CleanAfterMatch, Clean, Holds, Coming
  <2>8. QED
    BY <2>2, <2>3, <2>5, <2>6, <2>7 DEF FitInv
<1>3. QED
  BY <1>1, <1>2

LEMMA FitInvariant == Spec => []FitInv
BY FitInit, FitNext, PTL DEF Spec

(* The state of the call, the port, the line and the module keeps its types:
   the search never leaves the table of rates, and WaitCntr never passes the
   number of turns (UpgradeM7xx.c:743, 803-816). *)
THEOREM FittingTypeCorrect == Spec => []TypeOK
<1>1. FitInv => TypeOK
  BY DEF FitInv
<1>2. QED
  BY <1>1, FitInvariant, PTL

(* The search ends where the module is: CONFIGCOM goes out at the rate at
   which the module has answered, whatever was in the buffers before, and
   whatever UartOptionSet did (UpgradeM7xx.c:740-756, 803-828). *)
THEOREM SearchFindsModule == Spec => []FoundAtItsRate
<1>1. FitInv => FoundAtItsRate
  BY DEF FitInv, HeardAtItsRate, FoundAtItsRate
<1>2. QED
  BY <1>1, FitInvariant, PTL

(* If the port could be set, 0 means that both sides talk at the rate asked
   for (UpgradeM7xx.c:831-860). *)
THEOREM FittedSidesAgree == Spec => []FittedMeansAgreed
<1>1. FitInv => FittedMeansAgreed
  BY DEF FitInv, Progress, HeardAtItsRate, FittedMeansAgreed
<1>2. QED
  BY <1>1, FitInvariant, PTL

(* On every way out the port is closed again (UpgradeM7xx.c:796-860). *)
THEOREM PortIsClosed == Spec => []PortClosed
<1>1. FitInv => PortClosed
  BY DEF FitInv, Progress, PortClosed
<1>2. QED
  BY <1>1, FitInvariant, PTL

(* A call that succeeds leaves nothing of a killed session on the line: what
   the session left was in front of the first answer (UpgradeM7xx.c:740-758,
   854-860). *)
THEOREM OldTrafficLeaves == Spec => []OldTrafficGone
<1>1. FitInv => OldTrafficGone
  BY DEF FitInv, Progress, CleanAfterMatch, Clean, Coming, Holds, OldTrafficGone
<1>2. QED
  BY <1>1, FitInvariant, PTL

-----------------------------------------------------------------------------
(* RateAgreement. *)

LEMMA AgreementInit == Init => Agreement!Init
BY DEF Init, Agreement!Init, FaultKinds

LEMMA OptionFaults ==
  ASSUME TypeOK, TypeOK', Next
  PROVE  /\ faults["option"] > 0 => faults'["option"] > 0
         /\ ~Set => (faults'["option"] > 0 <=> faults["option"] > 0)
         /\ ~Set => rate' = rate
<1>1. faults["option"] \in Nat /\ faults'["option"] \in Nat
  BY DEF TypeOK, FaultKinds
<1>2. ASSUME NEW k \in FaultKinds \ {"option"}, Fault(k)
      PROVE  faults'["option"] = faults["option"]
  BY <1>2, FaultType DEF TypeOK
<1>3. {"open", "fcntl", "write", "lost", "refusal", "talk"} \subseteq FaultKinds \ {"option"}
  BY DEF FaultKinds
<1>4. ASSUME NEW line, NEW cmd, UartWrite(line, cmd)
      PROVE  faults'["option"] = faults["option"]
  BY <1>2, <1>3, <1>4 DEF UartWrite
<1>5. CASE Set
  <2>1. faults' = faults \/ Fault("option")
    BY <1>5 DEF Set, UartOptionSet
  <2>2. "option" \in FaultKinds
    BY DEF FaultKinds
  <2>3. Fault("option") => faults'["option"] # 0
    BY <2>2, FaultType DEF TypeOK
  <2>4. QED
    BY <1>1, <1>5, <2>1, <2>3
<1>6. CASE Open
  BY <1>2, <1>3, <1>6 DEF Open, UartOpened, UartNotOpened
<1>7. CASE Ask
  <2>1. PICK line \in Flushed : UartWrite(line, OffMsg)
    BY <1>7 DEF Ask, OffMsg
  <2>2. QED
    BY <1>4, <1>7, <2>1 DEF Ask, uart
<1>8. CASE Configure
  <2>1. UartWrite(toModule, ConfigCom)
    BY <1>8 DEF Configure, ConfigCom
  <2>2. QED
    BY <1>4, <1>8, <2>1 DEF Configure, uart
<1>9. CASE Settle \/ ReadAnswer \/ ReadOn \/ NextRate \/ GiveUp
  BY <1>9 DEF Settle, ReadAnswer, ReadOn, NextRate, GiveUp, NoMatch, uart
<1>10. CASE ModuleTakes
  <2>1. faults'["option"] = faults["option"]
    BY <1>2, <1>3, <1>10 DEF ModuleTakes
  <2>2. QED
    BY <1>10, <2>1, OutsideLeaves
<1>11. CASE ModuleTalks \/ Arrive \/ Lose
  <2>1. faults'["option"] = faults["option"]
    BY <1>2, <1>3, <1>11 DEF ModuleTalks, Arrive, Lose
  <2>2. QED
    BY <1>11, <2>1, OutsideLeaves
<1>12. QED
  BY <1>5, <1>6, <1>7, <1>8, <1>9, <1>10, <1>11 DEF Next, Host

LEMMA AgreementStep ==
  ASSUME FitInv, FitInv', Next
  PROVE  [Agreement!Next]_(Agreement!vars)
<1> DEFINE missetNow == faults["option"] > 0
<1>1. TypeOK /\ TypeOK' /\ Progress /\ Progress' /\ MovedAsAsked
  BY DEF FitInv
<1>2. Baudrate' = Baudrate
  BY GivenStays
<1>3. ~Set => rate' = rate /\ (faults'["option"] > 0 <=> faults["option"] > 0)
  BY <1>1, OptionFaults
<1>4. faults["option"] \in Nat /\ faults'["option"] \in Nat
  BY <1>1 DEF TypeOK, FaultKinds
<1>5. CASE Set
  <2>1. ret = "NONE" /\ ret' = ret /\ mod' = mod /\ rate' \in RateTable
    BY <1>1, <1>5 DEF Set, Progress, TypeOK
  <2>2. (faults'["option"] > 0) \in {faults["option"] > 0, TRUE}
    <3>1. missetNow => (faults'["option"] > 0)
      BY <1>1, OptionFaults
    <3>2. CASE faults'["option"] > 0
      <4>1. (faults'["option"] > 0) = TRUE
        BY <3>2
      <4>2. QED
        BY <4>1
    <3>3. CASE ~(faults'["option"] > 0)
      <4>1. (faults'["option"] > 0) = (faults["option"] > 0)
        BY <3>1, <3>3
      <4>2. QED
        BY <4>1
    <3>4. QED
      BY <3>2, <3>3
  <2>3. Agreement!SetPort
    BY <1>2, <2>1, <2>2 DEF Agreement!SetPort
  <2>4. QED
    BY <2>3 DEF Agreement!Next
<1>6. CASE ReadAnswer /\ again
  <2>1. ret = "NONE" /\ ret' = "OK" /\ mod' = mod /\ ~Set
    BY <1>1, <1>6 DEF ReadAnswer, Return, Progress, Set
  <2>2. pc = "match" /\ Heard
    BY <1>1, <1>6, AnsweredIsHeard DEF ReadAnswer
  <2>3. faults["option"] > 0 \/ (rate = Baudrate /\ mod.rate = Baudrate)
    BY <1>4, <1>6, <2>2 DEF FitInv, HeardAtItsRate
  <2>4. Agreement!Agree
    BY <1>2, <1>3, <2>1, <2>3 DEF Agreement!Agree
  <2>5. QED
    BY <2>4 DEF Agreement!Next
<1>7. CASE GiveUp \/ (Open /\ pc' = "done")
  <2>1. ret = "NONE" /\ ret' = "FAILED" /\ mod' = mod /\ ~Set
    BY <1>1, <1>7 DEF GiveUp, NoMatch, Open, Return, Progress, Set
  <2>2. Agreement!Disagree
    BY <1>2, <1>3, <2>1 DEF Agreement!Disagree
  <2>3. QED
    BY <2>2 DEF Agreement!Next
<1>8. CASE ModuleTakes
  <2>1. ret' = ret /\ ~Set
    BY <1>1, <1>8, OutsideLeaves DEF Set, Progress
  <2>2. mod'.rate = mod.rate \/ mod'.rate = Baudrate
    BY <1>1, ModuleMoves
  <2>3. CASE mod'.rate = mod.rate
    BY <1>2, <1>3, <2>1, <2>3 DEF Agreement!vars
  <2>4. CASE mod'.rate = Baudrate /\ mod'.rate # mod.rate
    <3>1. ret = "OK" => faults["option"] > 0
      BY <1>1, <1>4, <2>4 DEF FitInv, HeardAtItsRate, Progress
    <3>2. Agreement!ModuleFollows
      BY <1>2, <1>3, <2>1, <2>4, <3>1 DEF Agreement!ModuleFollows
    <3>3. QED
      BY <3>2 DEF Agreement!Next
  <2>5. QED
    BY <2>2, <2>3, <2>4
<1>9. CASE \/ Open /\ pc' # "done"
           \/ Ask \/ Configure \/ Settle \/ ReadOn \/ NextRate
           \/ ReadAnswer /\ ~again
           \/ ModuleTalks \/ Arrive \/ Lose
  <2>1. ret' = ret /\ mod' = mod /\ ~Set
    <3>1. CASE ModuleTalks \/ Arrive \/ Lose
      BY <3>1, OutsideLeaves DEF ModuleTalks, Arrive, Lose, Set
    <3>2. CASE Open /\ pc' # "done"
      BY <3>2 DEF Open, Return, Set
    <3>3. CASE Ask \/ Configure \/ Settle \/ ReadOn \/ NextRate
      BY <3>3 DEF Ask, Configure, Settle, ReadOn, NextRate, NoMatch, Set, fitting
    <3>4. CASE ReadAnswer /\ ~again
      BY <3>4 DEF ReadAnswer, Set
    <3>5. QED
      BY <1>9, <3>1, <3>2, <3>3, <3>4
  <2>2. QED
    BY <1>2, <1>3, <2>1 DEF Agreement!vars
<1>10. QED
  BY <1>5, <1>6, <1>7, <1>8, <1>9 DEF Next, Host

(* To the caller the call is one of RateAgreement: every turn, token and
   flush is a step of it or none, the module moves only to the rate that was
   asked for, and 0 means agreement unless a setting of the port has failed
   (UpgradeM7xx.c:785-861). *)
THEOREM ImplementsAgreement == Spec => ReachesAgreement
<1>1. FitInv /\ FitInv' /\ [Next]_vars => [Agreement!Next]_(Agreement!vars)
  <2> SUFFICES ASSUME FitInv, FitInv', [Next]_vars
               PROVE  [Agreement!Next]_(Agreement!vars)
    OBVIOUS
  <2>1. CASE Next
    BY <2>1, AgreementStep
  <2>2. CASE UNCHANGED vars
    BY <2>2 DEF vars, fitting, given, uart, Agreement!vars
  <2>3. QED
    BY <2>1, <2>2
<1>2. QED
  BY <1>1, AgreementInit, FitInvariant, PTL DEF Spec, ReachesAgreement, Agreement!Spec
=============================================================================
