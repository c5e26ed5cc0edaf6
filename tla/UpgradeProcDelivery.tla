------------------------ MODULE UpgradeProcDelivery ------------------------
(***************************************************************************)
(* What the module receives is the file, in one run of the program and     *)
(* across runs: the proofs.                                                *)
(*                                                                         *)
(* The host sends a request only when the module has answered the one      *)
(* before it, the reboot request apart, so at most one request that the    *)
(* module has not seen can make it act on its image; and it asks for the   *)
(* bytes that the module's last answer asks for.  The module recognises    *)
(* every other copy of a request by its command and number, which          *)
(* FreshInv of UpgradeProcProofs shows to be telling enough.               *)
(***************************************************************************)
EXTENDS UpgradeRetry, UpgradeProcProofs

(* The requests that the module may yet take: those on the line, and the one
   that the host may send again. *)
Sent == {toModule[i] : i \in DOMAIN toModule}
          \cup (IF Cached(handle) THEN {handle.str} ELSE {})

(* The frames that the host may yet read: those on their way, and the last
   one, which may be repeated. *)
Heard == {toHost[i] : i \in DOMAIN toHost} \cup {line}

Unseen(r) == mod.last.reply => mod.last.gen < r.gen

OneEach ==
  /\ ~Cached(handle) => Sent = {}
  /\ Cached(handle) => handle.str.cmd = handle.sendCmd
  /\ \A r, q \in Sent : r.gen = q.gen => r = q

(* The module's last answer is to one of the last two requests, or to the one
   before them when the reboot request has been passed over. *)
LastAnswer ==
  /\ ~mod.last.reply => mod.last.cmd = "NONE"
  /\ mod.last.reply =>
       /\ mod.last.gen <= line.gen
       /\ gen <= mod.last.gen + Lag
       /\ NumberOf(mod.last, gen, handle.sendNum)
       /\ \A r \in Sent : r.gen = mod.last.gen =>
            r.cmd = mod.last.cmd /\ r.num = mod.last.num

(* Only the module answers the pending request, and always the same. *)
Echo(f) ==
  f.reply /\ f.gen = gen /\ f.cmd = handle.sendCmd =>
    /\ mod.last.reply /\ mod.last.gen = gen
    /\ f.ok = mod.last.ok /\ f.at = mod.last.at /\ f.size = mod.last.size

Echoes == \A f \in Heard : Echo(f)

(* The one request that can be behind the pending one and unseen. *)
PassedOver ==
  \A r \in Sent :
    Unseen(r) /\ r.gen < gen =>
      /\ r.cmd = "REQUEST_REBOOT"
      /\ handle.sendCmd = "SET_RADIO_UPDATE_TRANSFER_MODE"

CommandOf(st) ==
  CASE st \in {"OPEN_RADIO", "CLOSE_RADIO"} -> "SET_RADIO_UPDATE_TRANSFER_MODE"
    [] st = "SEND_MAX_FRAME_LEN" -> "SET_SEND_MAX_FRAME_LEN"
    [] OTHER -> st

Asked ==
  /\ At({"IDLE"}) => ~Cached(handle) /\ ~mod.last.reply
  /\ At(AwaitStatuses \cup {"REQUEST_REBOOT"}) =>
       Cached(handle) /\ handle.sendCmd = CommandOf(status)

WireInv == OneEach /\ LastAnswer /\ Echoes /\ PassedOver /\ Asked
-----------------------------------------------------------------------------
Sizing == {"IDLE", "OPEN_RADIO", "GET_DEVICE_MAX_FRAME_LEN"}
Sized == {"GET_DEVICE_INFO", "REQUEST_UPGRADE", "SET_FAST_UPDATE_MODE",
          "GET_DEVICE_STATUS", "SEND_FIRMWARE"}
Granted == {"SET_FAST_UPDATE_MODE", "GET_DEVICE_STATUS"}
Delivered == {"REQUEST_REBOOT", "CLOSE_RADIO", "SUCCESS"}

Carries(r) == r.cmd = "SEND_FIRMWARE"

Lengths ==
  /\ limit <= mod.maxLen
  /\ At({"SEND_MAX_FRAME_LEN"}) => handle.str.size = limit /\ limit > FieldLen
  /\ At(Sized) => mod.sendMax = limit /\ limit > FieldLen
  /\ At(Sizing) => \A r \in Sent : ~Carries(r)
  /\ \A r \in Sent : Carries(r) => r.size + FieldLen <= limit

AnswerMeans ==
  mod.last.reply /\ mod.last.ok =>
    /\ mod.last.cmd = "GET_DEVICE_MAX_FRAME_LEN" => mod.last.size = mod.maxLen
    /\ mod.last.cmd = "SET_SEND_MAX_FRAME_LEN" /\ mod.last.gen = gen =>
         mod.sendMax = handle.str.size
    /\ mod.last.cmd = "REQUEST_UPGRADE" => mod.image = << >> /\ mod.want.size = 0
    /\ mod.last.cmd = "SEND_FIRMWARE" =>
         /\ mod.want.at = mod.last.at /\ mod.want.size = mod.last.size
         /\ mod.last.at = 0 \/ mod.last.size = 0 => ImageEnd = FileSize
         /\ /\ mod.last.at # 0 /\ mod.last.size # 0
            /\ mod.last.size + FieldLen <= mod.sendMax
            /\ InFile(mod.last.at, mod.last.size)
            => mod.last.at = ImageEnd

Due(r) ==
  /\ mod.sendMax > FieldLen
  /\ \/ mod.image = << >> /\ mod.want.size = 0
     \/ /\ r.at = mod.want.at /\ r.size = mod.want.size
        /\ r.at = ImageEnd /\ r.size > 0 /\ InFile(r.at, r.size)

InTurn == \A r \in Sent : Unseen(r) /\ Carries(r) => Due(r)

StartsOver == At(Granted) => mod.image = << >> /\ mod.want.size = 0

Complete ==
  /\ phase # "done" => returned = "NONE"
  /\ At(Delivered) \/ returned = "OK" =>
    /\ ImageEnd = FileSize
    /\ \A r \in Sent : Unseen(r) => ~Carries(r) /\ r.cmd # "REQUEST_UPGRADE"

Whole ==
  \A k \in DOMAIN mod.image :
    /\ mod.image[k].place =
         IF k = 1 THEN FileInfoLen ELSE mod.image[k - 1].place + mod.image[k - 1].size
    /\ mod.image[k].at = mod.image[k].place
    /\ mod.image[k].size > 0
    /\ InFile(mod.image[k].at, mod.image[k].size)

ImageInv == Lengths /\ AnswerMeans /\ InTurn /\ StartsOver /\ Complete /\ Whole

DeliveryInv == WireInv /\ ImageInv

-----------------------------------------------------------------------------
(* The requests and the frames there are, as FreshInv knows them. *)
LEMMA SentFacts ==
  ASSUME TypeOK, FreshInv, NEW r \in Sent
  PROVE  /\ r \in Request /\ r.gen \in Nat
         /\ line.gen <= r.gen /\ r.gen <= gen /\ gen <= r.gen + Lag
         /\ NumberOf(r, gen, handle.sendNum)
<1>1. /\ toModule \in Seq(Request) /\ DOMAIN toModule = 1..Len(toModule)
      /\ handle.str \in Request /\ gen \in Nat /\ Lag \in 0..2
      /\ line.gen \in Nat
  BY TrafficTypes, LagType, LenProperties, GenType
<1>2. Traffic(toHost, toModule, line, gen, handle.sendNum, Lag)
  BY DEF FreshInv
<1>3. CASE r \in {toModule[i] : i \in DOMAIN toModule}
  <2>1. PICK i \in DOMAIN toModule : r = toModule[i]
    BY <1>3
  <2>2. r \in Request /\ r.gen \in Nat
    BY <1>1, <2>1, ElementOfSeq, GenType
  <2>3. QED
    BY <1>2, <2>1, <2>2 DEF Traffic, Numbered, Ordered, Within
<1>4. CASE Cached(handle) /\ r = handle.str
  <2>1. r.gen = gen /\ r.num = handle.sendNum
    BY <1>4 DEF FreshInv
  <2>2. line.gen <= gen
    BY <1>2 DEF Traffic, Ordered
  <2>3. QED
    BY <1>1, <1>4, <2>1, <2>2 DEF NumberOf
<1>5. QED
  BY <1>3, <1>4 DEF Sent

LEMMA HeardFacts ==
  ASSUME TypeOK, FreshInv, NEW f \in Heard
  PROVE  f \in Reply /\ f.gen \in Nat /\ f.gen <= line.gen /\ line.gen <= gen
<1>1. /\ toHost \in Seq(Reply) /\ DOMAIN toHost = 1..Len(toHost)
      /\ line \in Reply /\ line.gen \in Nat
  BY TrafficTypes, LenProperties, GenType
<1>2. Traffic(toHost, toModule, line, gen, handle.sendNum, Lag)
  BY DEF FreshInv
<1>3. QED
  BY <1>1, <1>2, ElementOfSeq, GenType DEF Heard, Traffic, Ordered

(* How a step changes what is sent. *)
LEMMA SentWritten ==
  ASSUME TypeOK, handle' = handle, NEW resent \in BOOLEAN, resent => Cached(handle),
         toModule' = Written(resent)
  PROVE  Sent' = Sent
<1>1. toModule \in Seq(Request) /\ handle.str \in Request /\ Len(toModule) \in Nat
  BY TrafficTypes, LenProperties
<1>2. CASE resent
  <2>1. toModule' = Append(toModule, handle.str)
    BY <1>2 DEF Written
  <2>2. /\ DOMAIN toModule = 1..Len(toModule) /\ DOMAIN toModule' = 1..(Len(toModule) + 1)
        /\ \A i \in DOMAIN toModule : toModule'[i] = toModule[i]
        /\ toModule'[Len(toModule) + 1] = handle.str
    BY <1>1, <2>1, AppendType, LenProperties
  <2>3. {toModule'[i] : i \in DOMAIN toModule'} =
          {toModule[i] : i \in DOMAIN toModule} \cup {handle.str}
    BY <1>1, <2>2
  <2>4. QED
    BY <1>2, <2>3 DEF Sent
<1>3. CASE ~resent
  BY <1>3 DEF Written, Sent
<1>4. QED
  BY <1>2, <1>3

LEMMA SentSend ==
  ASSUME TypeOK, NEW cmd \in Commands, NEW at \in Nat, NEW size \in Nat,
         NEW resent \in BOOLEAN, resent => Cached(handle),
         Send(cmd, at, size, resent)
  PROVE  /\ Cached(handle)' /\ handle'.sendCmd = cmd
         /\ handle'.str = [cmd |-> cmd, num |-> handle'.sendNum, gen |-> gen + 1,
                           at |-> at, size |-> size]
         /\ handle'.str \in Sent'
         /\ \A r \in Sent' : r \in Sent \/ r = handle'.str
<1>1. /\ handle'.sendCmd = cmd
      /\ handle'.str = [cmd |-> cmd, num |-> handle'.sendNum, gen |-> gen + 1,
                        at |-> at, size |-> size]
  BY DEF Send, FrameEncode
<1>2. Cached(handle)'
  BY <1>1 DEF Cached, Commands
<1>3. toModule' = Append(Written(resent), handle'.str)
  BY DEF Send
<1>4. handle'.str \in Request /\ handle.str \in Request /\ toModule \in Seq(Request)
      /\ Len(toModule) \in Nat /\ Written(resent) \in Seq(Request)
      /\ Len(Written(resent)) \in Nat
  <2>1. handle \in Handle /\ gen + 1 \in Nat
    BY TrafficTypes
  <2>2. handle'.str \in Request
    BY <2>1, EncodeType DEF Send
  <2>3. QED
    BY <2>2, WrittenType, TrafficTypes, LenProperties
<1>5. /\ DOMAIN toModule' = 1..(Len(Written(resent)) + 1)
      /\ \A i \in 1..Len(Written(resent)) : toModule'[i] = Written(resent)[i]
      /\ toModule'[Len(Written(resent)) + 1] = handle'.str
  BY <1>3, <1>4, AppendType, LenProperties
<1>6. \A i \in 1..Len(Written(resent)) : Written(resent)[i] \in Sent
  <2>1. CASE resent
    <3>1. Written(resent) = Append(toModule, handle.str)
      BY <2>1 DEF Written
    <3>2. handle.str \in Sent /\ \A i \in 1..Len(toModule) : toModule[i] \in Sent
      BY <1>4, <2>1, LenProperties DEF Sent
    <3>3. /\ Len(Written(resent)) = Len(toModule) + 1
          /\ \A i \in 1..Len(toModule) : Written(resent)[i] = toModule[i]
          /\ Written(resent)[Len(toModule) + 1] = handle.str
      BY <1>4, <3>1, AppendType
    <3>4. QED
      BY <1>4, <3>2, <3>3
  <2>2. CASE ~resent
    BY <1>4, <2>2, LenProperties DEF Written, Sent
  <2>3. QED
    BY <2>1, <2>2
<1>7. ASSUME NEW r \in Sent' PROVE r \in Sent \/ r = handle'.str
  <2>1. CASE r = handle'.str
    BY <2>1
  <2>2. CASE \E i \in DOMAIN toModule' : r = toModule'[i]
    BY <1>4, <1>5, <1>6, <2>2
  <2>3. QED
    BY <2>1, <2>2 DEF Sent
<1>8. QED
  BY <1>1, <1>2, <1>7 DEF Sent

LEMMA SentTaken ==
  ASSUME TypeOK, handle' = handle, toModule # << >>, toModule' = Tail(toModule)
  PROVE  /\ Head(toModule) \in Sent
         /\ \A r \in Sent' : r \in Sent
<1>1. /\ toModule \in Seq(Request) /\ Len(toModule) \in Nat /\ Len(toModule) > 0
      /\ DOMAIN toModule = 1..Len(toModule)
      /\ DOMAIN toModule' = 1..(Len(toModule) - 1)
      /\ \A i \in DOMAIN toModule' : i + 1 \in DOMAIN toModule /\ toModule'[i] = toModule[i + 1]
      /\ Head(toModule) = toModule[1]
  BY TrafficTypes, TailType, LenProperties
<1>2. 1 \in DOMAIN toModule
  BY <1>1
<1>3. Head(toModule) \in Sent
  BY <1>1, <1>2 DEF Sent
<1>4. ASSUME NEW r \in Sent' PROVE r \in Sent
  BY <1>1 DEF Sent
<1>5. QED
  BY <1>3, <1>4

(* How a step changes what can be heard. *)
LEMMA HeardRead ==
  ASSUME TypeOK, line' = line, NEW m \in 0..Len(toHost), toHost' = Unread(toHost, m)
  PROVE  \A f \in Heard' : f \in Heard
<1>1. toHost \in Seq(Reply) /\ Len(toHost) \in Nat /\ DOMAIN toHost = 1..Len(toHost)
  BY TrafficTypes, LenProperties
<1>2. toHost' = SubSeq(toHost, m + 1, Len(toHost))
  BY DEF Unread
<1>3. /\ toHost' \in Seq(Reply) /\ Len(toHost') = Len(toHost) - m
      /\ \A i \in 1..(Len(toHost) - m) : toHost'[i] = toHost[i + m]
  BY <1>1, <1>2, UnreadType
<1>4. DOMAIN toHost' = 1..(Len(toHost) - m)
  BY <1>3, LenProperties
<1>5. \A i \in DOMAIN toHost' : i + m \in DOMAIN toHost /\ toHost'[i] = toHost[i + m]
  BY <1>1, <1>3, <1>4
<1>6. QED
  BY <1>5 DEF Heard

LEMMA HeardMatch ==
  ASSUME TypeOK, line' = line, NEW i \in DOMAIN toHost, ReadMatch(i)
  PROVE  toHost[i] \in Heard /\ \A f \in Heard' : f \in Heard
<1>1. i \in 1..Len(toHost) /\ Len(toHost) \in Nat
  BY LenProperties DEF TypeOK
<1>2. PICK n \in i..Len(toHost) : toHost' = Unread(toHost, n)
  BY DEF ReadMatch
<1>3. n \in 0..Len(toHost)
  BY <1>1
<1>4. QED
  BY <1>2, <1>3, HeardRead DEF Heard

LEMMA HeardAppend ==
  ASSUME TypeOK, NEW f \in Reply, toHost' = Append(toHost, f), line' \in {line, f}
  PROVE  \A g \in Heard' : g \in Heard \/ g = f
<1>1. /\ toHost \in Seq(Reply) /\ Len(toHost) \in Nat /\ DOMAIN toHost = 1..Len(toHost)
      /\ DOMAIN toHost' = 1..(Len(toHost) + 1)
      /\ \A i \in DOMAIN toHost : toHost'[i] = toHost[i]
      /\ toHost'[Len(toHost) + 1] = f
  BY TrafficTypes, AppendType, LenProperties
<1>2. ASSUME NEW i \in DOMAIN toHost' PROVE toHost'[i] \in Heard \/ toHost'[i] = f
  BY <1>1 DEF Heard
<1>3. QED
  BY <1>2 DEF Heard

-----------------------------------------------------------------------------
(* A frame that matches the pending request repeats what the module answered
   to that request. *)
LEMMA MatchIsAnswer ==
  ASSUME TypeOK, FreshInv, WireInv, NEW i \in DOMAIN toHost, ReadMatch(i)
  PROVE  /\ mod.last.reply /\ mod.last.gen = gen
         /\ toHost[i] \in Reply
         /\ toHost[i].ok = mod.last.ok
         /\ toHost[i].at = mod.last.at /\ toHost[i].size = mod.last.size
         /\ Cached(handle) => mod.last.cmd = handle.sendCmd
         /\ \A r \in Sent : ~Unseen(r)
<1>1. toHost[i] \in Heard /\ toHost[i] \in Reply
  BY ReadMatchType DEF Heard
<1>2. toHost[i].crc /\ Matches(handle, toHost[i])
  <2>1. toHost[i].crc /\ Matches(handle, toHost[i])
    BY DEF ReadMatch, FirstGood
  <2>2. QED
    BY <2>1
<1>3. toHost[i].gen = gen
  BY <1>2, FreshImplied DEF FreshReply
<1>4. Echo(toHost[i])
  BY <1>1 DEF WireInv, Echoes
<1>5. /\ mod.last.reply /\ mod.last.gen = gen
      /\ toHost[i].ok = mod.last.ok
      /\ toHost[i].at = mod.last.at /\ toHost[i].size = mod.last.size
  BY <1>2, <1>3, <1>4 DEF Echo, Matches
<1>6. Cached(handle) => mod.last.cmd = handle.sendCmd
  <2>1. SUFFICES ASSUME Cached(handle) PROVE mod.last.cmd = handle.sendCmd
    OBVIOUS
  <2>2. handle.str \in Sent /\ handle.str.gen = gen /\ handle.str.cmd = handle.sendCmd
    BY <2>1 DEF Sent, FreshInv, WireInv, OneEach
  <2>3. QED
    BY <1>5, <2>2 DEF WireInv, LastAnswer
<1>7. ASSUME NEW r \in Sent PROVE ~Unseen(r)
  <2>1. r.gen <= gen /\ r.gen \in Nat /\ gen \in Nat
    BY SentFacts, TrafficTypes
  <2>2. QED
    BY <1>5, <2>1 DEF Unseen
<1>8. QED
  BY <1>1, <1>5, <1>6, <1>7

(* A step of the host or the line that sends no new request. *)
LEMMA QuietWire ==
  ASSUME TypeOK, FreshInv, WireInv,
         handle' = handle, gen' = gen, mod' = mod, line' = line,
         \A r \in Sent' : r \in Sent,
         \A f \in Heard' : f \in Heard,
         mod.last.reply => gen <= mod.last.gen + Lag',
         Asked'
  PROVE  WireInv'
<1>1. OneEach'
  BY DEF WireInv, OneEach
<1>2. LastAnswer'
  BY DEF WireInv, LastAnswer
<1>3. Echoes'
  BY DEF WireInv, Echoes, Echo
<1>4. PassedOver'
  BY DEF WireInv, PassedOver, Unseen
<1>5. QED
  BY <1>1, <1>2, <1>3, <1>4 DEF WireInv

(* The next request is sent. *)
LEMMA SendWire ==
  ASSUME TypeOK, FreshInv, WireInv,
         NEW cmd \in Commands, NEW at \in Nat, NEW size \in Nat,
         NEW resent \in BOOLEAN, resent => Cached(handle), Send(cmd, at, size, resent),
         mod' = mod, line' = line,
         \A f \in Heard' : f \in Heard,
         mod.last.reply => gen + 1 <= mod.last.gen + Lag',
         \A r \in Sent : Unseen(r) =>
           r.cmd = "REQUEST_REBOOT" /\ cmd = "SET_RADIO_UPDATE_TRANSFER_MODE",
         Asked'
  PROVE  WireInv'
<1>1. /\ Cached(handle)' /\ handle'.sendCmd = cmd
      /\ handle'.str.cmd = cmd /\ handle'.str.gen = gen + 1
      /\ \A r \in Sent' : r \in Sent \/ r = handle'.str
  <2>1. /\ Cached(handle)' /\ handle'.sendCmd = cmd
        /\ handle'.str = [cmd |-> cmd, num |-> handle'.sendNum, gen |-> gen + 1,
                          at |-> at, size |-> size]
        /\ \A r \in Sent' : r \in Sent \/ r = handle'.str
    BY SentSend
  <2>2. QED
    BY <2>1
<1>2. gen \in Nat /\ gen' = gen + 1
  BY TrafficTypes DEF Send
<1>3. \A r \in Sent : r.gen \in Nat /\ r.gen <= gen
  BY SentFacts
<1>4. \A f \in Heard' : f.gen \in Nat /\ f.gen <= gen
  <2>1. line.gen \in Nat
    BY TrafficTypes, GenType
  <2>2. QED
    BY <1>2, <2>1, HeardFacts
<1>5. mod.last.gen \in Nat /\ line.gen \in Nat
  BY GenType, TrafficTypes DEF TypeOK
<1>6. OneEach'
  BY <1>1, <1>2, <1>3 DEF WireInv, OneEach
<1>7. LastAnswer'
  <2>1. mod.last.reply => mod.last.gen <= line.gen /\ mod.last.gen <= gen
    <3>1. line \in Heard
      BY DEF Heard
    <3>2. line.gen <= gen
      BY <3>1, HeardFacts
    <3>3. QED
      BY <1>2, <1>5, <3>2 DEF WireInv, LastAnswer
  <2>2. mod.last.reply => NumberOf(mod.last, gen', handle'.sendNum)
    <3>1. handle'.sendNum = (handle.sendNum + 1) % Modulus
      BY DEF Send, FrameEncode
    <3>2. QED
      BY <1>2, <1>5, <2>1, <3>1 DEF WireInv, LastAnswer, NumberOf
  <2>3. mod.last.reply => \A r \in Sent' : r.gen = mod.last.gen =>
          r.cmd = mod.last.cmd /\ r.num = mod.last.num
    BY <1>1, <1>2, <1>5, <2>1 DEF WireInv, LastAnswer
  <2>4. QED
    BY <1>2, <2>1, <2>2, <2>3 DEF WireInv, LastAnswer
<1>8. Echoes'
  BY <1>2, <1>4 DEF Echoes, Echo
<1>9. PassedOver'
  BY <1>1, <1>2, <1>3 DEF PassedOver, Unseen
<1>10. QED
  BY <1>6, <1>7, <1>8, <1>9 DEF WireInv

-----------------------------------------------------------------------------
(* The request that the module takes. *)
LEMMA HeadFacts ==
  ASSUME TypeOK, FreshInv, WireInv, toModule # << >>
  PROVE  LET r == Head(toModule) IN
         /\ r \in Sent /\ r \in Request /\ Cached(handle)
         /\ r.gen = gen => r = handle.str
         /\ ~SeenBefore(r) => Unseen(r)
         /\ ~SeenBefore(r) /\ r.gen < gen => r.cmd = "REQUEST_REBOOT"
         /\ SeenBefore(r) /\ r.gen = gen => mod.last.reply /\ mod.last.gen = gen
<1> DEFINE r == Head(toModule)
<1>1. r \in Sent
  <2>1. /\ toModule \in Seq(Request) /\ 1 \in DOMAIN toModule /\ r = toModule[1]
    BY TrafficTypes, TailType, LenProperties
  <2>2. QED
    BY <2>1 DEF Sent
<1> HIDE DEF r
<1>2. /\ r \in Request /\ r.gen \in Nat /\ gen \in Nat
      /\ line.gen <= r.gen /\ r.gen <= gen
      /\ NumberOf(r, gen, handle.sendNum)
  BY <1>1, SentFacts, TrafficTypes
<1>3. mod.last \in Reply /\ mod.last.gen \in Nat /\ line.gen \in Nat
  BY GenType, TrafficTypes DEF TypeOK
<1>4. Cached(handle)
  BY <1>1 DEF WireInv, OneEach
<1>5. r.gen = gen => r = handle.str
  <2>1. handle.str \in Sent /\ handle.str.gen = gen
    BY <1>4 DEF Sent, FreshInv
  <2>2. QED
    BY <1>1, <2>1 DEF WireInv, OneEach
<1>6. ~SeenBefore(r) => Unseen(r)
  <2>1. SUFFICES ASSUME ~SeenBefore(r), mod.last.reply PROVE mod.last.gen < r.gen
    BY DEF Unseen
  <2>2. mod.last.gen <= line.gen
    BY <2>1 DEF WireInv, LastAnswer
  <2>3. r.gen # mod.last.gen
    BY <1>1, <2>1 DEF WireInv, LastAnswer, SeenBefore
  <2>4. QED
    BY <1>2, <1>3, <2>2, <2>3
<1>7. ~SeenBefore(r) /\ r.gen < gen => r.cmd = "REQUEST_REBOOT"
  BY <1>1, <1>6 DEF WireInv, PassedOver
<1>8. SeenBefore(r) /\ r.gen = gen => mod.last.reply /\ mod.last.gen = gen
  <2>1. SUFFICES ASSUME SeenBefore(r), r.gen = gen
                 PROVE  mod.last.reply /\ mod.last.gen = gen
    OBVIOUS
  <2>2. r.num = handle.sendNum /\ r.cmd # "NONE"
    BY <1>2, <1>4, <1>5, <2>1 DEF NumberOf, Cached
  <2>3. mod.last.num = handle.sendNum /\ mod.last.cmd # "NONE"
    BY <2>1, <2>2 DEF SeenBefore
  <2>4. mod.last.reply
    BY <2>3 DEF WireInv, LastAnswer
  <2>5. /\ mod.last.gen <= line.gen /\ gen <= mod.last.gen + Lag
        /\ NumberOf(mod.last, gen, handle.sendNum)
    BY <2>4 DEF WireInv, LastAnswer
  <2>6. mod.last.gen <= gen /\ gen <= mod.last.gen + 2
    BY <1>2, <1>3, <2>5, LagType
  <2>7. handle.sendNum \in FrameNumbers
    BY TrafficTypes
  <2>8. QED
    BY <1>2, <1>3, <2>3, <2>4, <2>5, <2>6, <2>7, FreshNumber
<1>9. QED
  BY <1>1, <1>2, <1>4, <1>5, <1>6, <1>7, <1>8 DEF r

LEMMA AnswerFields ==
  ASSUME TypeOK, NEW r \in Request, NEW ok \in BOOLEAN, NEW ask, Answer(r, ok, ask)
  PROVE  /\ toModule' = Tail(toModule) /\ line' = ReplyTo(r, ok, ask)
         /\ toHost' = Append(toHost, line')
         /\ mod'.last = ReplyTo(r, ok, ask)
         /\ mod'.want = IF r.cmd \in {"REQUEST_UPGRADE", "SEND_FIRMWARE"} THEN ask ELSE mod.want
         /\ mod'.image = IF ok THEN ImageAfter(r) ELSE mod.image
         /\ mod'.sendMax = IF ok /\ r.cmd = "SET_SEND_MAX_FRAME_LEN" THEN r.size ELSE mod.sendMax
         /\ mod'.maxLen = mod.maxLen
<1>1. mod \in [maxLen : Nat, sendMax : Nat, last : Reply,
               want : [at : Nat, size : Nat], image : Seq(Piece), rebooted : BOOLEAN]
  BY DEF TypeOK
<1>2. QED
  BY <1>1 DEF Answer, PutOnLine

LEMMA AnswerWire ==
  ASSUME TypeInv, FreshInv, WireInv, TypeInv', toModule # << >>,
         ~SeenBefore(Head(toModule)),
         NEW ok \in BOOLEAN, NEW ask, Answer(Head(toModule), ok, ask),
         UNCHANGED <<control, requests>>
  PROVE  /\ WireInv'
         /\ \A r \in Sent' : r \in Sent /\ (Unseen(r)' => r.gen > Head(toModule).gen)
<1> DEFINE r == Head(toModule)
<1>0. TypeOK /\ TypeOK' /\ handle' = handle /\ gen' = gen /\ status' = status /\ phase' = phase
  BY DEF TypeInv, control, requests
<1>1. /\ r \in Sent /\ r \in Request /\ Cached(handle)
      /\ r.gen = gen => r = handle.str
      /\ Unseen(r)
  BY <1>0, HeadFacts
<1>2. /\ toModule' = Tail(toModule) /\ line' = ReplyTo(r, ok, ask)
      /\ toHost' = Append(toHost, line')
      /\ mod'.last = ReplyTo(r, ok, ask)
  BY <1>0, <1>1, AnswerFields
<1>3. \A q \in Sent' : q \in Sent
  BY <1>0, <1>2, SentTaken
<1>4. /\ mod'.last.reply /\ mod'.last.gen = r.gen /\ mod'.last.num = r.num
      /\ mod'.last.cmd = r.cmd /\ line' = mod'.last
  BY <1>2 DEF ReplyTo
<1>5. line' \in Reply
  BY <1>0 DEF TypeOK
<1>6. \A f \in Heard' : f \in Heard \/ f = line'
  BY <1>0, <1>2, <1>5, HeardAppend
<1>7. Lag' = Lag /\ Lag \in 0..2
  BY <1>0, LagType DEF Lag
<1>8. /\ r.gen \in Nat /\ gen \in Nat /\ line.gen \in Nat /\ mod.last.gen \in Nat
      /\ line.gen <= r.gen /\ r.gen <= gen /\ gen <= r.gen + Lag
      /\ NumberOf(r, gen, handle.sendNum)
  BY <1>0, <1>1, SentFacts, TrafficTypes, GenType DEF TypeOK
<1>9. \A q \in Sent : q.gen \in Nat
  BY <1>0, SentFacts
<1> HIDE DEF r
<1>10. OneEach'
  BY <1>0, <1>1, <1>3 DEF WireInv, OneEach
<1>11. LastAnswer'
  <2>1. \A q \in Sent' : q.gen = r.gen => q = r
    BY <1>1, <1>3 DEF WireInv, OneEach
  <2>2. NumberOf(mod'.last, gen, handle.sendNum)
    BY <1>4, <1>8 DEF NumberOf
  <2>3. QED
    BY <1>0, <1>4, <1>7, <1>8, <2>1, <2>2 DEF LastAnswer
<1>12. Echoes'
  <2>1. SUFFICES ASSUME NEW f \in Heard', f.reply, f.gen = gen, f.cmd = handle.sendCmd
                 PROVE  /\ mod'.last.gen = gen
                        /\ f.ok = mod'.last.ok /\ f.at = mod'.last.at
                        /\ f.size = mod'.last.size
    BY <1>0, <1>4 DEF Echoes, Echo
  <2>2. CASE f = line'
    BY <1>4, <2>1, <2>2
  <2>3. CASE f \in Heard
    <3>1. mod.last.reply /\ mod.last.gen = gen
      BY <2>1, <2>3 DEF WireInv, Echoes, Echo
    <3>2. f.gen <= line.gen /\ f.gen \in Nat
      BY <1>0, <2>3, HeardFacts
    <3>3. r.gen = mod.last.gen
      BY <1>8, <2>1, <3>1, <3>2
    <3>4. QED
      BY <1>1, <3>1, <3>3, <1>8 DEF Unseen
  <2>4. QED
    BY <1>6, <2>2, <2>3
<1>13. ASSUME NEW q \in Sent' PROVE Unseen(q)' => q.gen > r.gen /\ Unseen(q)
  BY <1>1, <1>3, <1>4, <1>8, <1>9 DEF Unseen
<1>14. PassedOver'
  BY <1>0, <1>3, <1>13 DEF WireInv, PassedOver
<1>15. Asked'
  BY <1>0, <1>1 DEF WireInv, Asked, At
<1>16. QED
  BY <1>3, <1>10, <1>11, <1>12, <1>13, <1>14, <1>15 DEF WireInv, r

LEMMA AgainWire ==
  ASSUME TypeInv, FreshInv, WireInv, TypeInv', ModuleAnswersAgain
  PROVE  WireInv' /\ \A q \in Sent' : q \in Sent
<1> DEFINE r == Head(toModule)
<1>0. /\ TypeOK /\ TypeOK' /\ handle' = handle /\ gen' = gen /\ status' = status
      /\ phase' = phase /\ mod' = mod
  BY DEF TypeInv, ModuleAnswersAgain, control, requests
<1>1. /\ toModule # << >> /\ toModule' = Tail(toModule) /\ toHost' = Append(toHost, line')
      /\ line' = ReplyTo(r, mod.last.ok, [at |-> mod.last.at, size |-> mod.last.size])
      /\ SeenBefore(r)
  BY DEF ModuleAnswersAgain, PutOnLine
<1>2. /\ r \in Sent /\ r \in Request /\ Cached(handle)
      /\ r.gen = gen => mod.last.reply /\ mod.last.gen = gen
  BY <1>0, <1>1, HeadFacts
<1>3. \A q \in Sent' : q \in Sent
  BY <1>0, <1>1, SentTaken
<1>4. /\ line'.gen = r.gen /\ line'.ok = mod.last.ok
      /\ line'.at = mod.last.at /\ line'.size = mod.last.size
  BY <1>1 DEF ReplyTo
<1>5. line' \in Reply
  BY <1>0 DEF TypeOK
<1>6. \A f \in Heard' : f \in Heard \/ f = line'
  BY <1>0, <1>1, <1>5, HeardAppend
<1>7. Lag' = Lag
  BY <1>0 DEF Lag
<1>8. r.gen \in Nat /\ line.gen \in Nat /\ mod.last.gen \in Nat /\ line.gen <= r.gen
  BY <1>0, <1>2, SentFacts, TrafficTypes, GenType DEF TypeOK
<1> HIDE DEF r
<1>9. OneEach'
  BY <1>0, <1>2, <1>3 DEF WireInv, OneEach
<1>10. LastAnswer'
  <2>1. mod.last.reply => mod.last.gen <= line'.gen
    BY <1>4, <1>8 DEF WireInv, LastAnswer
  <2>2. QED
    BY <1>0, <1>3, <1>7, <2>1 DEF WireInv, LastAnswer
<1>11. Echoes'
  <2>1. Echo(line')
    BY <1>2, <1>4 DEF Echo
  <2>2. \A f \in Heard' : Echo(f)
    BY <1>6, <2>1 DEF WireInv, Echoes
  <2>3. QED
    BY <1>0, <2>2 DEF Echoes, Echo
<1>12. PassedOver' /\ Asked'
  BY <1>0, <1>3 DEF WireInv, PassedOver, Unseen, Asked, At
<1>13. QED
  BY <1>3, <1>9, <1>10, <1>11, <1>12 DEF WireInv

LEMMA LineWire ==
  ASSUME TypeInv, FreshInv, WireInv, TypeInv', Line
  PROVE  WireInv' /\ \A q \in Sent' : q \in Sent
<1>0. /\ TypeOK /\ TypeOK' /\ handle' = handle /\ gen' = gen /\ status' = status
      /\ phase' = phase /\ mod' = mod
  BY DEF TypeInv, Line, LoseRequest, CorruptReply, DuplicateReply, ForeignFrame,
         ResidualReply, control, requests
<1>1. Lag' = Lag
  BY <1>0 DEF Lag
<1>2. Asked'
  BY <1>0 DEF WireInv, Asked, At
<1>3. mod.last.reply => gen <= mod.last.gen + Lag'
  BY <1>1 DEF WireInv, LastAnswer
<1>4. CASE LoseRequest
  <2>1. /\ toModule # << >> /\ toModule' = Tail(toModule) /\ toHost' = toHost
        /\ line' = line
    BY <1>4 DEF LoseRequest
  <2>2. \A q \in Sent' : q \in Sent
    BY <1>0, <2>1, SentTaken
  <2>3. \A f \in Heard' : f \in Heard
    BY <2>1 DEF Heard
  <2>4. QED
    BY <1>0, <1>2, <1>3, <2>1, <2>2, <2>3, QuietWire
<1>5. ASSUME Sent' = Sent, line' = line, \A f \in Heard' : Echo(f)
      PROVE  WireInv'
  <2>1. OneEach' /\ PassedOver'
    BY <1>0, <1>5 DEF WireInv, OneEach, PassedOver, Unseen
  <2>2. LastAnswer'
    BY <1>0, <1>1, <1>5 DEF WireInv, LastAnswer
  <2>3. Echoes'
    BY <1>0, <1>5 DEF Echoes, Echo
  <2>4. QED
    BY <1>2, <2>1, <2>2, <2>3 DEF WireInv
<1>6. toModule' = toModule => Sent' = Sent
  BY <1>0 DEF Sent
<1>7. CASE CorruptReply
  <2>1. toModule' = toModule /\ line' = line
    BY <1>7 DEF CorruptReply
  <2>2. PICK i \in DOMAIN toHost : toHost' = [toHost EXCEPT ![i].crc = FALSE]
    BY <1>7 DEF CorruptReply
  <2>3. toHost[i] \in Reply /\ toHost[i] \in Heard
    BY <1>0, TrafficTypes, ElementOfSeq, LenProperties DEF Heard
  <2> DEFINE c == [toHost[i] EXCEPT !.crc = FALSE]
  <2>4. /\ c.reply = toHost[i].reply /\ c.gen = toHost[i].gen /\ c.cmd = toHost[i].cmd
        /\ c.ok = toHost[i].ok /\ c.at = toHost[i].at /\ c.size = toHost[i].size
    BY <2>3 DEF Reply
  <2>5. toHost' = [toHost EXCEPT ![i] = c]
    BY <2>2
  <2> HIDE DEF c
  <2>6. \A f \in Heard' : f \in Heard \/ f = c
    BY <2>1, <2>5 DEF Heard
  <2>7. Echo(c)
    BY <2>3, <2>4 DEF WireInv, Echoes, Echo
  <2>8. \A f \in Heard' : Echo(f)
    BY <2>6, <2>7 DEF WireInv, Echoes
  <2>9. QED
    BY <1>5, <1>6, <2>1, <2>8
<1>8. CASE DuplicateReply
  <2>1. toModule' = toModule /\ line' = line /\ toHost' = Append(toHost, line) /\ line \in Reply
    BY <1>0, <1>8, TrafficTypes DEF DuplicateReply
  <2>2. \A f \in Heard' : f \in Heard \/ f = line
    BY <1>0, <2>1, HeardAppend
  <2>3. \A f \in Heard' : Echo(f)
    BY <2>2 DEF WireInv, Echoes, Heard
  <2>4. QED
    BY <1>5, <1>6, <2>1, <2>3
<1>9. CASE ForeignFrame
  <2>1. toModule' = toModule /\ line' = line /\ toHost' = Append(toHost, Foreign)
    BY <1>9 DEF ForeignFrame
  <2>2. Foreign \in Reply
    BY <1>0, ModulusAssumption, TrafficTypes, GenType DEF Foreign, Reply, FrameNumbers
  <2>3. \A f \in Heard' : f \in Heard \/ f = Foreign
    BY <1>0, <2>1, <2>2, HeardAppend
  <2>4. Echo(Foreign)
    BY DEF Foreign, Echo
  <2>5. \A f \in Heard' : Echo(f)
    BY <2>3, <2>4 DEF WireInv, Echoes
  <2>6. QED
    BY <1>5, <1>6, <2>1, <2>5
<1>10. CASE ResidualReply
  <2> DEFINE r == Head(toModule)
  <2>1. /\ toModule # << >> /\ toHost' = Append(toHost, line')
        /\ toModule' = toModule \/ toModule' = Tail(toModule)
        /\ r.cmd = "GET_DEVICE_MAX_FRAME_LEN"
        /\ line' = [ReplyTo(r, TRUE, [at |-> 0, size |-> 0])
                      EXCEPT !.cmd = "SET_RADIO_UPDATE_TRANSFER_MODE"]
    BY <1>10 DEF ResidualReply, PutOnLine
  <2>2. /\ line'.gen = r.gen /\ line'.cmd = "SET_RADIO_UPDATE_TRANSFER_MODE"
        /\ line' \in Reply
    BY <1>0, <2>1 DEF ReplyTo, TypeOK
  <2>3. /\ r \in Sent /\ Cached(handle)
        /\ r.gen = gen => r = handle.str
        /\ line.gen <= r.gen /\ r.gen \in Nat
    BY <1>0, <2>1, HeadFacts, SentFacts
  <2>4. \A q \in Sent' : q \in Sent
    BY <1>0, <1>6, <2>1, SentTaken
  <2>5. \A f \in Heard' : f \in Heard \/ f = line'
    BY <1>0, <2>1, <2>2, HeardAppend
  <2>6. line.gen \in Nat /\ mod.last.gen \in Nat
    BY <1>0, TrafficTypes, GenType DEF TypeOK
  <2> HIDE DEF r
  <2>7. OneEach' /\ PassedOver'
    BY <1>0, <2>3, <2>4 DEF WireInv, OneEach, PassedOver, Unseen
  <2>8. LastAnswer'
    <3>1. mod.last.reply => mod.last.gen <= line'.gen
      BY <2>2, <2>3, <2>6 DEF WireInv, LastAnswer
    <3>2. QED
      BY <1>0, <1>1, <2>4, <3>1 DEF WireInv, LastAnswer
  <2>9. Echo(line')
    <3>1. Cached(handle) => handle.str.cmd = handle.sendCmd
      BY DEF WireInv, OneEach
    <3>2. QED
      BY <2>1, <2>2, <2>3, <3>1 DEF Echo
  <2>10. Echoes'
    <3>1. \A f \in Heard' : Echo(f)
      BY <2>5, <2>9 DEF WireInv, Echoes
    <3>2. QED
      BY <1>0, <3>1 DEF Echoes, Echo
  <2>11. QED
    BY <1>2, <2>4, <2>7, <2>8, <2>10 DEF WireInv
<1>11. \A q \in Sent' : q \in Sent
  <2>1. toModule' = toModule \/ (toModule # << >> /\ toModule' = Tail(toModule))
    BY DEF Line, LoseRequest, CorruptReply, DuplicateReply, ForeignFrame, ResidualReply
  <2>2. QED
    BY <1>0, <1>6, <2>1, SentTaken
<1>12. QED
  BY <1>4, <1>7, <1>8, <1>9, <1>10, <1>11 DEF Line

-----------------------------------------------------------------------------
(* What an answer of the module does to its image. *)

(* The answers that ModuleAnswers chooses from. *)
Replied(r, ok, ask) ==
  \/ ok = TRUE /\ ask = NextAsk(r)
  \/ ok = FALSE /\ ask = [at |-> 0, size |-> 0]
  \/ ok = TRUE /\ Carries(r) /\ ask \in WildAsks

LEMMA ModuleAnswersShape ==
  ASSUME TypeInv, ModuleAnswers
  PROVE  /\ toModule # << >> /\ ~SeenBefore(Head(toModule))
         /\ UNCHANGED <<control, requests>>
         /\ \E ok \in BOOLEAN : \E ask \in Ask :
              Answer(Head(toModule), ok, ask) /\ Replied(Head(toModule), ok, ask)
<1> DEFINE r == Head(toModule)
<1>1. toModule # << >> /\ ~SeenBefore(r) /\ UNCHANGED <<control, requests>>
  BY DEF ModuleAnswers
<1>2. NextAsk(r) \in Ask /\ [at |-> 0, size |-> 0] \in Ask /\ WildAsks \subseteq Ask
  <2>1. WildAsks \subseteq Ask
    BY FileSizeAssumption DEF WildAsks, Ask, TypeInv, LengthInv, TypeOK, FieldLen, FileInfoLen
  <2>2. QED
    BY <1>1, <2>1, TakeType, NextAskType DEF Ask
<1> HIDE DEF r
<1>3. CASE Answer(r, TRUE, NextAsk(r))
  BY <1>1, <1>2, <1>3 DEF Replied, r
<1>4. CASE Answer(r, FALSE, [at |-> 0, size |-> 0])
  BY <1>1, <1>2, <1>4 DEF Replied, r
<1>5. CASE r.cmd = "SEND_FIRMWARE" /\ \E ask \in WildAsks : Answer(r, TRUE, ask)
  BY <1>1, <1>2, <1>5 DEF Replied, Carries, r
<1>6. QED
  BY <1>3, <1>4, <1>5 DEF ModuleAnswers, r

LEMMA AppendPiece ==
  ASSUME TypeOK, Whole, NEW p \in Piece, mod'.image = Append(mod.image, p),
         p.place = ImageEnd, p.at = p.place, p.size > 0, InFile(p.at, p.size)
  PROVE  Whole' /\ ImageEnd' = p.place + p.size
<1> DEFINE n == Len(mod.image)
<1>1. mod.image \in Seq(Piece) /\ n \in Nat /\ DOMAIN mod.image = 1..n
  BY LenProperties DEF TypeOK
<1>2. /\ mod'.image \in Seq(Piece) /\ Len(mod'.image) = n + 1
      /\ \A i \in 1..n : mod'.image[i] = mod.image[i]
      /\ mod'.image[n + 1] = p
  BY <1>1, AppendType
<1>3. DOMAIN mod'.image = 1..(n + 1) /\ mod'.image # << >>
  BY <1>1, <1>2, LenProperties
<1>4. ImageEnd' = p.place + p.size
  BY <1>2, <1>3 DEF ImageEnd
<1>5. ImageEnd = IF n = 0 THEN FileInfoLen ELSE mod.image[n].place + mod.image[n].size
  BY <1>1, EmptySeq DEF ImageEnd
<1> HIDE DEF n
<1>6. ASSUME NEW k \in 1..n
      PROVE  mod'.image[k] = mod.image[k] /\ (k # 1 => mod'.image[k - 1] = mod.image[k - 1])
  BY <1>1, <1>2
<1>7. n > 0 => mod'.image[n] = mod.image[n]
  BY <1>1, <1>2
<1>8. ASSUME NEW k \in DOMAIN mod'.image
      PROVE  /\ mod'.image[k].place =
                  IF k = 1 THEN FileInfoLen
                  ELSE mod'.image[k - 1].place + mod'.image[k - 1].size
             /\ mod'.image[k].at = mod'.image[k].place
             /\ mod'.image[k].size > 0
             /\ InFile(mod'.image[k].at, mod'.image[k].size)
  <2>1. CASE k \in 1..n
    BY <1>1, <1>6, <2>1 DEF Whole
  <2>2. CASE k = n + 1
    BY <1>1, <1>2, <1>5, <1>7, <2>2
  <2>3. QED
    BY <1>1, <1>3, <2>1, <2>2
<1>9. QED
  BY <1>4, <1>8 DEF Whole

(* The first request for data, and the ones that carry data: what the module
   stores, and what it asks for next. *)
LEMMA DataAnswer ==
  ASSUME TypeInv, Whole, NEW r \in Request, Carries(r), Due(r),
         NEW ok \in BOOLEAN, NEW ask \in Ask, Answer(r, ok, ask), Replied(r, ok, ask)
  PROVE  /\ Whole'
         /\ mod'.image # mod.image =>
              /\ mod'.image = Append(mod.image, [place |-> r.at, at |-> r.at, size |-> r.size])
              /\ r.at = ImageEnd /\ r.size > 0 /\ InFile(r.at, r.size)
         /\ ok /\ (ask.at = 0 \/ ask.size = 0) => ImageEnd' = FileSize
         /\ /\ ok /\ ask.at # 0 /\ ask.size # 0
            /\ ask.size + FieldLen <= mod.sendMax /\ InFile(ask.at, ask.size)
            => ask.at = ImageEnd'
<1>1. /\ mod'.image = IF ok THEN ImageAfter(r) ELSE mod.image
      /\ mod'.sendMax = mod.sendMax
  BY AnswerFields DEF TypeInv, Carries
<1>2. /\ mod.want.at \in Nat /\ mod.want.size \in Nat /\ mod.sendMax \in Nat
      /\ mod.sendMax > FieldLen /\ r.at \in Nat /\ r.size \in Nat
      /\ ask.at \in Nat /\ ask.size \in Nat
      /\ FileSize \in Nat /\ FileSize > 12 /\ FieldLen = 16 /\ FileInfoLen = 12
  BY FileSizeAssumption DEF TypeInv, TypeOK, Due, Request, Ask, FieldLen, FileInfoLen
<1>3. CASE ~ok
  BY <1>1, <1>3 DEF ImageEnd, Whole
<1>4. ASSUME ok, NEW next \in Nat, next = NextPlace(r), ImageEnd' = next,
             next <= FileSize
      PROVE  /\ ask.at = 0 \/ ask.size = 0 => ImageEnd' = FileSize
             /\ /\ ask.at # 0 /\ ask.size # 0
                /\ ask.size + FieldLen <= mod.sendMax /\ InFile(ask.at, ask.size)
                => ask.at = ImageEnd'
  <2>0. r.cmd = "SEND_FIRMWARE"
    BY DEF Carries
  <2>1. CASE ask = NextAsk(r) /\ next < FileSize
    <3>1. ask = [at |-> next, size |-> PieceSize(next)]
      BY <1>4, <2>0, <2>1 DEF NextAsk
    <3>2. ask.at = next /\ ask.size = PieceSize(next)
      BY <3>1
    <3>3. PieceSize(next) > 0
      BY <1>2, <1>4, <2>1 DEF PieceSize
    <3>4. next # 0
      <4>1. NextPlace(r) = FileInfoLen \/ NextPlace(r) = mod.want.at + r.size
        BY DEF NextPlace
      <4>2. CASE NextPlace(r) = FileInfoLen
        BY <1>2, <1>4, <4>2
      <4>3. CASE Stores(r) /\ NextPlace(r) = mod.want.at + r.size
        BY <1>2, <1>4, <4>3 DEF Stores, Due
      <4>4. QED
        BY <4>2, <4>3 DEF NextPlace
    <3>5. QED
      BY <1>2, <1>4, <3>2, <3>3, <3>4
  <2>2. CASE ask = NextAsk(r) /\ next = FileSize
    <3>1. ~(NextPlace(r) < FileSize)
      BY <1>2, <1>4, <2>2
    <3>2. ask = [at |-> 0, size |-> 0]
      BY <2>0, <2>2, <3>1 DEF NextAsk
    <3>3. QED
      BY <1>4, <2>2, <3>2
  <2>3. CASE ask \in WildAsks
    BY <1>2, <2>3 DEF WildAsks, InFile
  <2>4. QED
    BY <1>2, <1>4, <2>1, <2>2, <2>3 DEF Replied
<1>5. CASE ok /\ Stores(r)
  <2> DEFINE p == [place |-> mod.want.at, at |-> r.at, size |-> r.size]
  <2>1. mod'.image = Append(mod.image, p)
    BY <1>1, <1>5 DEF ImageAfter, Carries
  <2>2. /\ r.at = mod.want.at /\ r.size = mod.want.size /\ r.at = ImageEnd /\ r.size > 0
        /\ InFile(r.at, r.size)
    BY <1>2, <1>5 DEF Due, Stores
  <2>3. p \in Piece
    BY <1>2 DEF Piece
  <2>4. Whole' /\ ImageEnd' = mod.want.at + r.size
    BY <2>1, <2>2, <2>3, AppendPiece DEF TypeInv
  <2>5. NextPlace(r) = mod.want.at + r.size
    BY <1>5 DEF NextPlace
  <2>6. mod.want.at + r.size <= FileSize /\ mod.want.at + r.size \in Nat
    BY <1>2, <2>2 DEF InFile
  <2>7. QED
    BY <1>4, <1>5, <2>1, <2>2, <2>4, <2>5, <2>6
<1>6. CASE ok /\ ~Stores(r)
  <2>1. mod'.image = mod.image
    BY <1>1, <1>6 DEF ImageAfter, Carries
  <2>2. mod.image = << >>
    BY <1>2, <1>6 DEF Due, Stores, Carries
  <2>3. Whole' /\ ImageEnd' = FileInfoLen
    BY <2>1, <2>2 DEF Whole, ImageEnd
  <2>4. NextPlace(r) = FileInfoLen
    BY <1>6 DEF NextPlace
  <2>5. QED
    BY <1>2, <1>4, <1>6, <2>1, <2>3, <2>4
<1>7. QED
  BY <1>3, <1>5, <1>6

LEMMA SameImage ==
  ASSUME ImageInv, \A q \in Sent' : q \in Sent,
         UNCHANGED <<mod, limit, handle, gen, status, phase, returned>>
  PROVE  ImageInv'
<1>1. Lengths'
  BY DEF ImageInv, Lengths, At
<1>2. AnswerMeans' /\ Whole'
  BY DEF ImageInv, AnswerMeans, Whole, InFile, ImageEnd
<1>3. InTurn'
  BY DEF ImageInv, InTurn, Unseen, Due, ImageEnd, InFile
<1>4. StartsOver' /\ Complete'
  BY DEF ImageInv, StartsOver, Complete, Unseen, At, ImageEnd
<1>5. QED
  BY <1>1, <1>2, <1>3, <1>4 DEF ImageInv

LEMMA AnswerImage ==
  ASSUME TypeInv, FreshInv, WireInv, ImageInv, TypeInv', ModuleAnswers
  PROVE  ImageInv'
<1> DEFINE r == Head(toModule)
<1>1. /\ toModule # << >> /\ ~SeenBefore(r) /\ UNCHANGED <<control, requests>>
  BY ModuleAnswersShape
<1>2. PICK ok \in BOOLEAN, ask \in Ask : Answer(r, ok, ask) /\ Replied(r, ok, ask)
  BY ModuleAnswersShape
<1>3. /\ TypeOK /\ limit' = limit /\ handle' = handle /\ gen' = gen
      /\ status' = status /\ phase' = phase /\ returned' = returned
  BY <1>1 DEF TypeInv, control, requests
<1>4. /\ r \in Sent /\ r \in Request /\ Cached(handle) /\ Unseen(r)
      /\ r.gen = gen => r = handle.str
      /\ r.gen < gen => r.cmd = "REQUEST_REBOOT"
      /\ r.gen \in Nat /\ gen \in Nat /\ r.gen <= gen
  BY <1>1, <1>3, HeadFacts, SentFacts, TrafficTypes
<1>5. r.cmd # "REQUEST_REBOOT" => r = handle.str /\ r.cmd = handle.sendCmd /\ r.gen = gen
  BY <1>4 DEF WireInv, OneEach
<1>6. /\ mod'.last = ReplyTo(r, ok, ask)
      /\ mod'.want = IF r.cmd \in {"REQUEST_UPGRADE", "SEND_FIRMWARE"} THEN ask ELSE mod.want
      /\ mod'.image = IF ok THEN ImageAfter(r) ELSE mod.image
      /\ mod'.sendMax = IF ok /\ r.cmd = "SET_SEND_MAX_FRAME_LEN" THEN r.size ELSE mod.sendMax
      /\ mod'.maxLen = mod.maxLen
  BY <1>2, <1>3, <1>4, AnswerFields
<1>7. /\ mod'.last.cmd = r.cmd /\ mod'.last.gen = r.gen /\ mod'.last.ok = ok
      /\ mod'.last.at = ask.at /\ mod'.last.size = ask.size
  BY <1>6 DEF ReplyTo
<1>8. \A q \in Sent' : q \in Sent /\ (Unseen(q)' => q.gen > r.gen)
  BY <1>1, <1>2, AnswerWire
<1>9. ASSUME NEW q \in Sent', Unseen(q)'
      PROVE  q \in Sent /\ Unseen(q) /\ r.cmd = "REQUEST_REBOOT"
  <2>1. q \in Sent /\ q.gen > r.gen /\ q.gen <= gen /\ q.gen \in Nat
    BY <1>3, <1>8, <1>9, SentFacts
  <2>2. mod.last.gen \in Nat
    BY GenType DEF TypeInv, TypeOK
  <2>3. QED
    BY <1>4, <2>1, <2>2 DEF Unseen
<1>10. \A st \in AwaitStatuses : At({st}) /\ r.cmd # "REQUEST_REBOOT" => r.cmd = CommandOf(st)
  BY <1>5 DEF WireInv, Asked, At
<1> HIDE DEF r
<1>11. At(Sized) => r.cmd # "SET_SEND_MAX_FRAME_LEN"
  BY <1>10 DEF At, Sized, AwaitStatuses, CommandOf
<1>12. At(Granted) => r.cmd \notin {"REQUEST_UPGRADE", "SEND_FIRMWARE"}
  BY <1>10 DEF At, Granted, AwaitStatuses, CommandOf
<1>13. ~Carries(r) /\ r.cmd # "REQUEST_UPGRADE" =>
         mod'.image = mod.image /\ mod'.want = mod.want
  BY <1>6 DEF ImageAfter, Carries, Stores
<1>14. Carries(r) =>
         /\ mod'.want.at = ask.at /\ mod'.want.size = ask.size
         /\ mod'.sendMax = mod.sendMax /\ Due(r)
  BY <1>4, <1>6 DEF Carries, ImageInv, InTurn
<1>15. r.cmd = "REQUEST_UPGRADE" => mod'.image \in {<< >>, mod.image}
  BY <1>6 DEF ImageAfter
<1>16. Lengths'
  <2>1. At(Sized) => mod'.sendMax = mod.sendMax
    BY <1>6, <1>11
  <2>2. /\ (limit <= mod.maxLen)'
        /\ (At({"SEND_MAX_FRAME_LEN"}) => handle.str.size = limit /\ limit > FieldLen)'
        /\ (At(Sized) => mod.sendMax = limit /\ limit > FieldLen)'
    BY <1>3, <1>6, <2>1 DEF ImageInv, Lengths, At
  <2>3. /\ (At(Sizing) => \A q \in Sent : ~Carries(q))'
        /\ (\A q \in Sent : Carries(q) => q.size + FieldLen <= limit)'
    BY <1>3, <1>8 DEF ImageInv, Lengths, At
  <2>4. QED
    BY <2>2, <2>3 DEF Lengths
<1>17. AnswerMeans'
  <2>1. SUFFICES ASSUME ok PROVE AnswerMeans'
    BY <1>7 DEF AnswerMeans
  <2>2. CASE r.cmd = "GET_DEVICE_MAX_FRAME_LEN"
    <3>1. ask = NextAsk(r)
      BY <1>2, <2>1, <2>2 DEF Replied, Carries
    <3>2. ask.size = mod.maxLen
      BY <2>2, <3>1 DEF NextAsk
    <3>3. QED
      BY <1>6, <1>7, <2>2, <3>2 DEF AnswerMeans
  <2>3. CASE r.cmd = "SET_SEND_MAX_FRAME_LEN"
    BY <1>3, <1>4, <1>6, <1>7, <2>1, <2>3 DEF AnswerMeans
  <2>4. CASE r.cmd = "REQUEST_UPGRADE"
    <3>1. ask = NextAsk(r)
      BY <1>2, <2>1, <2>4 DEF Replied, Carries
    <3>2. ask = [at |-> 0, size |-> 0]
      BY <2>4, <3>1 DEF NextAsk
    <3>3. mod'.image = << >> /\ mod'.want = ask
      BY <1>6, <2>1, <2>4 DEF ImageAfter
    <3>4. QED
      BY <1>7, <2>4, <3>2, <3>3 DEF AnswerMeans
  <2>5. CASE Carries(r)
    <3>1. /\ ask.at = 0 \/ ask.size = 0 => ImageEnd' = FileSize
          /\ /\ ask.at # 0 /\ ask.size # 0
             /\ ask.size + FieldLen <= mod.sendMax /\ InFile(ask.at, ask.size)
             => ask.at = ImageEnd'
      BY <1>2, <1>4, <1>14, <2>1, <2>5, DataAnswer DEF ImageInv
    <3>2. (InFile(mod.last.at, mod.last.size))' <=> InFile(ask.at, ask.size)
      BY <1>7 DEF InFile
    <3>3. QED
      BY <1>7, <1>14, <2>5, <3>1, <3>2 DEF AnswerMeans, Carries
  <2>6. QED
    BY <1>7, <2>2, <2>3, <2>4, <2>5 DEF AnswerMeans, Carries
<1>18. InTurn'
  <2>1. SUFFICES ASSUME NEW q \in Sent', Unseen(q)', Carries(q) PROVE Due(q)'
    BY DEF InTurn, Carries
  <2>2. q \in Sent /\ Unseen(q) /\ r.cmd = "REQUEST_REBOOT"
    BY <1>9, <2>1
  <2>3. Due(q)
    BY <2>1, <2>2 DEF ImageInv, InTurn
  <2>4. QED
    BY <1>6, <1>13, <2>2, <2>3 DEF Due, ImageEnd, InFile, Carries
<1>19. StartsOver'
  <2>1. At(Granted) => mod'.image = mod.image /\ mod'.want = mod.want
    BY <1>12, <1>13 DEF Carries
  <2>2. QED
    BY <1>3, <2>1 DEF ImageInv, StartsOver, At
<1>20. Complete'
  <2>1. At(Delivered) \/ returned = "OK" => mod'.image = mod.image
    BY <1>4, <1>13 DEF ImageInv, Complete
  <2>2. At(Delivered) \/ returned = "OK" => ImageEnd' = FileSize
    BY <2>1 DEF ImageInv, Complete, ImageEnd
  <2>3. QED
    BY <1>3, <1>9, <2>2 DEF ImageInv, Complete, At, Carries
<1>21. Whole'
  <2>1. CASE Carries(r)
    BY <1>2, <1>4, <1>14, <2>1, DataAnswer DEF ImageInv
  <2>2. CASE ~Carries(r)
    BY <1>13, <1>15, <2>2 DEF ImageInv, Whole
  <2>3. QED
    BY <2>1, <2>2
<1>22. QED
  BY <1>16, <1>17, <1>18, <1>19, <1>20, <1>21 DEF ImageInv

LEMMA ModuleDelivery ==
  ASSUME TypeInv, FreshInv, DeliveryInv, TypeInv', Module
  PROVE  DeliveryInv'
<1>1. CASE ModuleAnswers
  <2>1. WireInv'
    <3>1. PICK ok \in BOOLEAN, ask \in Ask : Answer(Head(toModule), ok, ask)
      BY <1>1, ModuleAnswersShape
    <3>2. QED
      BY <1>1, <3>1, ModuleAnswersShape, AnswerWire DEF DeliveryInv
  <2>2. QED
    BY <1>1, <2>1, AnswerImage DEF DeliveryInv
<1>2. CASE ModuleAnswersAgain
  <2>1. WireInv' /\ \A q \in Sent' : q \in Sent
    BY <1>2, AgainWire DEF DeliveryInv
  <2>2. /\ mod' = mod /\ limit' = limit /\ handle' = handle /\ gen' = gen
        /\ status' = status /\ phase' = phase /\ returned' = returned
    BY <1>2 DEF ModuleAnswersAgain, control, requests
  <2>3. QED
    BY <2>1, <2>2, SameImage DEF DeliveryInv
<1>3. QED
  BY <1>1, <1>2 DEF Module

-----------------------------------------------------------------------------
(* The steps of the host. *)

(* Nothing new is sent: the host waits on, gives up, ends or returns. *)
LEMMA QuietDelivery ==
  ASSUME TypeOK, FreshInv, DeliveryInv,
         UNCHANGED <<handle, gen, mod, line, limit>>,
         \A r \in Sent' : r \in Sent,
         \A f \in Heard' : f \in Heard,
         mod.last.reply => gen <= mod.last.gen + Lag',
         phase' # "done" =>
           /\ status' \in {"FAIL", "SUCCESS"} \/ (status' = status /\ phase # "done")
           /\ returned' = "NONE",
         At({"SUCCESS"})' \/ returned' = "OK" =>
           /\ ImageEnd = FileSize
           /\ \A r \in Sent : Unseen(r) => ~Carries(r) /\ r.cmd # "REQUEST_UPGRADE"
  PROVE  DeliveryInv'
<1>1. Asked'
  BY DEF DeliveryInv, WireInv, Asked, At, AwaitStatuses
<1>2. WireInv'
  BY <1>1, QuietWire DEF DeliveryInv
<1>3. Lengths'
  BY DEF DeliveryInv, ImageInv, Lengths, At, Sizing, Sized
<1>4. AnswerMeans' /\ Whole'
  BY DEF DeliveryInv, ImageInv, AnswerMeans, Whole, InFile, ImageEnd
<1>5. InTurn'
  BY DEF DeliveryInv, ImageInv, InTurn, Unseen, Due, ImageEnd, InFile
<1>6. StartsOver'
  BY DEF DeliveryInv, ImageInv, StartsOver, At, Granted
<1>7. Complete'
  BY DEF DeliveryInv, ImageInv, Complete, Unseen, At, Delivered, ImageEnd
<1>8. QED
  BY <1>2, <1>3, <1>4, <1>5, <1>6, <1>7 DEF DeliveryInv, ImageInv

(* The next request is sent, by an iteration that leaves the status st. *)
Follows(st, cmd, at, size, len) ==
  /\ st \in AwaitStatuses \cup {"REQUEST_REBOOT"} => cmd = CommandOf(st)
  /\ len <= mod.maxLen
  /\ st = "SEND_MAX_FRAME_LEN" => size = len /\ len > FieldLen
  /\ st \in Sized => mod.sendMax = len /\ len > FieldLen
  /\ st \in Sizing => cmd # "SEND_FIRMWARE" /\ \A r \in Sent : ~Carries(r)
  /\ \A r \in Sent : Carries(r) => r.size + FieldLen <= len
  /\ cmd = "SEND_FIRMWARE" =>
       /\ size + FieldLen <= len /\ mod.sendMax > FieldLen
       /\ \/ mod.image = << >> /\ mod.want.size = 0
          \/ /\ at = mod.want.at /\ size = mod.want.size
             /\ at = ImageEnd /\ size > 0 /\ InFile(at, size)
  /\ st \in Granted => mod.image = << >> /\ mod.want.size = 0
  /\ st \in Delivered =>
       ImageEnd = FileSize /\ cmd \notin {"SEND_FIRMWARE", "REQUEST_UPGRADE"}

LEMMA SendDelivery ==
  ASSUME TypeOK, FreshInv, DeliveryInv,
         NEW st \in Statuses \ {"IDLE"}, NEW cmd \in Commands,
         NEW at \in Nat, NEW size \in Nat,
         NEW resent \in BOOLEAN, resent => Cached(handle), Send(cmd, at, size, resent),
         Follows(st, cmd, at, size, limit'),
         mod' = mod, line' = line, status' = st, phase' = "run", returned' = "NONE",
         \A f \in Heard' : f \in Heard,
         mod.last.reply => gen + 1 <= mod.last.gen + Lag',
         \A r \in Sent : Unseen(r) =>
           r.cmd = "REQUEST_REBOOT" /\ cmd = "SET_RADIO_UPDATE_TRANSFER_MODE"
  PROVE  DeliveryInv'
<1>1. /\ Cached(handle)' /\ handle'.sendCmd = cmd
      /\ handle'.str.cmd = cmd /\ handle'.str.size = size /\ handle'.str.at = at
      /\ \A r \in Sent' : r \in Sent \/ r = handle'.str
  <2>1. /\ Cached(handle)' /\ handle'.sendCmd = cmd
        /\ handle'.str = [cmd |-> cmd, num |-> handle'.sendNum, gen |-> gen + 1,
                          at |-> at, size |-> size]
        /\ \A r \in Sent' : r \in Sent \/ r = handle'.str
    BY SentSend
  <2>2. QED
    BY <2>1
<1>2. Asked'
  BY <1>1 DEF Asked, At, Follows
<1>3. WireInv'
  BY <1>2, SendWire DEF DeliveryInv
<1>4. gen' = gen + 1 /\ gen \in Nat
  BY TrafficTypes DEF Send
<1>5. \A r \in Sent' : Unseen(r)' => r = handle'.str \/ r.cmd = "REQUEST_REBOOT"
  BY <1>1 DEF Unseen
<1>6. Lengths'
  <2>1. (limit <= mod.maxLen)'
    BY DEF Follows
  <2>2. (At({"SEND_MAX_FRAME_LEN"}) => handle.str.size = limit /\ limit > FieldLen)'
    BY <1>1 DEF Follows, At
  <2>3. (At(Sized) => mod.sendMax = limit /\ limit > FieldLen)'
    BY DEF Follows, At
  <2>4. (At(Sizing) => \A r \in Sent : ~Carries(r))'
    BY <1>1 DEF Follows, At, Carries
  <2>5. (\A r \in Sent : Carries(r) => r.size + FieldLen <= limit)'
    BY <1>1 DEF Follows, Carries
  <2>6. QED
    BY <2>1, <2>2, <2>3, <2>4, <2>5 DEF Lengths
<1>7. AnswerMeans'
  <2>1. mod.last.reply => mod.last.gen # gen + 1
    <3>1. line \in Heard /\ mod.last.gen \in Nat
      BY GenType DEF Heard, TypeOK
    <3>2. line.gen \in Nat /\ line.gen <= gen
      BY <3>1, HeardFacts
    <3>3. mod.last.reply => mod.last.gen <= line.gen
      BY DEF DeliveryInv, WireInv, LastAnswer
    <3>4. QED
      BY <1>4, <3>1, <3>2, <3>3
  <2>2. QED
    BY <1>4, <2>1 DEF DeliveryInv, ImageInv, AnswerMeans, InFile, ImageEnd
<1>8. InTurn'
  <2>1. SUFFICES ASSUME NEW r \in Sent', Unseen(r)', Carries(r) PROVE Due(r)'
    BY DEF InTurn, Carries
  <2>2. r = handle'.str
    BY <1>5, <2>1 DEF Carries
  <2>3. QED
    BY <1>1, <2>1, <2>2 DEF Follows, Due, Carries, ImageEnd, InFile
<1>9. StartsOver'
  BY DEF Follows, StartsOver, At
<1>10. Complete'
  <2>1. At(Delivered)' => ImageEnd' = FileSize /\ cmd \notin {"SEND_FIRMWARE", "REQUEST_UPGRADE"}
    BY DEF Follows, At, ImageEnd
  <2>2. QED
    BY <1>1, <1>5, <2>1 DEF Complete, Carries
<1>11. Whole'
  BY DEF DeliveryInv, ImageInv, Whole, InFile
<1>12. QED
  BY <1>3, <1>6, <1>7, <1>8, <1>9, <1>10, <1>11 DEF DeliveryInv, ImageInv

(* An answer is taken and the next request sent. *)
LEMMA AdvanceDelivery ==
  ASSUME TypeOK, FreshInv, DeliveryInv, NEW i \in DOMAIN toHost, ReadMatch(i),
         phase = "run",
         NEW st \in Statuses \ {"IDLE"}, NEW cmd \in Commands,
         NEW at \in Nat, NEW size \in Nat, Advance(st, cmd, at, size),
         Follows(st, cmd, at, size, limit'), UNCHANGED <<mod, line>>
  PROVE  DeliveryInv'
<1>1. Send(cmd, at, size, FALSE) /\ status' = st /\ phase' = "run" /\ returned' = returned
  BY DEF Advance, GoTo
<1>2. returned' = "NONE"
  BY <1>1 DEF DeliveryInv, ImageInv, Complete
<1>3. /\ mod.last.gen = gen /\ mod.last.reply
      /\ \A r \in Sent : ~Unseen(r)
      /\ \A f \in Heard' : f \in Heard
  BY MatchIsAnswer, HeardMatch DEF DeliveryInv
<1>4. gen + 1 <= mod.last.gen + Lag'
  <2>1. Lag' \in Nat /\ 1 <= Lag'
    BY <1>1 DEF Lag
  <2>2. QED
    BY <1>3, <2>1, TrafficTypes
<1>5. QED
  BY <1>1, <1>2, <1>3, <1>4, SendDelivery

(* An answer is taken and nothing sent. *)
LEMMA TakenDelivery ==
  ASSUME TypeOK, FreshInv, DeliveryInv, NEW i \in DOMAIN toHost, ReadMatch(i),
         phase = "run", phase' \in {"run", "sleep"},
         UNCHANGED <<handle, gen, toModule, mod, line, limit, returned>>,
         status' \in {status, "FAIL", "SUCCESS"},
         status' = "SUCCESS" => ImageEnd = FileSize
  PROVE  DeliveryInv'
<1>1. /\ mod.last.gen = gen /\ mod.last.reply
      /\ \A r \in Sent : ~Unseen(r)
      /\ \A f \in Heard' : f \in Heard
  BY MatchIsAnswer, HeardMatch DEF DeliveryInv
<1>2. returned' = "NONE"
  BY DEF DeliveryInv, ImageInv, Complete
<1>3. \A r \in Sent' : r \in Sent
  BY DEF Sent
<1>4. gen <= mod.last.gen + Lag'
  <2>1. Lag' \in Nat
    BY DEF Lag
  <2>2. QED
    BY <1>1, <2>1, TrafficTypes
<1>5. QED
  BY <1>1, <1>2, <1>3, <1>4, QuietDelivery DEF At

(* What an accepted answer says: it repeats the module's last one, which is to
   the pending request. *)
LEMMA AcceptedAnswer ==
  ASSUME TypeOK, FreshInv, DeliveryInv,
         NEW st \in AwaitStatuses \cup {"REQUEST_REBOOT"},
         NEW i \in DOMAIN toHost, ReplyAccepted(st, i)
  PROVE  /\ phase = "run" /\ status = st /\ ReadMatch(i)
         /\ toHost[i] \in Reply /\ Accepts(st, toHost[i])
         /\ mod.last.reply /\ mod.last.ok /\ mod.last.gen = gen
         /\ mod.last.cmd = CommandOf(st)
         /\ toHost[i].at = mod.last.at /\ toHost[i].size = mod.last.size
         /\ limit <= mod.maxLen
         /\ \A r \in Sent : ~Unseen(r)
         /\ \A r \in Sent : Carries(r) => r.size + FieldLen <= limit
         /\ st \in Sized => mod.sendMax = limit /\ limit > FieldLen
<1>1. phase = "run" /\ status = st /\ ReadMatch(i) /\ Accepts(st, toHost[i])
  BY DEF ReplyAccepted, Running
<1>2. /\ mod.last.reply /\ mod.last.gen = gen
      /\ toHost[i] \in Reply /\ toHost[i].ok = mod.last.ok
      /\ toHost[i].at = mod.last.at /\ toHost[i].size = mod.last.size
      /\ Cached(handle) => mod.last.cmd = handle.sendCmd
      /\ \A r \in Sent : ~Unseen(r)
  BY <1>1, MatchIsAnswer DEF DeliveryInv
<1>3. Cached(handle) /\ handle.sendCmd = CommandOf(status)
  BY <1>1 DEF DeliveryInv, WireInv, Asked, At
<1>4. toHost[i].ok
  BY <1>1 DEF Accepts, GetFrameMaxLenReply, SendSubPackageFirmwareReply, StatusReply
<1>5. /\ limit <= mod.maxLen
      /\ \A r \in Sent : Carries(r) => r.size + FieldLen <= limit
      /\ st \in Sized => mod.sendMax = limit /\ limit > FieldLen
  BY <1>1 DEF DeliveryInv, ImageInv, Lengths, At
<1>6. QED
  BY <1>1, <1>2, <1>3, <1>4, <1>5

(* The reboot case sends the next request without waiting for an answer: what
   the module has not seen then is the reboot request itself. *)
LEMMA RebootDelivery ==
  ASSUME TypeInv, FreshInv, DeliveryInv,
         phase # "done", status = "REQUEST_REBOOT", phase' = "run",
         NEW m \in 0..Len(toHost), toHost' = Unread(toHost, m),
         NEW resent \in BOOLEAN, resent => Cached(handle), LeaveReboot(resent),
         UNCHANGED <<limit, returned, line, mod>>
  PROVE  DeliveryInv'
<1>1. TypeOK /\ gen \in Nat
  BY TrafficTypes DEF TypeInv
<1>2. \A f \in Heard' : f \in Heard
  BY <1>1, HeardRead
<1>3. returned' = "NONE" /\ ImageEnd = FileSize
  BY DEF DeliveryInv, ImageInv, Complete, At, Delivered
<1>4. \A r \in Sent : Unseen(r) => ~Carries(r) /\ r.cmd # "REQUEST_UPGRADE"
  BY DEF DeliveryInv, ImageInv, Complete, At, Delivered
<1>5. mod.last.reply => gen <= mod.last.gen + 1
  <2>1. Lag \in {0, 1} /\ mod.last.gen \in Nat
    BY <1>1, GenType DEF Lag, TypeOK
  <2>2. mod.last.reply => gen <= mod.last.gen + Lag
    BY DEF DeliveryInv, WireInv, LastAnswer
  <2>3. QED
    BY <1>1, <2>1, <2>2
<1>6. Lag' = 2
  BY DEF Lag, LeaveReboot
<1>7. Cached(handle) /\ handle.sendCmd = "REQUEST_REBOOT" /\ handle.str.cmd = "REQUEST_REBOOT"
  BY DEF DeliveryInv, WireInv, Asked, At, CommandOf, OneEach
<1>8. \A r \in Sent : Unseen(r) => r.cmd = "REQUEST_REBOOT"
  <2>1. SUFFICES ASSUME NEW r \in Sent, Unseen(r) PROVE r.cmd = "REQUEST_REBOOT"
    OBVIOUS
  <2>2. r.gen \in Nat /\ r.gen <= gen
    BY <1>1, SentFacts
  <2>3. CASE r.gen < gen
    BY <2>1, <2>3 DEF DeliveryInv, WireInv, PassedOver
  <2>4. CASE r.gen = gen
    <3>1. handle.str \in Sent /\ handle.str.gen = gen
      BY <1>7 DEF Sent, FreshInv
    <3>2. r = handle.str
      BY <2>4, <3>1 DEF DeliveryInv, WireInv, OneEach
    <3>3. QED
      BY <1>7, <3>2
  <2>5. QED
    BY <1>1, <2>2, <2>3, <2>4
<1>9. CASE args.RemoteDeviceUpdate
  <2>1. /\ Send("SET_RADIO_UPDATE_TRANSFER_MODE", 0, 0, resent)
        /\ status' = "CLOSE_RADIO"
    BY <1>9 DEF LeaveReboot
  <2>2. /\ limit <= mod.maxLen
        /\ \A r \in Sent : Carries(r) => r.size + FieldLen <= limit
    BY DEF DeliveryInv, ImageInv, Lengths
  <2>3. Follows("CLOSE_RADIO", "SET_RADIO_UPDATE_TRANSFER_MODE", 0, 0, limit')
    BY <1>3, <2>2 DEF Follows, CommandOf, Sized, Sizing, Granted
  <2>4. mod.last.reply => gen + 1 <= mod.last.gen + Lag'
    BY <1>1, <1>5, <1>6, GenType DEF TypeOK
  <2>5. "CLOSE_RADIO" \in Statuses \ {"IDLE"} /\ "SET_RADIO_UPDATE_TRANSFER_MODE" \in Commands
    BY DEF Statuses, AwaitStatuses, Commands
  <2>6. QED
    BY <1>1, <1>2, <1>3, <1>8, <2>1, <2>3, <2>4, <2>5, SendDelivery
<1>10. CASE ~args.RemoteDeviceUpdate
  <2>1. toModule' = Written(resent) /\ status' = "SUCCESS" /\ UNCHANGED <<handle, gen>>
    BY <1>10 DEF LeaveReboot
  <2>2. \A r \in Sent' : r \in Sent
    BY <1>1, <2>1, SentWritten
  <2>3. mod.last.reply => gen <= mod.last.gen + Lag'
    BY <1>1, <1>5, <1>6, GenType DEF TypeOK
  <2>4. QED
    BY <1>1, <1>2, <1>3, <1>4, <2>1, <2>2, <2>3, QuietDelivery
<1>11. QED
  BY <1>9, <1>10

(* The exchange up to the first request for data, one case of the switch each. *)
LEMMA OpeningDelivery ==
  ASSUME TypeInv, FreshInv, DeliveryInv,
         RadioOpened \/ MaxFrameLenReceived \/ SendMaxFrameLenConfirmed
           \/ DeviceInfoReceived \/ UpgradeAllowed \/ FastUpdateModeSet \/ DeviceUpdating
  PROVE  DeliveryInv'
<1>0. TypeOK /\ UNCHANGED <<mod, line>> /\ FieldLen = 16
  BY DEF TypeInv, RadioOpened, MaxFrameLenReceived, SendMaxFrameLenConfirmed,
     DeviceInfoReceived, UpgradeAllowed, FastUpdateModeSet, DeviceUpdating, environment, FieldLen
<1>1. CASE RadioOpened
  <2>1. PICK i \in DOMAIN toHost : ReplyAccepted("OPEN_RADIO", i)
    BY <1>1 DEF RadioOpened
  <2>2. /\ Advance("GET_DEVICE_MAX_FRAME_LEN", "GET_DEVICE_MAX_FRAME_LEN", 0, 0)
        /\ limit' = limit
    BY <1>1 DEF RadioOpened
  <2>3. phase = "run" /\ status = "OPEN_RADIO" /\ ReadMatch(i) /\ limit <= mod.maxLen
        /\ \A r \in Sent : Carries(r) => r.size + FieldLen <= limit
    BY <1>0, <2>1, AcceptedAnswer DEF AwaitStatuses
  <2>4. \A r \in Sent : ~Carries(r)
    BY <2>3 DEF DeliveryInv, ImageInv, Lengths, At, Sizing
  <2>5. Follows("GET_DEVICE_MAX_FRAME_LEN", "GET_DEVICE_MAX_FRAME_LEN", 0, 0, limit')
    BY <2>2, <2>3, <2>4 DEF Follows, CommandOf, Sized, Sizing, Granted, Delivered
  <2>6. QED
    BY <1>0, <2>2, <2>3, <2>5, AdvanceDelivery DEF Commands, Statuses, AwaitStatuses
<1>2. CASE MaxFrameLenReceived
  <2>1. PICK i \in DOMAIN toHost :
          /\ ReplyAccepted("GET_DEVICE_MAX_FRAME_LEN", i)
          /\ limit' = TransportLen(toHost[i].size)
    BY <1>2 DEF MaxFrameLenReceived
  <2>2. Advance("SEND_MAX_FRAME_LEN", "SET_SEND_MAX_FRAME_LEN", 0, limit')
    BY <1>2 DEF MaxFrameLenReceived
  <2>3. /\ phase = "run" /\ status = "GET_DEVICE_MAX_FRAME_LEN" /\ ReadMatch(i)
        /\ toHost[i] \in Reply /\ Accepts("GET_DEVICE_MAX_FRAME_LEN", toHost[i])
        /\ mod.last.reply /\ mod.last.ok /\ mod.last.cmd = CommandOf(status)
        /\ toHost[i].size = mod.last.size
    BY <1>0, <2>1, AcceptedAnswer DEF AwaitStatuses
  <2>4. toHost[i].size = mod.maxLen /\ mod.maxLen \in Nat
    BY <1>0, <2>3 DEF DeliveryInv, ImageInv, AnswerMeans, CommandOf, TypeOK
  <2>5. limit' \in Nat /\ FieldLen < limit' /\ limit' <= mod.maxLen
    BY <2>1, <2>3, <2>4, TransportLenBound
  <2>6. \A r \in Sent : ~Carries(r)
    BY <2>3 DEF DeliveryInv, ImageInv, Lengths, At, Sizing
  <2>7. Follows("SEND_MAX_FRAME_LEN", "SET_SEND_MAX_FRAME_LEN", 0, limit', limit')
    BY <1>0, <2>5, <2>6 DEF Follows, CommandOf, Sized, Sizing, Granted, Delivered
  <2>8. QED
    BY <1>0, <2>2, <2>3, <2>5, <2>7, AdvanceDelivery DEF Commands, Statuses, AwaitStatuses
<1>3. CASE SendMaxFrameLenConfirmed
  <2>1. PICK i \in DOMAIN toHost : ReplyAccepted("SEND_MAX_FRAME_LEN", i)
    BY <1>3 DEF SendMaxFrameLenConfirmed
  <2>2. Advance("GET_DEVICE_INFO", "GET_DEVICE_INFO", 0, 0) /\ limit' = limit
    BY <1>3 DEF SendMaxFrameLenConfirmed
  <2>3. /\ phase = "run" /\ status = "SEND_MAX_FRAME_LEN" /\ ReadMatch(i)
        /\ mod.last.reply /\ mod.last.ok /\ mod.last.gen = gen
        /\ mod.last.cmd = CommandOf(status) /\ limit <= mod.maxLen
        /\ \A r \in Sent : Carries(r) => r.size + FieldLen <= limit
    BY <1>0, <2>1, AcceptedAnswer DEF AwaitStatuses
  <2>4. mod.sendMax = handle.str.size
    BY <2>3 DEF DeliveryInv, ImageInv, AnswerMeans, CommandOf
  <2>5. handle.str.size = limit /\ limit > FieldLen
    BY <2>3 DEF DeliveryInv, ImageInv, Lengths, At
  <2>6. Follows("GET_DEVICE_INFO", "GET_DEVICE_INFO", 0, 0, limit')
    BY <2>2, <2>3, <2>4, <2>5 DEF Follows, CommandOf, Sized, Sizing, Granted, Delivered
  <2>7. QED
    BY <1>0, <2>2, <2>3, <2>6, AdvanceDelivery DEF Commands, Statuses, AwaitStatuses
<1>4. CASE DeviceInfoReceived
  <2>1. PICK i \in DOMAIN toHost : ReplyAccepted("GET_DEVICE_INFO", i)
    BY <1>4 DEF DeviceInfoReceived
  <2>2. Advance("REQUEST_UPGRADE", "REQUEST_UPGRADE", 0, FileInfoLen) /\ limit' = limit
    BY <1>4 DEF DeviceInfoReceived
  <2>3. /\ phase = "run" /\ ReadMatch(i) /\ limit <= mod.maxLen
        /\ \A r \in Sent : Carries(r) => r.size + FieldLen <= limit
        /\ mod.sendMax = limit /\ limit > FieldLen
    BY <1>0, <2>1, AcceptedAnswer DEF AwaitStatuses, Sized
  <2>4. Follows("REQUEST_UPGRADE", "REQUEST_UPGRADE", 0, FileInfoLen, limit')
    BY <2>2, <2>3 DEF Follows, CommandOf, Sized, Sizing, Granted, Delivered
  <2>5. QED
    BY <1>0, <2>2, <2>3, <2>4, AdvanceDelivery DEF Commands, Statuses, AwaitStatuses, FileInfoLen
<1>5. ASSUME NEW i \in DOMAIN toHost,
             NEW st \in {"REQUEST_UPGRADE", "SET_FAST_UPDATE_MODE"}, ReplyAccepted(st, i),
             NEW cmd \in Granted, Advance(cmd, cmd, 0, 0), limit' = limit
      PROVE  DeliveryInv'
  <2>1. /\ phase = "run" /\ status = st /\ ReadMatch(i) /\ limit <= mod.maxLen
        /\ mod.last.reply /\ mod.last.ok /\ mod.last.cmd = CommandOf(status)
        /\ \A r \in Sent : Carries(r) => r.size + FieldLen <= limit
        /\ mod.sendMax = limit /\ limit > FieldLen
    BY <1>0, <1>5, AcceptedAnswer DEF AwaitStatuses, Sized
  <2>2. mod.image = << >> /\ mod.want.size = 0
    BY <2>1, <1>5 DEF DeliveryInv, ImageInv, AnswerMeans, CommandOf, StartsOver, At, Granted
  <2>3. Follows(cmd, cmd, 0, 0, limit')
    BY <1>5, <2>1, <2>2 DEF Follows, CommandOf, Sized, Sizing, Granted, Delivered
  <2>4. QED
    BY <1>0, <1>5, <2>1, <2>3, AdvanceDelivery DEF Granted, Commands, Statuses, AwaitStatuses
<1>6. CASE UpgradeAllowed
  <2>1. PICK i \in DOMAIN toHost : ReplyAccepted("REQUEST_UPGRADE", i)
    BY <1>6 DEF UpgradeAllowed
  <2>2. limit' = limit /\ \E cmd \in Granted : Advance(cmd, cmd, 0, 0)
    BY <1>6 DEF UpgradeAllowed, Granted
  <2>3. QED
    BY <1>5, <2>1, <2>2
<1>7. CASE FastUpdateModeSet
  <2>1. PICK i \in DOMAIN toHost : ReplyAccepted("SET_FAST_UPDATE_MODE", i)
    BY <1>7 DEF FastUpdateModeSet
  <2>2. limit' = limit /\ Advance("GET_DEVICE_STATUS", "GET_DEVICE_STATUS", 0, 0)
    BY <1>7 DEF FastUpdateModeSet
  <2>3. QED
    BY <1>5, <2>1, <2>2 DEF Granted
<1>8. CASE DeviceUpdating
  <2>1. PICK i \in DOMAIN toHost : ReplyAccepted("GET_DEVICE_STATUS", i)
    BY <1>8 DEF DeviceUpdating
  <2>2. Advance("SEND_FIRMWARE", "SEND_FIRMWARE", 0, 0) /\ limit' = limit
    BY <1>8 DEF DeviceUpdating
  <2>3. /\ phase = "run" /\ status = "GET_DEVICE_STATUS" /\ ReadMatch(i) /\ limit <= mod.maxLen
        /\ \A r \in Sent : Carries(r) => r.size + FieldLen <= limit
        /\ mod.sendMax = limit /\ limit > FieldLen
    BY <1>0, <2>1, AcceptedAnswer DEF AwaitStatuses, Sized
  <2>4. mod.image = << >> /\ mod.want.size = 0
    BY <2>3 DEF DeliveryInv, ImageInv, StartsOver, At, Granted
  <2>5. limit \in Nat /\ 0 + FieldLen <= limit
    BY <1>0, <2>3 DEF TypeOK
  <2>6. Follows("SEND_FIRMWARE", "SEND_FIRMWARE", 0, 0, limit')
    BY <2>2, <2>3, <2>4, <2>5 DEF Follows, CommandOf, Sized, Sizing, Granted, Delivered
  <2>7. QED
    BY <1>0, <2>2, <2>3, <2>6, AdvanceDelivery DEF Commands, Statuses, AwaitStatuses
<1>9. QED
  BY <1>1, <1>2, <1>3, <1>4, <1>6, <1>7, <1>8

(* The transfer of the file, and its end. *)
LEMMA DataDelivery ==
  ASSUME TypeInv, FreshInv, DeliveryInv, SendPiece \/ FirmwareSent
  PROVE  DeliveryInv'
<1>0. /\ TypeOK /\ UNCHANGED <<mod, line>> /\ FieldLen = 16
      /\ limit \in Nat /\ mod.sendMax \in Nat
  BY DEF TypeInv, TypeOK, SendPiece, FirmwareSent, environment, FieldLen
<1>1. ASSUME NEW i \in DOMAIN toHost, ReplyAccepted("SEND_FIRMWARE", i)
      PROVE  /\ phase = "run" /\ status = "SEND_FIRMWARE" /\ ReadMatch(i)
             /\ limit <= mod.maxLen
             /\ \A r \in Sent : Carries(r) => r.size + FieldLen <= limit
             /\ mod.sendMax = limit /\ limit > FieldLen
             /\ toHost[i] \in Reply
             /\ toHost[i].at \in Nat /\ toHost[i].size \in Nat
             /\ toHost[i].size <= limit - FieldLen
             /\ mod.want.at = toHost[i].at /\ mod.want.size = toHost[i].size
             /\ toHost[i].at = 0 \/ toHost[i].size = 0 => ImageEnd = FileSize
             /\ /\ toHost[i].at # 0 /\ toHost[i].size # 0
                /\ InFile(toHost[i].at, toHost[i].size)
                => toHost[i].at = ImageEnd
  <2>1. /\ phase = "run" /\ status = "SEND_FIRMWARE" /\ ReadMatch(i)
        /\ toHost[i] \in Reply /\ Accepts("SEND_FIRMWARE", toHost[i])
        /\ mod.last.reply /\ mod.last.ok /\ mod.last.cmd = CommandOf(status)
        /\ toHost[i].at = mod.last.at /\ toHost[i].size = mod.last.size
        /\ limit <= mod.maxLen
        /\ \A r \in Sent : Carries(r) => r.size + FieldLen <= limit
        /\ mod.sendMax = limit /\ limit > FieldLen
    BY <1>0, <1>1, AcceptedAnswer DEF AwaitStatuses, Sized
  <2>2. toHost[i].at \in Nat /\ toHost[i].size \in Nat /\ toHost[i].size <= limit - FieldLen
    BY <2>1 DEF Reply, Accepts, SendSubPackageFirmwareReply
  <2>3. toHost[i].size + FieldLen <= mod.sendMax
    BY <1>0, <2>1, <2>2
  <2>4. /\ mod.want.at = mod.last.at /\ mod.want.size = mod.last.size
        /\ mod.last.at = 0 \/ mod.last.size = 0 => ImageEnd = FileSize
        /\ /\ mod.last.at # 0 /\ mod.last.size # 0
           /\ mod.last.size + FieldLen <= mod.sendMax
           /\ InFile(mod.last.at, mod.last.size)
           => mod.last.at = ImageEnd
    BY <2>1 DEF DeliveryInv, ImageInv, AnswerMeans, CommandOf
  <2>5. QED
    BY <2>1, <2>2, <2>3, <2>4
<1>2. CASE SendPiece
  <2>1. PICK i \in DOMAIN toHost :
          /\ ReplyAccepted("SEND_FIRMWARE", i)
          /\ AsksForData(toHost[i]) /\ InFile(toHost[i].at, toHost[i].size)
          /\ \/ FailWith("ENCODE_FAILED")
             \/ /\ Advance(CheckedStatus, "SEND_FIRMWARE", toHost[i].at, toHost[i].size)
                /\ limit' = limit
    BY <1>2 DEF SendPiece
  <2>2. /\ phase = "run" /\ status = "SEND_FIRMWARE" /\ ReadMatch(i)
        /\ toHost[i].at \in Nat /\ toHost[i].size \in Nat
    BY <1>1, <2>1
  <2>3. CASE FailWith("ENCODE_FAILED")
    BY <1>0, <2>2, <2>3, TakenDelivery DEF FailWith
  <2>4. CASE /\ Advance(CheckedStatus, "SEND_FIRMWARE", toHost[i].at, toHost[i].size)
             /\ limit' = limit
    <3>1. /\ mod.want.at = toHost[i].at /\ mod.want.size = toHost[i].size
          /\ toHost[i].at = ImageEnd /\ toHost[i].size > 0
      BY <1>1, <2>1, <2>2 DEF AsksForData
    <3>2. CheckedStatus \in {"SEND_FIRMWARE", "FAIL"}
      BY <2>2 DEF CheckedStatus
    <3>3. toHost[i].size + FieldLen <= limit
      BY <1>0, <1>1, <2>1
    <3>4. Follows(CheckedStatus, "SEND_FIRMWARE", toHost[i].at, toHost[i].size, limit')
      BY <1>0, <1>1, <2>1, <2>4, <3>1, <3>2, <3>3
         DEF Follows, CommandOf, AwaitStatuses, Sized, Sizing, Granted, Delivered
    <3>5. CheckedStatus \in Statuses \ {"IDLE"} /\ "SEND_FIRMWARE" \in Commands
      BY <3>2 DEF Statuses, AwaitStatuses, Commands
    <3>6. QED
      BY <1>0, <2>2, <2>4, <3>4, <3>5, AdvanceDelivery
  <2>5. QED
    BY <2>1, <2>3, <2>4
<1>3. CASE FirmwareSent
  <2>1. PICK i \in DOMAIN toHost :
          ReplyAccepted("SEND_FIRMWARE", i) /\ ~AsksForData(toHost[i])
    BY <1>3 DEF FirmwareSent
  <2>2. /\ phase = "run" /\ ReadMatch(i) /\ ImageEnd = FileSize
        /\ limit <= mod.maxLen /\ limit' = limit
        /\ \A r \in Sent : Carries(r) => r.size + FieldLen <= limit
    BY <1>1, <1>3, <2>1 DEF AsksForData, FirmwareSent
  <2>3. CASE args.AutoReset
    <3>1. Advance("REQUEST_REBOOT", "REQUEST_REBOOT", 0, 0)
      BY <1>3, <2>3 DEF FirmwareSent
    <3>2. Follows("REQUEST_REBOOT", "REQUEST_REBOOT", 0, 0, limit')
      BY <2>2 DEF Follows, CommandOf, Sized, Sizing, Granted, Delivered
    <3>3. QED
      BY <1>0, <2>2, <3>1, <3>2, AdvanceDelivery DEF Commands, Statuses
  <2>4. CASE ~args.AutoReset
    <3>1. GoTo("SUCCESS", 0) /\ UNCHANGED <<handle, gen, toModule>>
      BY <1>3, <2>4 DEF FirmwareSent
    <3>2. QED
      BY <1>0, <2>2, <3>1, TakenDelivery DEF GoTo
  <2>5. QED
    BY <2>3, <2>4
<1>4. QED
  BY <1>2, <1>3

LEMMA HostDelivery ==
  ASSUME TypeInv, FreshInv, DeliveryInv, Host
  PROVE  DeliveryInv'
<1>0. TypeOK
  BY DEF TypeInv
<1>1. CASE Idle
  <2>1. /\ phase = "run" /\ status = "IDLE" /\ phase' = "run" /\ returned' = returned
        /\ limit' = limit /\ mod' = mod /\ line' = line /\ toHost' = toHost
    BY <1>1 DEF Idle, Running, GoTo, environment
  <2>2. ~Cached(handle) /\ ~mod.last.reply
    BY <2>1 DEF DeliveryInv, WireInv, Asked, At
  <2>3. Sent = {}
    BY <2>2 DEF DeliveryInv, WireInv, OneEach
  <2>4. returned' = "NONE" /\ limit <= mod.maxLen
    BY <2>1 DEF DeliveryInv, ImageInv, Complete, Lengths
  <2>5. \A f \in Heard' : f \in Heard
    BY <2>1 DEF Heard
  <2>6. PICK st \in {"OPEN_RADIO", "GET_DEVICE_MAX_FRAME_LEN"} :
          /\ status' = st
          /\ Send(CommandOf(st), 0, 0, FALSE)
    BY <1>1 DEF Idle, GoTo, CommandOf
  <2>7. Follows(st, CommandOf(st), 0, 0, limit')
    BY <2>1, <2>3, <2>4, <2>6 DEF Follows, CommandOf, Sized, Sizing, Granted, Delivered
  <2>8. CommandOf(st) \in Commands /\ st \in Statuses \ {"IDLE"}
    BY <2>6 DEF CommandOf, Commands, Statuses, AwaitStatuses
  <2>9. QED
    BY <1>0, <2>1, <2>2, <2>3, <2>4, <2>5, <2>6, <2>7, <2>8, SendDelivery
<1>2. CASE ReplyRejected \/ FileReadFailed
  <2>1. PICK i \in DOMAIN toHost : ReadMatch(i) /\ phase = "run"
    BY <1>2 DEF ReplyRejected, FileReadFailed, ReplyAccepted, Running
  <2>2. /\ \E code \in Results : FailWith(code)
        /\ UNCHANGED <<mod, line>>
    BY <1>2 DEF ReplyRejected, FileReadFailed, environment, Results
  <2>3. QED
    BY <1>0, <2>1, <2>2, TakenDelivery DEF FailWith
<1>3. CASE RadioOpened \/ MaxFrameLenReceived \/ SendMaxFrameLenConfirmed
             \/ DeviceInfoReceived \/ UpgradeAllowed \/ FastUpdateModeSet \/ DeviceUpdating
  BY <1>3, OpeningDelivery
<1>4. CASE SendPiece \/ FirmwareSent
  BY <1>4, DataDelivery
<1>5. CASE RebootConfirmed
  <2>1. PICK i \in DOMAIN toHost : ReplyAccepted("REQUEST_REBOOT", i)
    BY <1>5 DEF RebootConfirmed
  <2>2. phase = "run" /\ status = "REQUEST_REBOOT" /\ ReadMatch(i)
    BY <2>1 DEF ReplyAccepted, Running
  <2>3. /\ phase' = "sleep" /\ status' \in {status, "FAIL"}
        /\ UNCHANGED <<handle, gen, toModule, mod, line, limit, returned>>
    BY <1>5 DEF RebootConfirmed, CheckedStatus, requests, environment
  <2>4. QED
    BY <1>0, <2>2, <2>3, TakenDelivery
<1>6. CASE RebootFlushed
  <2>1. /\ phase = "sleep" /\ phase' = "run" /\ LeaveReboot(FALSE)
        /\ UNCHANGED <<limit, returned, line, mod>>
        /\ \E m \in 0..Len(toHost) : toHost' = Unread(toHost, m)
    BY <1>6 DEF RebootFlushed, environment
  <2>2. status = "REQUEST_REBOOT"
    BY <2>1 DEF TypeInv, TimeInv
  <2>3. QED
    BY <2>1, <2>2, RebootDelivery
<1>7. CASE RebootUnanswered
  <2>1. PICK m \in 0..Len(toHost), resent \in BOOLEAN :
          ReadOther(m, resent) /\ LeaveReboot(resent)
    BY <1>7 DEF RebootUnanswered
  <2>2. toHost' = Unread(toHost, m) /\ (resent => Cached(handle))
    BY <2>1, ResendCached
  <2>3. /\ phase = "run" /\ status = "REQUEST_REBOOT" /\ phase' = "run"
        /\ UNCHANGED <<limit, returned, line, mod>>
    BY <1>7 DEF RebootUnanswered, Running, environment
  <2>4. QED
    BY <2>1, <2>2, <2>3, RebootDelivery
<1>8. CASE RadioClosed
  <2>1. PICK i \in DOMAIN toHost : ReplyAccepted("CLOSE_RADIO", i)
    BY <1>8 DEF RadioClosed
  <2>2. phase = "run" /\ status = "CLOSE_RADIO" /\ ReadMatch(i)
    BY <2>1 DEF ReplyAccepted, Running
  <2>3. ImageEnd = FileSize
    BY <2>2 DEF DeliveryInv, ImageInv, Complete, At, Delivered
  <2>4. /\ phase' = "run" /\ status' = "SUCCESS"
        /\ UNCHANGED <<handle, gen, toModule, mod, line, limit, returned>>
    BY <1>8, <2>2 DEF RadioClosed, GoTo, requests, environment
  <2>5. QED
    BY <1>0, <2>2, <2>3, <2>4, TakenDelivery
<1>9. CASE KeepWaiting
  <2>1. PICK m \in 0..Len(toHost), resent \in BOOLEAN :
          ReadOther(m, resent) /\ toModule' = Written(resent)
    BY <1>9 DEF KeepWaiting
  <2>2. /\ phase = "run" /\ status \in AwaitStatuses /\ phase' = "run"
        /\ status' \in {status, "FAIL"}
        /\ UNCHANGED <<handle, gen, mod, line, limit, returned>>
    BY <1>9 DEF KeepWaiting, GoTo, CheckedStatus, requests, environment
  <2>3. toHost' = Unread(toHost, m) /\ (resent => Cached(handle))
    BY <2>1, ResendCached
  <2>4. \A r \in Sent' : r \in Sent
    BY <1>0, <2>1, <2>2, <2>3, SentWritten
  <2>5. \A f \in Heard' : f \in Heard
    BY <1>0, <2>2, <2>3, HeardRead
  <2>6. mod.last.reply => gen <= mod.last.gen + Lag'
    <3>1. Lag \in Nat /\ Lag' \in Nat /\ Lag <= Lag'
      BY <2>2 DEF Lag, AwaitStatuses
    <3>2. mod.last.gen \in Nat /\ gen \in Nat
      BY <1>0, GenType, TrafficTypes DEF TypeOK
    <3>3. mod.last.reply => gen <= mod.last.gen + Lag
      BY DEF DeliveryInv, WireInv, LastAnswer
    <3>4. QED
      BY <3>1, <3>2, <3>3
  <2>7. returned' = "NONE" /\ status' # "SUCCESS"
    BY <2>2 DEF DeliveryInv, ImageInv, Complete, AwaitStatuses
  <2>8. QED
    BY <1>0, <2>2, <2>4, <2>5, <2>6, <2>7, QuietDelivery DEF At
<1>10. CASE ReturnFail \/ ReturnSuccess
  <2>1. /\ phase = "run" /\ phase' = "done" /\ status' = "IDLE"
        /\ UNCHANGED <<handle, gen, mod, line, limit, toModule, toHost>>
        /\ returned' = "OK" => status = "SUCCESS"
    BY <1>10 DEF ReturnFail, ReturnSuccess, Return, Running, requests, environment
  <2>2. \A r \in Sent' : r \in Sent
    BY <2>1 DEF Sent
  <2>3. \A f \in Heard' : f \in Heard
    BY <2>1 DEF Heard
  <2>4. mod.last.reply => gen <= mod.last.gen + Lag'
    <3>1. Lag \in Nat /\ Lag' = 2 /\ Lag <= 2
      BY <2>1 DEF Lag
    <3>2. mod.last.gen \in Nat /\ gen \in Nat
      BY <1>0, GenType, TrafficTypes DEF TypeOK
    <3>3. mod.last.reply => gen <= mod.last.gen + Lag
      BY DEF DeliveryInv, WireInv, LastAnswer
    <3>4. QED
      BY <3>1, <3>2, <3>3
  <2>5. returned' = "OK" =>
          /\ ImageEnd = FileSize
          /\ \A r \in Sent : Unseen(r) => ~Carries(r) /\ r.cmd # "REQUEST_UPGRADE"
    BY <2>1 DEF DeliveryInv, ImageInv, Complete, At, Delivered
  <2>6. QED
    BY <1>0, <2>1, <2>2, <2>3, <2>4, <2>5, QuietDelivery DEF At
<1>11. QED
  BY <1>1, <1>2, <1>3, <1>4, <1>5, <1>6, <1>7, <1>8, <1>9, <1>10 DEF Host

LEMMA LineDelivery ==
  ASSUME TypeInv, FreshInv, DeliveryInv, TypeInv', Line
  PROVE  DeliveryInv'
<1>1. WireInv' /\ \A q \in Sent' : q \in Sent
  BY LineWire DEF DeliveryInv
<1>2. UNCHANGED <<mod, limit, handle, gen, status, phase, returned>>
  BY DEF Line, LoseRequest, CorruptReply, DuplicateReply, ForeignFrame, ResidualReply,
     control, requests
<1>3. QED
  BY <1>1, <1>2, SameImage DEF DeliveryInv

LEMMA DeliveryInit == Init => DeliveryInv
<1> SUFFICES ASSUME Init PROVE DeliveryInv
  OBVIOUS
<1>1. /\ status = "IDLE" /\ phase = "run" /\ returned = "NONE" /\ limit = 0
      /\ toModule = << >> /\ toHost = << >> /\ line = NoReply /\ handle = FrameInit
      /\ mod.last = NoReply /\ mod.image = << >> /\ mod.maxLen \in Nat
  BY ModuleMaxLensAssumption DEF Init
<1>2. ~Cached(handle) /\ ~mod.last.reply /\ mod.last.cmd = "NONE" /\ ~line.reply
  BY <1>1 DEF FrameInit, NoFrame, Cached, NoReply
<1>3. Sent = {} /\ Heard = {line}
  BY <1>1, <1>2 DEF Sent, Heard
<1>4. WireInv
  BY <1>1, <1>2, <1>3 DEF WireInv, OneEach, LastAnswer, Echoes, Echo, PassedOver,
     Asked, At, AwaitStatuses
<1>5. ImageInv
  BY <1>1, <1>2, <1>3 DEF ImageInv, Lengths, AnswerMeans, InTurn, StartsOver, Complete,
     Whole, At, Sized, Sizing, Granted, Delivered
<1>6. QED
  BY <1>4, <1>5 DEF DeliveryInv

LEMMA SameDelivery == DeliveryInv /\ UNCHANGED vars => DeliveryInv'
<1> SUFFICES ASSUME DeliveryInv, UNCHANGED vars PROVE DeliveryInv'
  OBVIOUS
<1>1. UNCHANGED <<mod, limit, handle, gen, status, phase, returned, line, toHost, toModule>>
  BY DEF vars
<1>2. Sent' = Sent /\ Heard' = Heard /\ Lag' = Lag
  BY <1>1 DEF Sent, Heard, Lag
<1>3. WireInv'
  BY <1>1, <1>2 DEF DeliveryInv, WireInv, OneEach, LastAnswer, Echoes, Echo, PassedOver,
     Unseen, Asked, At
<1>4. ImageInv'
  BY <1>1, <1>2, SameImage DEF DeliveryInv
<1>5. QED
  BY <1>3, <1>4 DEF DeliveryInv

LEMMA DeliveryNext ==
  TypeInv /\ TypeInv' /\ FreshInv /\ DeliveryInv /\ [Next]_vars => DeliveryInv'
<1> SUFFICES ASSUME TypeInv, TypeInv', FreshInv, DeliveryInv, [Next]_vars
             PROVE  DeliveryInv'
  OBVIOUS
<1>1. CASE Host
  BY <1>1, HostDelivery
<1>2. CASE Module
  BY <1>2, ModuleDelivery
<1>3. CASE Line
  BY <1>3, LineDelivery
<1>4. CASE UNCHANGED vars
  BY <1>4, SameDelivery
<1>5. QED
  BY <1>1, <1>2, <1>3, <1>4 DEF Next

LEMMA DeliveryInvariant == Spec => []DeliveryInv
<1>1. QED
  BY DeliveryInit, DeliveryNext, TypeInvariant, FreshInvariant, PTL DEF Spec

-----------------------------------------------------------------------------
(* Whatever is lost, repeated, corrupted or resent, the bytes that the module
   puts at an address are the bytes of the file at that address
   (UpgradeM7xx.c:559-581 with the resends of 136-170). *)
THEOREM BytesAreWhereTheyBelong == Spec => []PiecesInPlace
<1>1. DeliveryInv => PiecesInPlace
  BY DEF DeliveryInv, ImageInv, Whole, PiecesInPlace
<1>2. QED
  BY <1>1, DeliveryInvariant, PTL

(* When the call returns success, the module has put the whole file: no loss,
   repetition or late answer makes the host end the transfer early
   (UpgradeM7xx.c:543-598, 683-688). *)
THEOREM SuccessIsComplete == Spec => []SuccessMeansComplete
<1>1. DeliveryInv => SuccessMeansComplete
  BY DEF DeliveryInv, ImageInv, Complete, SuccessMeansComplete
<1>2. QED
  BY <1>1, DeliveryInvariant, PTL

(* No data frame on the line is longer than the length the host announced, nor
   than the module's own (UpgradeM7xx.c:415-424, UpgradeEntry.c:539). *)
THEOREM FramesFit == Spec => []FramesFitDevice
<1>1. DeliveryInv => FramesFitDevice
  <2>1. SUFFICES ASSUME DeliveryInv, NEW i \in DOMAIN toModule,
                        toModule[i].cmd = "SEND_FIRMWARE"
                 PROVE  toModule[i].size + FieldLen <= limit /\ limit <= mod.maxLen
    BY DEF FramesFitDevice
  <2>2. toModule[i] \in Sent
    BY DEF Sent
  <2>3. QED
    BY <2>1, <2>2 DEF DeliveryInv, ImageInv, Lengths, Carries
<1>2. QED
  BY <1>1, DeliveryInvariant, PTL

-----------------------------------------------------------------------------
(***************************************************************************)
(* What a failure is called.  Once the pending request has been answered,  *)
(* the module has nothing new to answer, so its last answer stays the one  *)
(* the loop has failed for.                                                *)
(***************************************************************************)
Failed(code) == (At({"FAIL"}) /\ result = code) \/ returned = code

LastIsPending == mod.last.reply /\ mod.last.gen = gen /\ PendingAnswered

Overtaken == timeCntr = 1 /\ handle.sendCmd = "SEND_FIRMWARE"

Caused ==
  /\ Failed("PROTOCOL_FAILED") => LastIsPending /\ ~PendingTaken
  /\ Failed("FILE_READ_FAILED") =>
       /\ LastIsPending /\ PendingTaken
       /\ faults["ioError"] > 0 \/ ~InFile(mod.last.at, mod.last.size)
  /\ Failed("TIMEOUT") => timeCntr >= Overtime \/ Overtaken

(* The frame that a handler judges says what the module's last answer says. *)
LEMMA PendingVerdict ==
  ASSUME TypeOK, FreshInv, DeliveryInv, NEW i \in DOMAIN toHost, ReadMatch(i), phase = "run",
         status \in AwaitStatuses \cup {"REQUEST_REBOOT"}
  PROVE  /\ LastIsPending
         /\ toHost[i].at = mod.last.at /\ toHost[i].size = mod.last.size
         /\ Accepts(status, toHost[i]) <=> PendingTaken
<1>1. /\ mod.last.reply /\ mod.last.gen = gen
      /\ toHost[i].ok = mod.last.ok
      /\ toHost[i].at = mod.last.at /\ toHost[i].size = mod.last.size
  BY MatchIsAnswer DEF DeliveryInv
<1>2. Cached(handle) /\ handle.sendCmd = CommandOf(status)
  BY DEF DeliveryInv, WireInv, Asked, At
<1>3. /\ handle.str \in Sent /\ handle.str.gen = gen
      /\ handle.str.num = handle.sendNum /\ handle.str.cmd = handle.sendCmd
  BY <1>2 DEF Sent, FreshInv, DeliveryInv, WireInv, OneEach
<1>4. PendingAnswered
  BY <1>1, <1>3 DEF DeliveryInv, WireInv, LastAnswer, PendingAnswered
<1>5. /\ GetFrameMaxLenReply(toHost[i]) <=> GetFrameMaxLenReply(mod.last)
      /\ SendSubPackageFirmwareReply(toHost[i], limit) <=> SendSubPackageFirmwareReply(mod.last, limit)
      /\ StatusReply(toHost[i]) <=> StatusReply(mod.last)
  BY <1>1 DEF GetFrameMaxLenReply, SendSubPackageFirmwareReply, StatusReply
<1>6. \A f : Accepts(status, f) <=> Accepts(CommandOf(status), f)
  BY DEF Accepts, CommandOf, AwaitStatuses
<1>7. Accepts(status, toHost[i]) <=> Accepts(status, mod.last)
  BY <1>1, <1>5 DEF Accepts
<1>8. QED
  BY <1>1, <1>2, <1>4, <1>6, <1>7 DEF LastIsPending, PendingTaken

LEMMA NothingNew ==
  ASSUME TypeOK, FreshInv, DeliveryInv, LastIsPending
  PROVE  ~ModuleAnswers
<1> SUFFICES ASSUME ModuleAnswers PROVE FALSE
  OBVIOUS
<1>1. toModule # << >> /\ ~SeenBefore(Head(toModule))
  BY DEF ModuleAnswers
<1>2. Head(toModule) \in Sent /\ Unseen(Head(toModule))
  BY <1>1, HeadFacts DEF DeliveryInv
<1>3. Head(toModule).gen <= gen /\ gen < Head(toModule).gen
  BY <1>2, SentFacts DEF Unseen, LastIsPending
<1>4. Head(toModule).gen \in Nat /\ gen \in Nat
  BY <1>2, SentFacts, TrafficTypes
<1>5. QED
  BY <1>3, <1>4

LEMMA CausedHost ==
  ASSUME TypeInv, FreshInv, DeliveryInv, Caused, Host
  PROVE  Caused'
<1>0. TypeOK
  BY DEF TypeInv
<1>1. phase # "done" /\ returned = "NONE"
  BY DEF DeliveryInv, ImageInv, Complete, Host, Idle, ReplyRejected, RadioOpened,
     MaxFrameLenReceived, SendMaxFrameLenConfirmed, DeviceInfoReceived, UpgradeAllowed,
     FastUpdateModeSet, DeviceUpdating, SendPiece, FileReadFailed, FirmwareSent,
     RebootConfirmed, RebootFlushed, RebootUnanswered, RadioClosed, KeepWaiting, ReturnFail,
     ReturnSuccess, ReplyAccepted, Running
<1>2. ASSUME returned' = returned, status' # "FAIL" PROVE Caused'
  BY <1>1, <1>2 DEF Caused, Failed, At
<1>3. ASSUME returned' = returned, result' = "TIMEOUT", timeCntr' >= Overtime PROVE Caused'
  BY <1>1, <1>3 DEF Caused, Failed, At
<1>4. CASE \/ Idle \/ RadioOpened \/ MaxFrameLenReceived \/ SendMaxFrameLenConfirmed
           \/ DeviceInfoReceived \/ UpgradeAllowed \/ FastUpdateModeSet \/ DeviceUpdating
           \/ FirmwareSent \/ RadioClosed
  BY <1>2, <1>4 DEF Idle, RadioOpened, MaxFrameLenReceived, SendMaxFrameLenConfirmed,
     DeviceInfoReceived, UpgradeAllowed, FastUpdateModeSet, DeviceUpdating, FirmwareSent,
     RadioClosed, Advance, GoTo
<1>5. CASE RebootFlushed \/ RebootUnanswered
  BY <1>2, <1>5 DEF RebootFlushed, RebootUnanswered, LeaveReboot
<1>6. CASE ReplyRejected
  <2>1. PICK i \in DOMAIN toHost : ReadMatch(i) /\ ~Accepts(status, toHost[i])
    BY <1>6 DEF ReplyRejected
  <2>2. LastIsPending /\ ~PendingTaken
    BY <1>0, <1>6, <2>1, PendingVerdict DEF ReplyRejected
  <2>3. /\ result' = "PROTOCOL_FAILED" /\ returned' = returned
        /\ UNCHANGED <<mod, handle, gen, limit>>
    BY <1>6 DEF ReplyRejected, FailWith, environment
  <2>4. LastIsPending' /\ ~PendingTaken'
    BY <2>2, <2>3 DEF LastIsPending, PendingTaken, PendingAnswered, Accepts
  <2>5. QED
    BY <1>1, <2>3, <2>4 DEF Caused, Failed
<1>7. CASE FileReadFailed
  <2>1. PICK i \in DOMAIN toHost, st \in {"GET_DEVICE_INFO", "SEND_FIRMWARE"} :
          /\ ReplyAccepted(st, i)
          /\ ~InFile(toHost[i].at, toHost[i].size) \/ faults'["ioError"] > 0
    <3>1. faults["ioError"] \in Nat /\ faults \in [FaultKinds -> Nat] /\ "ioError" \in FaultKinds
      BY <1>0 DEF TypeOK, FaultKinds
    <3>2. QED
      BY <1>7, <3>1 DEF FileReadFailed
  <2>2. phase = "run" /\ status = st /\ ReadMatch(i) /\ Accepts(st, toHost[i])
    BY <2>1 DEF ReplyAccepted, Running
  <2>3. /\ LastIsPending /\ PendingTaken
        /\ ~InFile(mod.last.at, mod.last.size) \/ faults'["ioError"] > 0
    BY <1>0, <2>1, <2>2, PendingVerdict DEF AwaitStatuses
  <2>4. /\ result' = "FILE_READ_FAILED" /\ returned' = returned
        /\ UNCHANGED <<mod, handle, gen, limit>>
    BY <1>7 DEF FileReadFailed, FailWith
  <2>5. /\ LastIsPending' /\ PendingTaken'
        /\ ~InFile(mod'.last.at, mod'.last.size) \/ faults'["ioError"] > 0
    BY <2>3, <2>4 DEF LastIsPending, PendingTaken, PendingAnswered, Accepts
  <2>6. QED
    BY <1>1, <2>4, <2>5 DEF Caused, Failed
<1>8. CASE SendPiece
  <2>1. PICK i \in DOMAIN toHost :
          \/ FailWith("ENCODE_FAILED")
          \/ Advance(CheckedStatus, "SEND_FIRMWARE", toHost[i].at, toHost[i].size)
    BY <1>8 DEF SendPiece
  <2>2. CASE FailWith("ENCODE_FAILED")
    BY <1>1, <2>2 DEF FailWith, Caused, Failed
  <2>3. CASE Advance(CheckedStatus, "SEND_FIRMWARE", toHost[i].at, toHost[i].size)
    <3>1. /\ status' = CheckedStatus /\ result' = CheckedResult /\ timeCntr' = 1
          /\ returned' = returned /\ handle'.sendCmd = "SEND_FIRMWARE"
      BY <2>3 DEF Advance, GoTo, Send, FrameEncode
    <3>2. status = "SEND_FIRMWARE"
      BY <1>8 DEF SendPiece, ReplyAccepted, Running
    <3>3. status' = "FAIL" => result' = "TIMEOUT"
      BY <3>1, <3>2 DEF CheckedStatus, CheckedResult
    <3>4. QED
      BY <1>1, <1>2, <3>1, <3>3 DEF Caused, Failed, At, Overtaken
  <2>4. QED
    BY <2>1, <2>2, <2>3
<1>9. CASE RebootConfirmed \/ KeepWaiting
  <2>1. /\ status # "FAIL" /\ status' = CheckedStatus /\ result' = CheckedResult
        /\ returned' = returned /\ timeCntr' \in {timeCntr, timeCntr + 1}
    BY <1>9 DEF RebootConfirmed, KeepWaiting, GoTo, ReplyAccepted, Running, AwaitStatuses
  <2>2. timeCntr \in Nat
    BY <1>0, OvertimeAssumption DEF TypeOK
  <2>3. CASE TimedOut
    BY <1>3, <2>1, <2>2, <2>3, OvertimeAssumption DEF TimedOut, CheckedResult
  <2>4. CASE ~TimedOut
    BY <1>2, <2>1, <2>4 DEF CheckedStatus
  <2>5. QED
    BY <2>3, <2>4
<1>10. CASE ReturnSuccess
  BY <1>10 DEF ReturnSuccess, Return, Caused, Failed, At
<1>11. CASE ReturnFail
  <2>1. /\ At({"FAIL"}) /\ phase' = "done"
        /\ returned' = IF CheckedResult = "OK" THEN "STATE_FAILED" ELSE CheckedResult
        /\ UNCHANGED <<timeCntr, limit, handle, gen, mod, faults>>
    BY <1>1, <1>11 DEF ReturnFail, Return, Running, At, requests, environment
  <2>2. CASE TimedOut
    <3>1. returned' = "TIMEOUT" /\ timeCntr' >= Overtime
      BY <2>1, <2>2 DEF TimedOut, CheckedResult
    <3>2. QED
      BY <2>1, <3>1 DEF Caused, Failed, At
  <2>3. CASE ~TimedOut
    <3>1. \A code \in {"PROTOCOL_FAILED", "FILE_READ_FAILED", "TIMEOUT"} :
            Failed(code)' => Failed(code)
      BY <2>1, <2>3 DEF CheckedResult, Failed, At
    <3>2. /\ LastIsPending' <=> LastIsPending
          /\ PendingTaken' <=> PendingTaken
          /\ Overtaken' <=> Overtaken
      BY <2>1 DEF LastIsPending, PendingTaken, PendingAnswered, Accepts, Overtaken
    <3>3. QED
      BY <2>1, <3>1, <3>2 DEF Caused
  <2>4. QED
    BY <2>2, <2>3
<1>12. QED
  BY <1>4, <1>5, <1>6, <1>7, <1>8, <1>9, <1>10, <1>11 DEF Host

LEMMA CausedOutside ==
  ASSUME TypeOK, FreshInv, DeliveryInv, Caused, Module \/ Line \/ UNCHANGED vars
  PROVE  Caused'
<1>1. UNCHANGED <<control, requests>>
  BY DEF Module, Line, ModuleAnswers, ModuleAnswersAgain, LoseRequest, CorruptReply,
     DuplicateReply, ForeignFrame, ResidualReply, vars, control, requests
<1>2. /\ \A code : Failed(code)' <=> Failed(code)
      /\ Overtaken' <=> Overtaken
      /\ timeCntr' = timeCntr
  BY <1>1 DEF control, requests, Failed, At, Overtaken
<1>3. CASE mod' = mod /\ faults'["ioError"] = faults["ioError"]
  <2>1. /\ LastIsPending' <=> LastIsPending
        /\ PendingTaken' <=> PendingTaken
    BY <1>1, <1>3 DEF control, requests, LastIsPending, PendingTaken, PendingAnswered, Accepts
  <2>2. QED
    BY <1>2, <1>3, <2>1 DEF Caused
<1>4. CASE ModuleAnswers
  <2>1. ~LastIsPending
    BY <1>4, NothingNew
  <2>2. QED
    BY <1>2, <2>1 DEF Caused
<1>5. CASE ModuleAnswersAgain \/ Line \/ UNCHANGED vars
  <2>1. mod' = mod
    BY <1>5 DEF ModuleAnswersAgain, Line, LoseRequest, CorruptReply, DuplicateReply,
       ForeignFrame, ResidualReply, vars
  <2>2. faults'["ioError"] = faults["ioError"]
    <3>1. faults \in [FaultKinds -> Nat] /\ "ioError" \in FaultKinds
      BY DEF TypeOK, FaultKinds
    <3>2. \A k \in FaultKinds \ {"ioError"} :
            Fault(k) => faults'["ioError"] = faults["ioError"]
      BY <3>1 DEF Fault
    <3>3. QED
      BY <1>5, <3>2 DEF ModuleAnswersAgain, Line, LoseRequest, CorruptReply, DuplicateReply,
         ForeignFrame, ResidualReply, vars, FaultKinds
  <2>3. QED
    BY <1>3, <2>1, <2>2
<1>6. QED
  BY <1>4, <1>5 DEF Module

LEMMA CausedInvariant == Spec => []Caused
<1>1. Init => Caused
  BY DEF Init, Caused, Failed, At
<1>2. TypeInv /\ FreshInv /\ DeliveryInv /\ Caused /\ [Next]_vars => Caused'
  BY CausedHost, CausedOutside DEF Next, TypeInv
<1>3. QED
  BY <1>1, <1>2, TypeInvariant, FreshInvariant, DeliveryInvariant, PTL DEF Spec

(* A call that fails says what failed it, whatever the line and the module do:
   PROTOCOL_FAILED and FILE_READ_FAILED are owed to the module's answer to the
   pending request, never to a frame that is late, repeated, residual or
   foreign; TIMEOUT is returned when the time is up, or when a piece was asked
   for in the very iteration that saw it was; and nothing else is returned
   (UpgradeM7xx.c:305, 341-346, 371-374, 562-577, 673-681). *)
THEOREM FailuresAreNamed == Spec => []FailureNamed
<1>1. Named /\ Caused => FailureNamed
  BY DEF Named, Failures, Caused, Failed, FailureNamed, LastIsPending, PendingTaken, Overtaken
<1>2. QED
  BY <1>1, NamedInvariant, CausedInvariant, PTL

-----------------------------------------------------------------------------
(***************************************************************************)
(* The loop, the line and the module implement UpgradeSession: the proof.  *)
(* In a run of its own the module's image is empty until data are asked    *)
(* for, so that granting an upgrade loses nothing.                         *)
(***************************************************************************)
Opening == {"IDLE", "OPEN_RADIO", "GET_DEVICE_MAX_FRAME_LEN", "SEND_MAX_FRAME_LEN",
            "GET_DEVICE_INFO", "REQUEST_UPGRADE", "SET_FAST_UPDATE_MODE", "GET_DEVICE_STATUS"}

Asks(r) == r.cmd = "REQUEST_UPGRADE"

FirstRun ==
  /\ At(Opening) => mod.image = << >>
  /\ \A r \in Sent : Unseen(r) /\ Asks(r) => mod.image = << >>

LEMMA HostFirstRun ==
  ASSUME TypeInv, FirstRun, Host
  PROVE  FirstRun'
<1>0. TypeOK /\ mod' = mod
  BY DEF TypeInv, Host, Idle, ReplyRejected, RadioOpened, MaxFrameLenReceived,
    SendMaxFrameLenConfirmed, DeviceInfoReceived, UpgradeAllowed, FastUpdateModeSet,
    DeviceUpdating, SendPiece, FileReadFailed, FirmwareSent, RebootConfirmed,
    RebootFlushed, RebootUnanswered, RadioClosed, KeepWaiting, ReturnFail,
    ReturnSuccess, Return, environment
<1>1. ASSUME At(Opening)' => At(Opening),
             \A r \in Sent' : Asks(r) => r \in Sent \/ At(Opening)
      PROVE  FirstRun'
  BY <1>0, <1>1 DEF FirstRun, Unseen, Asks
<1>2. ASSUME UNCHANGED <<handle, toModule>>, At(Opening)' => At(Opening)
      PROVE  FirstRun'
  BY <1>1, <1>2 DEF Sent
<1>3. ASSUME NEW cmd \in Commands, NEW at \in Nat, NEW size \in Nat,
             NEW resent \in BOOLEAN, resent => Cached(handle), Send(cmd, at, size, resent),
             At(Opening)' => At(Opening), cmd = "REQUEST_UPGRADE" => At(Opening)
      PROVE  FirstRun'
  <2>1. /\ handle'.str = [cmd |-> cmd, num |-> handle'.sendNum, gen |-> gen + 1,
                          at |-> at, size |-> size]
        /\ \A r \in Sent' : r \in Sent \/ r = handle'.str
    BY <1>0, <1>3, SentSend
  <2>2. handle'.str.cmd = cmd
    BY <2>1
  <2>3. QED
    BY <1>1, <1>3, <2>1, <2>2 DEF Asks
<1>4. CASE Idle
  <2>1. PICK cmd \in {"SET_RADIO_UPDATE_TRANSFER_MODE", "GET_DEVICE_MAX_FRAME_LEN"} :
          Send(cmd, 0, 0, FALSE)
    BY <1>4 DEF Idle
  <2>2. At(Opening)
    BY <1>4 DEF Idle, Running, At, Opening
  <2>3. QED
    BY <1>3, <2>1, <2>2 DEF Commands
<1>5. ASSUME phase = "run", status \in Opening, NEW st, NEW cmd \in Commands,
             NEW at \in Nat, NEW size \in Nat, Advance(st, cmd, at, size)
      PROVE  FirstRun'
  BY <1>3, <1>5 DEF Advance, At
<1>6. CASE RadioOpened \/ SendMaxFrameLenConfirmed \/ DeviceInfoReceived \/ UpgradeAllowed
             \/ FastUpdateModeSet \/ DeviceUpdating
  <2>1. phase = "run" /\ status \in Opening
    BY <1>6 DEF RadioOpened, SendMaxFrameLenConfirmed, DeviceInfoReceived, UpgradeAllowed,
       FastUpdateModeSet, DeviceUpdating, ReplyAccepted, Running, Opening
  <2>2. \E st, cmd \in Commands, size \in Nat : Advance(st, cmd, 0, size)
    BY <1>6 DEF RadioOpened, SendMaxFrameLenConfirmed, DeviceInfoReceived, UpgradeAllowed,
       FastUpdateModeSet, DeviceUpdating, Commands, FileInfoLen
  <2>3. QED
    BY <1>5, <2>1, <2>2
<1>7. CASE MaxFrameLenReceived
  <2>1. PICK i \in DOMAIN toHost : /\ ReplyAccepted("GET_DEVICE_MAX_FRAME_LEN", i)
                                   /\ limit' = TransportLen(toHost[i].size)
    BY <1>7 DEF MaxFrameLenReceived
  <2>2. limit' \in Nat /\ phase = "run" /\ status \in Opening
    BY <2>1, AcceptedType, TransportLenBound DEF Opening
  <2>3. QED
    BY <1>5, <1>7, <2>2 DEF MaxFrameLenReceived, Commands
<1>8. CASE ReplyRejected \/ FileReadFailed
  BY <1>2, <1>8 DEF ReplyRejected, FileReadFailed, FailWith, At, Opening
<1>9. CASE SendPiece
  <2>1. PICK i \in DOMAIN toHost :
          /\ ReplyAccepted("SEND_FIRMWARE", i)
          /\ \/ FailWith("ENCODE_FAILED")
             \/ Advance(CheckedStatus, "SEND_FIRMWARE", toHost[i].at, toHost[i].size)
    BY <1>9 DEF SendPiece
  <2>2. toHost[i].at \in Nat /\ toHost[i].size \in Nat /\ CheckedStatus \notin Opening
    BY <2>1, AcceptedType DEF Reply, CheckedStatus, Opening
  <2>3. CASE FailWith("ENCODE_FAILED")
    BY <1>2, <2>3 DEF FailWith, At, Opening
  <2>4. CASE Advance(CheckedStatus, "SEND_FIRMWARE", toHost[i].at, toHost[i].size)
    BY <1>3, <2>2, <2>4 DEF Advance, GoTo, At, Commands
  <2>5. QED
    BY <2>1, <2>3, <2>4
<1>10. CASE FirmwareSent
  <2>1. CASE args.AutoReset
    BY <1>3, <1>10, <2>1 DEF FirmwareSent, Advance, GoTo, At, Opening, Commands
  <2>2. CASE ~args.AutoReset
    BY <1>2, <1>10, <2>2 DEF FirmwareSent, GoTo, At, Opening
  <2>3. QED
    BY <2>1, <2>2
<1>11. CASE RebootConfirmed \/ RadioClosed
  BY <1>2, <1>11 DEF RebootConfirmed, RadioClosed, ReplyAccepted, Running, CheckedStatus,
     GoTo, requests, At, Opening
<1>12. ASSUME NEW resent \in BOOLEAN, resent => Cached(handle), LeaveReboot(resent)
       PROVE  FirstRun'
  <2>1. ~At(Opening)'
    BY <1>12 DEF LeaveReboot, At, Opening
  <2>2. CASE args.RemoteDeviceUpdate
    BY <1>3, <1>12, <2>1, <2>2 DEF LeaveReboot, Commands
  <2>3. CASE ~args.RemoteDeviceUpdate
    <3>1. Sent' = Sent
      BY <1>0, <1>12, <2>3, SentWritten DEF LeaveReboot
    <3>2. QED
      BY <1>1, <2>1, <3>1
  <2>4. QED
    BY <2>2, <2>3
<1>13. CASE RebootFlushed
  BY <1>12, <1>13 DEF RebootFlushed
<1>14. CASE RebootUnanswered
  <2>1. PICK m \in 0..Len(toHost), resent \in BOOLEAN :
          ReadOther(m, resent) /\ LeaveReboot(resent)
    BY <1>14 DEF RebootUnanswered
  <2>2. QED
    BY <1>12, <2>1, ResendCached
<1>15. CASE KeepWaiting
  <2>1. PICK m \in 0..Len(toHost), resent \in BOOLEAN :
          ReadOther(m, resent) /\ toModule' = Written(resent)
    BY <1>15 DEF KeepWaiting
  <2>2. Sent' = Sent
    BY <1>0, <1>15, <2>1, ResendCached, SentWritten DEF KeepWaiting, requests
  <2>3. At(Opening)' => At(Opening)
    BY <1>15 DEF KeepWaiting, GoTo, CheckedStatus, At, Opening
  <2>4. QED
    BY <1>1, <2>2, <2>3
<1>16. CASE ReturnFail \/ ReturnSuccess
  BY <1>2, <1>16 DEF ReturnFail, ReturnSuccess, Return, requests, At
<1>17. QED
  BY <1>4, <1>6, <1>7, <1>8, <1>9, <1>10, <1>11, <1>13, <1>14, <1>15, <1>16 DEF Host

(* What a step of the module does to its image in a run of its own. *)
LEMMA ImageGrows ==
  ASSUME TypeInv, FreshInv, DeliveryInv, FirstRun, ModuleAnswers
  PROVE  /\ FirstRun'
         /\ \/ mod'.image = mod.image
            \/ \E p \in Piece : /\ mod'.image = Append(mod.image, p)
                                /\ p.at = ImageEnd /\ p.size > 0 /\ InFile(p.at, p.size)
                                /\ returned # "OK"
<1> DEFINE r == Head(toModule)
<1>1. /\ toModule # << >> /\ ~SeenBefore(r) /\ UNCHANGED <<control, requests>> /\ TypeOK
  BY ModuleAnswersShape DEF TypeInv
<1>2. PICK ok \in BOOLEAN, ask \in Ask : Answer(r, ok, ask) /\ Replied(r, ok, ask)
  BY ModuleAnswersShape
<1>3. /\ handle' = handle /\ gen' = gen /\ status' = status /\ phase' = phase
  BY <1>1 DEF control, requests
<1>4. /\ r \in Sent /\ r \in Request /\ Cached(handle) /\ Unseen(r)
      /\ r.gen = gen => r = handle.str
      /\ r.gen < gen => r.cmd = "REQUEST_REBOOT"
      /\ r.gen \in Nat /\ gen \in Nat /\ r.gen <= gen
  BY <1>1, HeadFacts, SentFacts, TrafficTypes DEF DeliveryInv
<1>5. r.cmd # "REQUEST_REBOOT" => r.cmd = handle.sendCmd
  BY <1>4 DEF DeliveryInv, WireInv, OneEach
<1>6. /\ mod'.image = IF ok THEN ImageAfter(r) ELSE mod.image
      /\ toModule' = Tail(toModule)
      /\ mod'.last = ReplyTo(r, ok, ask)
  BY <1>1, <1>2, <1>4, AnswerFields
<1>7. mod'.last.reply /\ mod'.last.gen = r.gen
  BY <1>6 DEF ReplyTo
<1>8. \A q \in Sent' : q \in Sent /\ q.gen \in Nat /\ q.gen <= gen
  BY <1>1, <1>3, <1>6, SentTaken, SentFacts
<1> HIDE DEF r
<1>9. Asks(r) => mod'.image = mod.image
  BY <1>4, <1>6 DEF FirstRun, ImageAfter, Asks
<1>10. ~Asks(r) /\ ~Carries(r) => mod'.image = mod.image
  BY <1>6 DEF ImageAfter, Asks, Carries, Stores
<1>11. At(Opening) => ~Carries(r)
  <2>1. At(Opening) => Cached(handle) /\ handle.sendCmd = CommandOf(status)
    BY <1>4 DEF DeliveryInv, WireInv, Asked, At, Opening, AwaitStatuses
  <2>2. At(Opening) => CommandOf(status) # "SEND_FIRMWARE"
    BY DEF At, Opening, CommandOf
  <2>3. QED
    BY <1>5, <2>1, <2>2 DEF Carries
<1>12. Carries(r) => r.gen = gen
  BY <1>4 DEF Carries
<1>13. FirstRun'
  <2>1. (At(Opening) => mod.image = << >>)'
    BY <1>3, <1>9, <1>10, <1>11 DEF FirstRun, At, Carries, Asks
  <2>2. ASSUME NEW q \in Sent', Unseen(q)', Asks(q) PROVE mod'.image = << >>
    <3>1. q \in Sent /\ q.gen > r.gen /\ q.gen <= gen /\ q.gen \in Nat
      BY <1>7, <1>8, <2>2 DEF Unseen
    <3>2. Unseen(q)
      <4>1. mod.last.gen \in Nat
        BY <1>1, GenType DEF TypeOK
      <4>2. QED
        BY <1>4, <3>1, <4>1 DEF Unseen
    <3>3. ~Carries(r)
      BY <1>4, <1>12, <3>1
    <3>4. QED
      BY <1>9, <1>10, <2>2, <3>1, <3>2, <3>3 DEF FirstRun
  <2>3. QED
    BY <2>1, <2>2 DEF FirstRun, Asks
<1>14. CASE mod'.image # mod.image
  <2>1. Carries(r)
    BY <1>9, <1>10, <1>14
  <2>2. Due(r) /\ Whole
    BY <1>4, <2>1 DEF DeliveryInv, ImageInv, InTurn
  <2> DEFINE p == [place |-> r.at, at |-> r.at, size |-> r.size]
  <2>3. /\ mod'.image = Append(mod.image, p)
        /\ r.at = ImageEnd /\ r.size > 0 /\ InFile(r.at, r.size)
    BY <1>2, <1>4, <1>14, <2>1, <2>2, DataAnswer
  <2>4. p \in Piece
    BY <1>4 DEF Piece, Request
  <2>5. returned # "OK"
    BY <1>4, <2>1 DEF DeliveryInv, ImageInv, Complete
  <2>6. QED
    BY <1>13, <2>3, <2>4, <2>5
<1>15. QED
  BY <1>13, <1>14

LEMMA FirstRunInit == Init => FirstRun
  BY DEF Init, FirstRun, Sent, FrameInit, NoFrame, Cached

LEMMA FirstRunNext ==
  TypeInv /\ TypeInv' /\ FreshInv /\ DeliveryInv /\ FirstRun /\ [Next]_vars => FirstRun'
<1> SUFFICES ASSUME TypeInv, TypeInv', FreshInv, DeliveryInv, FirstRun, [Next]_vars
             PROVE  FirstRun'
  OBVIOUS
<1>1. ASSUME \A r \in Sent' : r \in Sent, UNCHANGED <<mod, phase, status>>
      PROVE  FirstRun'
  BY <1>1 DEF FirstRun, Unseen, At
<1>2. CASE Host
  BY <1>2, HostFirstRun
<1>3. CASE ModuleAnswers
  BY <1>3, ImageGrows
<1>4. CASE ModuleAnswersAgain
  BY <1>1, <1>4, AgainWire DEF DeliveryInv, ModuleAnswersAgain, control
<1>5. CASE Line
  <2>1. UNCHANGED <<mod, phase, status>>
    BY <1>5 DEF Line, LoseRequest, CorruptReply, DuplicateReply, ForeignFrame, ResidualReply,
       control
  <2>2. QED
    BY <1>1, <1>5, <2>1, LineWire DEF DeliveryInv
<1>6. CASE UNCHANGED vars
  BY <1>1, <1>6 DEF vars, Sent
<1>7. QED
  BY <1>2, <1>3, <1>4, <1>5, <1>6 DEF Next, Module

LEMMA FirstRunInvariant == Spec => []FirstRun
<1>1. QED
  BY FirstRunInit, FirstRunNext, TypeInvariant, FreshInvariant, DeliveryInvariant, PTL DEF Spec

-----------------------------------------------------------------------------
(* The pieces as the abstract specification sees them: without the address
   the module has put them at. *)
Taken == [at : Nat, size : Nat]

Pieces(s) == [k \in DOMAIN s |-> [at |-> s[k].at, size |-> s[k].size]]

LEMMA PiecesType ==
  ASSUME NEW s \in Seq(Piece)
  PROVE  /\ Pieces(s) \in Seq(Taken) /\ Len(Pieces(s)) = Len(s)
         /\ \A k \in 1..Len(s) : Pieces(s)[k] = [at |-> s[k].at, size |-> s[k].size]
         /\ Pieces(s) = << >> <=> s = << >>
<1>1. Len(s) \in Nat /\ DOMAIN s = 1..Len(s) /\ \A k \in 1..Len(s) : s[k] \in Piece
  BY LenProperties, ElementOfSeq
<1>2. Pieces(s) \in [1..Len(s) -> Taken]
  BY <1>1 DEF Pieces, Taken, Piece
<1>3. Pieces(s) \in Seq(Taken)
  BY <1>1, <1>2, SeqDef
<1>4. /\ DOMAIN Pieces(s) = 1..Len(s) /\ DOMAIN Pieces(s) = 1..Len(Pieces(s))
      /\ Len(Pieces(s)) \in Nat
  BY <1>2, <1>3, LenProperties
<1>5. Len(Pieces(s)) = Len(s)
  BY <1>1, <1>4
<1>6. Pieces(s) = << >> <=> s = << >>
  BY <1>1, <1>3, <1>5, EmptySeq
<1>7. QED
  BY <1>1, <1>3, <1>5, <1>6 DEF Pieces

LEMMA PiecesAppend ==
  ASSUME NEW s \in Seq(Piece), NEW p \in Piece
  PROVE  Pieces(Append(s, p)) = Append(Pieces(s), [at |-> p.at, size |-> p.size])
<1> DEFINE t == Append(s, p)
           q == [at |-> p.at, size |-> p.size]
           u == Append(Pieces(s), q)
<1>1. /\ t \in Seq(Piece) /\ Len(t) = Len(s) + 1 /\ Len(s) \in Nat
      /\ \A k \in 1..Len(s) : t[k] = s[k]
      /\ t[Len(s) + 1] = p
  BY AppendType, LenProperties
<1>2. q \in Taken
  BY DEF Taken, Piece
<1>3. /\ Pieces(s) \in Seq(Taken) /\ Len(Pieces(s)) = Len(s)
      /\ \A k \in 1..Len(s) : Pieces(s)[k] = [at |-> s[k].at, size |-> s[k].size]
  BY PiecesType
<1> HIDE DEF q
<1>4. /\ u \in Seq(Taken) /\ Len(u) = Len(s) + 1
      /\ \A k \in 1..Len(s) : u[k] = [at |-> s[k].at, size |-> s[k].size]
      /\ u[Len(s) + 1] = q
  <2>1. /\ u \in Seq(Taken) /\ Len(u) = Len(Pieces(s)) + 1
        /\ \A k \in 1..Len(Pieces(s)) : u[k] = Pieces(s)[k]
        /\ u[Len(Pieces(s)) + 1] = q
    BY <1>2, <1>3, AppendType
  <2>2. QED
    BY <1>3, <2>1
<1> HIDE DEF t, u
<1>5. /\ Pieces(t) \in Seq(Taken) /\ Len(Pieces(t)) = Len(t)
      /\ \A k \in 1..Len(t) : Pieces(t)[k] = [at |-> t[k].at, size |-> t[k].size]
  BY <1>1, PiecesType
<1>6. \A k \in 1..Len(t) : Pieces(t)[k] = u[k]
  <2>1. SUFFICES ASSUME NEW k \in 1..Len(t) PROVE Pieces(t)[k] = u[k]
    OBVIOUS
  <2>2. CASE k \in 1..Len(s)
    BY <1>1, <1>4, <1>5, <2>2
  <2>3. CASE k = Len(s) + 1
    BY <1>1, <1>4, <1>5, <2>3 DEF q
  <2>4. QED
    BY <1>1, <2>2, <2>3
<1>7. Pieces(t) = u
  BY <1>1, <1>4, <1>5, <1>6, SeqEqual
<1>8. QED
  BY <1>7 DEF t, u, q

(* Where the abstract specification's file goes on is where the module's does. *)
LEMMA SameEnd ==
  ASSUME TypeOK, Whole
  PROVE  Session!Received = ImageEnd
<1>1. mod.image \in Seq(Piece) /\ Len(mod.image) \in Nat /\ DOMAIN mod.image = 1..Len(mod.image)
  BY LenProperties DEF TypeOK
<1>2. Session!Received =
        IF Pieces(mod.image) = << >> THEN FileInfoLen
        ELSE Pieces(mod.image)[Len(Pieces(mod.image))].at
               + Pieces(mod.image)[Len(Pieces(mod.image))].size
  BY DEF Session!Received, Pieces
<1>3. CASE mod.image = << >>
  BY <1>1, <1>2, <1>3, PiecesType DEF ImageEnd
<1>4. CASE mod.image # << >>
  <2>1. Len(mod.image) \in 1..Len(mod.image)
    BY <1>1, <1>4, EmptySeq
  <2>2. /\ Pieces(mod.image) # << >> /\ Len(Pieces(mod.image)) = Len(mod.image)
        /\ Pieces(mod.image)[Len(mod.image)] =
             [at |-> mod.image[Len(mod.image)].at, size |-> mod.image[Len(mod.image)].size]
    BY <1>1, <1>4, <2>1, PiecesType
  <2>3. mod.image[Len(mod.image)].at = mod.image[Len(mod.image)].place
    BY <1>1, <2>1 DEF Whole
  <2>4. QED
    BY <1>2, <1>4, <2>2, <2>3 DEF ImageEnd
<1>5. QED
  BY <1>3, <1>4

LEMMA SessionInit == Init => Session!Init
  BY DEF Init, Session!Init

(* Every step is a step of the abstract specification or none of it. *)
LEMMA SessionNext ==
  TypeInv /\ Named /\ FreshInv /\ DeliveryInv /\ FirstRun /\ [Next]_vars
    => [Session!Next]_Session!vars
<1> SUFFICES ASSUME TypeInv, Named, FreshInv, DeliveryInv, FirstRun, [Next]_vars
             PROVE  Session!Next \/ UNCHANGED Session!vars
  BY DEF Session!vars
<1>1. TypeOK /\ Whole
  BY DEF TypeInv, DeliveryInv, ImageInv
<1>2. ASSUME mod'.image = mod.image, returned' = returned
      PROVE  UNCHANGED Session!vars
  BY <1>2 DEF Session!vars
<1>3. CASE ReturnFail \/ ReturnSuccess
  <2>1. /\ phase = "run" /\ mod' = mod
        /\ \/ status = "SUCCESS" /\ returned' = "OK"
           \/ /\ status = "FAIL"
              /\ returned' = IF CheckedResult = "OK" THEN "STATE_FAILED" ELSE CheckedResult
    BY <1>3 DEF ReturnFail, ReturnSuccess, Return, Running, environment
  <2>2. returned = "NONE"
    BY <2>1 DEF DeliveryInv, ImageInv, Complete
  <2>3. UNCHANGED mod.image
    BY <2>1
  <2>4. CASE status = "SUCCESS" /\ returned' = "OK"
    <3>1. ImageEnd = FileSize
      BY <2>1, <2>4 DEF DeliveryInv, ImageInv, Complete, At, Delivered
    <3>2. Session!Received = FileSize
      BY <1>1, <3>1, SameEnd
    <3>3. Session!Succeed
      BY <2>2, <2>3, <2>4, <3>2 DEF Session!Succeed
    <3>4. QED
      BY <3>3 DEF Session!Next
  <2>5. CASE /\ status = "FAIL"
             /\ returned' = IF CheckedResult = "OK" THEN "STATE_FAILED" ELSE CheckedResult
    <3>1. CheckedResult \in Failures \cup {"INTERNAL_FAILED"}
      BY DEF Named, CheckedResult, Failures
    <3>2. returned' \notin {"NONE", "OK"}
      BY <2>5, <3>1 DEF Failures
    <3>3. Session!Fail
      BY <2>2, <2>3, <3>2 DEF Session!Fail
    <3>4. QED
      BY <3>3 DEF Session!Next
  <2>6. QED
    BY <2>1, <2>4, <2>5
<1>4. CASE Host /\ ~(ReturnFail \/ ReturnSuccess)
  <2>1. mod' = mod /\ returned' = returned
    BY <1>4 DEF Host, Idle, ReplyRejected, RadioOpened, MaxFrameLenReceived,
      SendMaxFrameLenConfirmed, DeviceInfoReceived, UpgradeAllowed, FastUpdateModeSet,
      DeviceUpdating, SendPiece, FileReadFailed, FirmwareSent, RebootConfirmed,
      RebootFlushed, RebootUnanswered, RadioClosed, KeepWaiting, Advance, FailWith, GoTo,
      environment
  <2>2. QED
    BY <1>2, <2>1
<1>5. CASE ModuleAnswers
  <2>1. returned' = returned
    BY <1>5 DEF ModuleAnswers, control
  <2>2. CASE mod'.image = mod.image
    BY <1>2, <2>1, <2>2
  <2>3. CASE \E p \in Piece : /\ mod'.image = Append(mod.image, p)
                              /\ p.at = ImageEnd /\ p.size > 0 /\ InFile(p.at, p.size)
                              /\ returned # "OK"
    <3>1. PICK p \in Piece : /\ mod'.image = Append(mod.image, p)
                             /\ p.at = ImageEnd /\ p.size > 0 /\ InFile(p.at, p.size)
                             /\ returned # "OK"
      BY <2>3
    <3> DEFINE q == [at |-> p.at, size |-> p.size]
               s == Pieces(mod.image)
               t == Pieces(mod'.image)
    <3>2. /\ mod.image \in Seq(Piece) /\ s \in Seq(Taken) /\ t = Append(s, q) /\ q \in Taken
      <4>1. mod.image \in Seq(Piece)
        BY <1>1 DEF TypeOK
      <4>2. q \in Taken
        BY DEF Taken, Piece
      <4>3. QED
        BY <3>1, <4>1, <4>2, PiecesType, PiecesAppend
    <3>3. q.at = Session!Received /\ q.size > 0 /\ q.at + q.size <= FileSize
      BY <1>1, <3>1, SameEnd DEF InFile
    <3> HIDE DEF q
    <3>4. Len(t) = Len(s) + 1 /\ t[Len(s) + 1] = q
      BY <3>2, AppendType
    <3>5. t = Append(s, t[Len(s) + 1])
      BY <3>2, <3>4
    <3>6. Session!Deliver <=>
            /\ (IF returned \in {"NONE", "OK"} THEN returned ELSE "FAILED") # "OK"
            /\ Len(t) = Len(s) + 1
            /\ t = Append(s, t[Len(s) + 1])
            /\ t[Len(s) + 1].at = Session!Received
            /\ t[Len(s) + 1].size > 0
            /\ t[Len(s) + 1].at + t[Len(s) + 1].size <= FileSize
            /\ (IF returned' \in {"NONE", "OK"} THEN returned' ELSE "FAILED")
                 = (IF returned \in {"NONE", "OK"} THEN returned ELSE "FAILED")
      BY DEF Session!Deliver, Pieces
    <3> HIDE DEF s, t
    <3>7. Session!Deliver
      BY <2>1, <3>1, <3>3, <3>4, <3>5, <3>6
    <3>8. QED
      BY <3>7 DEF Session!Next
  <2>4. QED
    BY <1>5, <2>2, <2>3, ImageGrows
<1>6. CASE ModuleAnswersAgain \/ Line \/ UNCHANGED vars
  <2>1. mod' = mod /\ returned' = returned
    BY <1>6 DEF ModuleAnswersAgain, Line, LoseRequest, CorruptReply, DuplicateReply,
       ForeignFrame, ResidualReply, control, vars
  <2>2. QED
    BY <1>2, <2>1
<1>7. QED
  BY <1>3, <1>4, <1>5, <1>6 DEF Next, Module

(* The upgrade that the loop, the line and the module carry out is one of
   UpgradeSession: the firmware arrives in order, without gaps and without a
   byte twice, and the verdict OK comes after the last byte and is followed by
   none (UpgradeM7xx.c:543-598, 673-688). *)
THEOREM ImplementsSession == Spec => DeliversInOrderOnce
<1>1. QED
  BY SessionInit, SessionNext, TypeInvariant, NamedInvariant, FreshInvariant, DeliveryInvariant,
     FirstRunInvariant, PTL DEF Spec, DeliversInOrderOnce, Session!Spec

-----------------------------------------------------------------------------
(* The program run again.  None of the invariants of one run says how many
   requests have been sent before, or that the module's image is empty, so
   they hold of the next run's first state, whose line is empty, as they hold
   of the first run's. *)

LEMMA FreshStartType ==
  ASSUME TypeInv, FreshStart
  PROVE  TypeInv'
<1>1. 0 \in FrameNumbers
  BY ModulusAssumption DEF FrameNumbers
<1>2. NoFrame \in Request /\ NoReply \in Reply
  BY <1>1 DEF NoFrame, Request, NoReply, Reply
<1>3. handle' \in Handle
  BY <1>1, <1>2 DEF FreshStart, FrameInit, Handle
<1>4. args' \in [AutoReset : BOOLEAN, FastUpdate : BOOLEAN,
                 RemoteDeviceUpdate : BOOLEAN, TransferSize : TransferSizes]
  BY DEF FreshStart, TypeInv, TypeOK
<1>5. /\ mod' \in [maxLen : Nat, sendMax : Nat, last : Reply,
                   want : [at : Nat, size : Nat], image : Seq(Piece), rebooted : BOOLEAN]
      /\ mod'.sendMax = mod.sendMax
  <2>1. mod \in [maxLen : Nat, sendMax : Nat, last : Reply,
                 want : [at : Nat, size : Nat], image : Seq(Piece), rebooted : BOOLEAN]
    BY DEF TypeInv, TypeOK
  <2>2. mod' = [mod EXCEPT !.last = NoReply]
    BY DEF FreshStart
  <2>3. QED
    BY <1>2, <2>1, <2>2
<1>6. toModule' = << >> /\ toHost' = << >>
  BY DEF FreshStart
<1>7. TypeOK'
  <2>1. toModule' \in Seq(Request) /\ toHost' \in Seq(Reply)
    BY <1>6
  <2>2. line' \in Reply /\ gen' \in Nat /\ faults' \in [FaultKinds -> Nat]
    BY <1>2 DEF FreshStart, TypeInv, TypeOK
  <2>3. /\ status' \in Statuses /\ result' \in Results /\ limit' \in Nat
        /\ timeCntr' \in 0..(Overtime + 1)
        /\ phase' \in {"run", "sleep", "done"} /\ returned' \in Results \cup {"NONE"}
    BY OvertimeAssumption DEF FreshStart, Statuses, Results
  <2>4. QED
    BY <1>3, <1>4, <1>5, <2>1, <2>2, <2>3 DEF TypeOK
<1>8. TimeInv'
  BY OvertimeAssumption DEF FreshStart, TimeInv
<1>9. LengthInv'
  <2>1. mod'.sendMax >= FieldLen
    BY <1>5 DEF TypeInv, LengthInv
  <2>2. Announces(handle.str)'
    BY DEF FreshStart, FrameInit, NoFrame, Announces
  <2>3. QED
    BY <1>6, <2>1, <2>2 DEF LengthInv
<1>10. QED
  BY <1>7, <1>8, <1>9 DEF TypeInv

LEMMA FreshStartTraffic ==
  ASSUME TypeInv, FreshStart
  PROVE  FreshInv'
<1>1. toHost' = << >> /\ toModule' = << >> /\ line' = NoReply /\ handle' = FrameInit
  BY DEF FreshStart
<1>2. ~Cached(handle')
  BY <1>1 DEF FrameInit, NoFrame, Cached
<1>3. ~line'.reply /\ line'.gen = 0
  BY <1>1 DEF NoReply
<1>4. gen' \in Nat
  BY DEF FreshStart, TypeInv, TypeOK
<1>5. Traffic(toHost', toModule', line', gen', handle'.sendNum, Lag')
  BY <1>1, <1>3, <1>4 DEF Traffic, Numbered, Ordered, Rising, Within
<1>6. QED
  BY <1>2, <1>5 DEF FreshInv

(* What the last run has left in the module is whole; nothing is sent yet. *)
LEMMA FreshStartDelivery ==
  ASSUME TypeInv, DeliveryInv, FreshStart
  PROVE  DeliveryInv'
<1>1. /\ status' = "IDLE" /\ phase' = "run" /\ returned' = "NONE" /\ limit' = 0
      /\ toModule' = << >> /\ toHost' = << >> /\ line' = NoReply /\ handle' = FrameInit
      /\ mod' = [mod EXCEPT !.last = NoReply]
  BY DEF FreshStart
<1>2. /\ mod'.last = NoReply /\ mod'.image = mod.image /\ mod'.maxLen \in Nat
  <2>1. mod \in [maxLen : Nat, sendMax : Nat, last : Reply,
                 want : [at : Nat, size : Nat], image : Seq(Piece), rebooted : BOOLEAN]
    BY DEF TypeInv, TypeOK
  <2>2. QED
    BY <1>1, <2>1
<1>3. /\ ~Cached(handle)' /\ ~mod'.last.reply /\ mod'.last.cmd = "NONE" /\ ~line'.reply
  BY <1>1, <1>2 DEF FrameInit, NoFrame, Cached, NoReply
<1>4. Sent' = {} /\ Heard' = {line'}
  BY <1>1, <1>3 DEF Sent, Heard
<1>5. WireInv'
  BY <1>1, <1>3, <1>4 DEF WireInv, OneEach, LastAnswer, Echoes, Echo, PassedOver,
     Asked, At, AwaitStatuses
<1>6. Whole'
  BY <1>2 DEF DeliveryInv, ImageInv, Whole, InFile
<1>7. ImageInv'
  BY <1>1, <1>2, <1>3, <1>4, <1>6 DEF ImageInv, Lengths, AnswerMeans, InTurn, StartsOver,
     Complete, At, Sized, Sizing, Granted, Delivered
<1>8. QED
  BY <1>5, <1>7 DEF DeliveryInv

RetryInv == TypeInv /\ FreshInv /\ DeliveryInv

LEMMA RetryNextInv == RetryInv /\ [RetryNext]_retryVars => RetryInv'
<1> SUFFICES ASSUME RetryInv, [RetryNext]_retryVars PROVE RetryInv'
  OBVIOUS
<1>1. CASE [Next]_vars
  BY <1>1, TypeNext, FreshNext, DeliveryNext DEF RetryInv
<1>2. CASE Kill \/ Rerun
  <2>1. FreshStart
    BY <1>2 DEF Kill, Rerun
  <2>2. QED
    BY <2>1, FreshStartType, FreshStartTraffic, FreshStartDelivery DEF RetryInv
<1>3. QED
  BY <1>1, <1>2 DEF RetryNext, retryVars

LEMMA RetryInvariant == RetrySpec => []RetryInv
<1>1. RetryInit => RetryInv
  BY TypeInit, FreshInit, DeliveryInit DEF RetryInit, RetryInv
<1>2. QED
  BY <1>1, RetryNextInv, PTL DEF RetrySpec

(* However often the program is killed and run again, with whatever transfer
   sizes, no answer of an earlier request, and none of an earlier run, passes
   for the answer to the pending one (UpgradeM7xx.c:127-134, 305-337,
   UpgradeProtocol.c:191-215). *)
THEOREM RunsStayFresh == RetrySpec => []FreshReply
<1>1. RetryInv => FreshReply
  BY FreshImplied DEF RetryInv, TypeInv
<1>2. QED
  BY <1>1, RetryInvariant, PTL

(* However often the program is killed or fails and is run again: when a run
   ends well, the module holds one copy of the file, with no piece of an
   earlier run in it and none missing because an earlier run had sent it
   (UpgradeM7xx.c:305-364, 449-508). *)
THEOREM RunsInstallWhole == RetrySpec => []InstalledWhole
<1>1. RetryInv => InstalledWhole
  BY DEF RetryInv, DeliveryInv, ImageInv, Complete, Whole, InstalledWhole
<1>2. QED
  BY <1>1, RetryInvariant, PTL
=============================================================================
