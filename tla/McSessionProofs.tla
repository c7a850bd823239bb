--------------------------- MODULE McSessionProofs ---------------------------
(***************************************************************************)
(* Proofs about McSession: what a session with the companion radio keeps   *)
(* as long as no answer comes after its request gave up, for any channels, *)
(* slots, messages, refusals and losses of the connection.                 *)
(*                                                                         *)
(* An answer names no command, so everything rests on cmdMu: the client    *)
(* that holds it is the only one that waits, and at most one command or    *)
(* answer is under way, its own.                                           *)
(***************************************************************************)
EXTENDS McSession, SequenceTheorems, TLAPS

Prompt == ~LateAnswers

OpsOf(c) == IF c = "reg" THEN {"get", "set"} ELSE {c}

\* Who waits holds cmdMu, and everyone asks for his own.
RequestLocked ==
    /\ \A c \in Clients : pc[c] = "wait" <=> cmdMu = c
    /\ \A c \in Clients : pc[c] # "idle" => cmd[c].op \in OpsOf(c)

\* The frame answers the command of the client that waits.
Awaited(f) == cmdMu \in Clients /\ f.by = cmdMu /\ f.kind \in Wants(cmd[cmdMu].op)
IsAnswer(f) == f.kind # "waiting"

\* One command or answer is under way at most, that of the client that waits.
OneUnderWay ==
    /\ Len(toDevice) <= 1
    /\ toDevice # <<>> =>
         /\ cmdMu \in Clients /\ Head(toDevice) = [cmd[cmdMu] EXCEPT !.by = cmdMu]
         /\ respCh = <<>> /\ \A i \in 1..Len(toHost) : ~IsAnswer(toHost[i])
    /\ \A i, j \in 1..Len(toHost) : IsAnswer(toHost[i]) /\ IsAnswer(toHost[j]) => i = j
    /\ \A i \in 1..Len(toHost) :
         IF IsAnswer(toHost[i]) THEN Awaited(toHost[i]) /\ respCh = <<>>
         ELSE toHost[i].by = NoClient
    /\ respCh # <<>> => \/ Awaited(Head(respCh))
                        \/ ~alive /\ cmdMu = NoClient
    /\ ~alive => toDevice = <<>> /\ toHost = <<>>

\* What a request returned answers its command.
ReplyFits ==
    \A c \in Clients : pc[c] = "got" =>
        reply[c].by = c /\ reply[c].kind \in Wants(cmd[c].op) \cup {"failed"}

RequestInv == RequestLocked /\ OneUnderWay /\ ReplyFits /\ NoAnswerMissed

Scanning == pc["reg"] # "idle" /\ cmd["reg"].op = "get"
Setting == pc["reg"] # "idle" /\ cmd["reg"].op = "set"

\* An answer to the registration tells what its slot holds now.
Truthful(f) ==
    /\ Scanning /\ f.kind = "info" => f.secret = slots[cmd["reg"].slot]
    /\ Scanning /\ f.kind = "err" => reg.secret # Public
    /\ Setting /\ f.kind = "ok" => slots[cmd["reg"].slot] = reg.secret

\* A slot that is being claimed is empty until it holds its channel.
SlotClaimed ==
    /\ pc["reg"] # "idle" => reg.secret \in Channels
    /\ Scanning => /\ reg.empty # NoSlot => slots[reg.empty] = Empty
                   /\ reg.secret = Public => cmd["reg"].slot = 0
    /\ Setting => /\ cmd["reg"].secret = reg.secret
                  /\ slots[cmd["reg"].slot] \in {Empty, reg.secret}

AnswersTrue ==
    /\ cmdMu = "reg" =>
         /\ \A i \in 1..Len(toHost) : IsAnswer(toHost[i]) => Truthful(toHost[i])
         /\ respCh # <<>> => Truthful(Head(respCh))
    /\ pc["reg"] = "got" => Truthful(reply["reg"])

SlotInv == SlotClaimed /\ AnswersTrue /\ ForeignSlotsKept /\ SlotsAreKnown

\* A sync, or its answer, is under way while syncLoop waits for it, and the
\* answer is not an error.
SyncUnderWay ==
    /\ alive /\ cmdMu = "sync" =>
         toDevice # <<>> \/ respCh # <<>> \/ \E f \in ToSet(toHost) : IsAnswer(f)
    /\ cmdMu = "sync" => \A f \in ToSet(toHost) \cup ToSet(respCh) : f.kind # "err"

-----------------------------------------------------------------------------
(* Types.                                                                  *)

\* The commands the clients send are commands.
LEMMA CommandsTyped ==
    /\ \A op \in Ops : Cmd(op) \in Command /\ Cmd(op).op = op
    /\ \A i \in SlotIdx :
         GetChannel(i) \in Command /\ GetChannel(i).op = "get" /\ GetChannel(i).slot = i
    /\ \A i \in SlotIdx, s \in Secrets :
         /\ SetChannel(i, s) \in Command /\ SetChannel(i, s).op = "set"
         /\ SetChannel(i, s).slot = i /\ SetChannel(i, s).secret = s
    /\ 0 \in SlotIdx /\ 1 \in SlotIdx
    /\ \A i \in SlotIdx : i < MaxChannelSlots => i + 1 \in SlotIdx
<1>1. 0 \in SlotIdx /\ 1 \in SlotIdx /\ Empty \in Secrets
  BY SessionAssumption DEF SlotIdx, Secrets
<1>2. \A op \in Ops : Cmd(op) \in Command /\ Cmd(op).op = op
  BY <1>1 DEF Cmd, Command
<1>3. Cmd("get") \in Command /\ Cmd("set") \in Command
  BY <1>2 DEF Ops
<1>4. \A i \in SlotIdx :
        GetChannel(i) \in Command /\ GetChannel(i).op = "get" /\ GetChannel(i).slot = i
  BY <1>2, <1>3 DEF GetChannel, Command, Ops
<1>5. \A i \in SlotIdx, s \in Secrets :
        /\ SetChannel(i, s) \in Command /\ SetChannel(i, s).op = "set"
        /\ SetChannel(i, s).slot = i /\ SetChannel(i, s).secret = s
  BY <1>1, <1>2, <1>3 DEF SetChannel, Command, Ops
<1>6. \A i \in SlotIdx : i < MaxChannelSlots => i + 1 \in SlotIdx
  BY SessionAssumption DEF SlotIdx
<1> QED
  BY <1>1, <1>2, <1>4, <1>5, <1>6

\* The device's answers are frames.
LEMMA AnswersTyped ==
    ASSUME NEW kind \in Kinds, NEW c \in Clients \cup {NoClient}
    PROVE  /\ kind # "msg" => Answer(kind, c) \in Frame
           /\ Answer(kind, c).kind = kind /\ Answer(kind, c).by = c
BY SessionAssumption DEF Answer, Frame, Secrets

\* The fields of a frame have their types.
LEMMA FrameFields ==
    ASSUME NEW f \in Frame
    PROVE  /\ f.kind \in Kinds /\ f.secret \in Secrets /\ f.by \in Clients \cup {NoClient}
           /\ f.kind = "msg" => f.msg \in 1..MaxMsgs
<1>1. f \in [kind : Kinds, secret : Secrets, msg : 0..MaxMsgs, by : Clients \cup {NoClient}]
  BY DEF Frame
<1>2. f.kind = "msg" => f.msg # 0
  BY DEF Frame
<1> QED
  BY <1>1, <1>2, SessionAssumption

\* The device answers a command with a code that its sender wants.
LEMMA ResultTyped ==
    ASSUME TypeOK, NEW k \in Command
    PROVE  /\ Result(k) \in Frame /\ Result(k).by = k.by
           /\ Result(k).kind \in Wants(k.op) /\ Result(k).kind \notin {"err", "waiting", "failed"}
           /\ k.op = "get" => Result(k).secret = slots[k.slot]
           /\ Result(k).kind = "msg" <=> k.op = "sync" /\ inbox # <<>>
           /\ k.op = "sync" /\ inbox # <<>> => Result(k).msg = Head(inbox)
<1>1. k.by \in Clients \cup {NoClient} /\ k.op \in Ops /\ k.slot \in SlotIdx
  BY DEF Command
<1>2. inbox # <<>> => Head(inbox) \in 1..MaxMsgs
  <2>1. inbox \in Seq(1..MaxMsgs)
    BY DEF TypeOK
  <2> QED
    BY <2>1, HeadTailProperties
<1>3. slots[k.slot] \in Secrets
  BY <1>1 DEF TypeOK
<1>4. CASE k.op = "send" \/ k.op = "set"
  BY <1>1, <1>4, AnswersTyped DEF Result, Kinds, Wants
<1>5. CASE k.op = "ping"
  BY <1>1, <1>5, AnswersTyped DEF Result, Kinds, Wants
<1>6. CASE k.op = "get"
  BY <1>1, <1>3, <1>6, AnswersTyped DEF Result, Kinds, Wants, Frame
<1>7. CASE k.op = "sync"
  <2>1. CASE inbox = <<>>
    BY <1>1, <1>7, <2>1, AnswersTyped DEF Result, Kinds, Wants
  <2>2. CASE inbox # <<>>
    <3>1. Result(k) = [Answer("msg", k.by) EXCEPT !.msg = Head(inbox)]
      BY <1>7, <2>2 DEF Result
    <3>2. Result(k) = [kind |-> "msg", secret |-> Empty, msg |-> Head(inbox), by |-> k.by]
      BY <3>1 DEF Answer
    <3>3. Head(inbox) \in 0..MaxMsgs /\ Head(inbox) # 0
      BY <1>2, <2>2, SessionAssumption
    <3>4. Result(k) \in Frame
      BY <1>1, <3>2, <3>3 DEF Frame, Kinds, Secrets
    <3> QED
      BY <1>7, <2>2, <3>2, <3>4 DEF Wants
  <2> QED
    BY <2>1, <2>2
<1> QED
  BY <1>1, <1>4, <1>5, <1>6, <1>7 DEF Ops

\* Marking what is under way for a client as late changes nothing else.
LEMMA LateTyped ==
    ASSUME NEW c \in Clients, NEW S \in {Command, Frame}, NEW seq \in Seq(S)
    PROVE  /\ Late(seq, c) \in Seq(S) /\ Len(Late(seq, c)) = Len(seq)
           /\ (\A i \in 1..Len(seq) : seq[i].by # c) => Late(seq, c) = seq
<1>1. DOMAIN seq = 1..Len(seq) /\ Len(seq) \in Nat /\ \A i \in 1..Len(seq) : seq[i] \in S
  OBVIOUS
<1>2. \A i \in 1..Len(seq) : [seq[i] EXCEPT !.by = IF @ = c THEN NoClient ELSE @] \in S
  BY <1>1 DEF Command, Frame
<1>3. Late(seq, c) \in [1..Len(seq) -> S]
  BY <1>1, <1>2 DEF Late
<1>4. Late(seq, c) \in Seq(S) /\ Len(Late(seq, c)) = Len(seq)
  BY <1>1, <1>3
<1>5. ASSUME \A i \in 1..Len(seq) : seq[i].by # c
      PROVE  Late(seq, c) = seq
  <2>1. \A i \in 1..Len(seq) : [seq[i] EXCEPT !.by = IF @ = c THEN NoClient ELSE @] = seq[i]
    BY <1>1, <1>5 DEF Command, Frame
  <2>2. Late(seq, c) = [i \in 1..Len(seq) |-> seq[i]]
    BY <1>1, <2>1 DEF Late
  <2> QED
    BY <1>1, <2>2
<1> QED
  BY <1>4, <1>5


\* The empty slot that a scan of the device's slots has found.
NextEmpty == IF reg.empty = NoSlot /\ Holds(Empty) THEN cmd["reg"].slot ELSE reg.empty

\* What the registration of a private channel does at each slot it scans.
LEMMA PrivateSteps ==
    ASSUME TypeOK, PrivateScanned
    PROVE  /\ pc["reg"] = "got" /\ cmd["reg"].op = "get" /\ reg.secret # Public
           /\ UNCHANGED regUnchanged
           /\ cmd["reg"].slot \in SlotIdx /\ reg.secret \in Secrets
           /\ NextEmpty \in SlotIdx \cup {NoSlot}
           /\ \/ NotRegistered
              \/ Holds(reg.secret) /\ Registered(cmd["reg"].slot)
              \/ /\ cmd["reg"].slot + 1 \in SlotIdx
                 /\ Ask("reg", GetChannel(cmd["reg"].slot + 1))
                 /\ reg' = [reg EXCEPT !.empty = NextEmpty]
                 /\ UNCHANGED hashBySlot
              \/ /\ NextEmpty # NoSlot
                 /\ Ask("reg", SetChannel(NextEmpty, reg.secret))
                 /\ UNCHANGED <<reg, hashBySlot>>
<1>1. /\ cmd["reg"].slot \in SlotIdx /\ reg.secret \in Secrets
      /\ reg.empty \in SlotIdx \cup {NoSlot}
  BY DEF TypeOK, Command, Clients, Secrets
<1>2. NextEmpty \in SlotIdx \cup {NoSlot}
  BY <1>1 DEF NextEmpty
<1>3. cmd["reg"].slot < MaxChannelSlots => cmd["reg"].slot + 1 \in SlotIdx
  BY <1>1, CommandsTyped
<1> QED
  BY <1>1, <1>2, <1>3 DEF PrivateScanned, Got, NextEmpty

\* What the registration of the public channel does at slot 0.
LEMMA PublicSteps ==
    ASSUME TypeOK, PublicScanned
    PROVE  /\ pc["reg"] = "got" /\ cmd["reg"].op = "get" /\ reg.secret = Public
           /\ UNCHANGED regUnchanged
           /\ 0 \in SlotIdx /\ reg.secret \in Secrets
           /\ \/ NotRegistered
              \/ Holds(Public) /\ Registered(0)
              \/ /\ reply["reg"].kind = "err" \/ Holds(Empty)
                 /\ Ask("reg", SetChannel(0, Public))
                 /\ UNCHANGED <<reg, hashBySlot>>
<1>1. reg.secret \in Secrets
  BY DEF TypeOK, Secrets
<1> QED
  BY <1>1, CommandsTyped DEF PublicScanned, Got

\* What a step of a scan does to the client: it ends, or asks for more.
LEMMA ScanStep ==
    ASSUME TypeOK, PrivateScanned \/ PublicScanned
    PROVE  /\ pc["reg"] = "got" /\ UNCHANGED <<cmdMu, reply, toDevice, toHost, respCh, alive>>
           /\ \/ pc' = [pc EXCEPT !["reg"] = "idle"] /\ UNCHANGED cmd
              \/ \E k \in Command :
                    /\ k.op \in {"get", "set"}
                    /\ pc' = [pc EXCEPT !["reg"] = "want"] /\ cmd' = [cmd EXCEPT !["reg"] = k]
<1>1. CASE PrivateScanned
  <2>1. /\ cmd["reg"].slot + 1 \in SlotIdx => LET k == GetChannel(cmd["reg"].slot + 1) IN
              k \in Command /\ k.op \in {"get", "set"}
        /\ NextEmpty # NoSlot => LET k == SetChannel(NextEmpty, reg.secret) IN
              k \in Command /\ k.op \in {"get", "set"}
    BY <1>1, PrivateSteps, CommandsTyped
  <2> QED
    BY <1>1, <2>1, PrivateSteps DEF NotRegistered, Registered, Ask, regUnchanged
<1>2. CASE PublicScanned
  <2>1. SetChannel(0, Public) \in Command /\ SetChannel(0, Public).op \in {"get", "set"}
    BY <1>2, PublicSteps, CommandsTyped
  <2> QED
    BY <1>2, <2>1, PublicSteps DEF NotRegistered, Registered, Ask, regUnchanged
<1> QED
  BY <1>1, <1>2

\* Every step keeps the types.
LEMMA TypeStep ==
    ASSUME TypeOK, [Next]_vars
    PROVE  TypeOK'
<1> USE DEF TypeOK, deviceVars, clientVars, regVars, syncVars, regUnchanged
<1>1. ASSUME NEW c \in Clients, Write(c)
      PROVE  TypeOK'
  <2>1. [cmd[c] EXCEPT !.by = c] \in Command
    <3>1. cmd[c] \in Command
      OBVIOUS
    <3> QED
      BY <3>1 DEF Command
  <2> QED
    BY <1>1, <2>1 DEF Write
<1>2. ASSUME NEW c \in Clients, TakeAnswer(c)
      PROVE  TypeOK'
  <2>1. Head(respCh) \in Frame
    BY <1>2 DEF TakeAnswer
  <2>2. respCh' = <<>> /\ Len(respCh') <= 1 /\ respCh' \in Seq(Frame)
    BY <1>2 DEF TakeAnswer
  <2> QED
    BY <1>2, <2>1, <2>2 DEF TakeAnswer, Return
<1>3. ASSUME NEW c \in Clients, Timeout(c)
      PROVE  TypeOK'
  BY <1>3, LateTyped, AnswersTyped DEF Timeout, Return, Kinds
<1>4. ASSUME NEW c \in Clients, FailClosed(c)
      PROVE  TypeOK'
  BY <1>4, AnswersTyped DEF FailClosed, Return, Kinds
<1>5. ASSUME NEW c \in Clients, Begin(c)
      PROVE  TypeOK'
  BY <1>5, CommandsTyped DEF Begin, Ask, Ops
<1>6. ASSUME NEW c \in Clients, End(c)
      PROVE  TypeOK'
  BY <1>6 DEF End
<1>7. CASE ReadFrame
  <2>1. Head(toHost) \in Frame /\ Tail(toHost) \in Seq(Frame)
    BY <1>7, HeadTailProperties DEF ReadFrame
  <2>2. <<Head(toHost)>> \in Seq(Frame) /\ Len(<<Head(toHost)>>) <= 1
    BY <2>1
  <2> QED
    BY <1>7, <2>1, <2>2 DEF ReadFrame
<1>8. CASE Wake
  BY <1>8, CommandsTyped DEF Wake, Ask, Ops, Clients
<1>9. CASE Drain
  <2>1. reply["sync"] \in Frame
    BY DEF Clients
  <2>2. reply["sync"].kind = "msg" => reply["sync"].msg \in 1..MaxMsgs
    BY <2>1, FrameFields
  <2>3. pc' \in [Clients -> {"idle", "want", "wait", "got"}]
    BY <1>9 DEF Drain
  <2>4. msgCh' \in Seq(1..MaxMsgs) /\ Len(msgCh') <= MsgCap /\ dropped' \subseteq 1..MaxMsgs
    <3>1. CASE reply["sync"].kind = "msg" /\ Len(msgCh) < MsgCap
      <4>1. Append(msgCh, reply["sync"].msg) \in Seq(1..MaxMsgs)
            /\ Len(Append(msgCh, reply["sync"].msg)) = Len(msgCh) + 1
        BY <2>2, <3>1, AppendProperties
      <4>2. msgCh' = Append(msgCh, reply["sync"].msg) /\ dropped' = dropped
        BY <1>9, <3>1 DEF Drain
      <4>3. Len(msgCh) \in Nat /\ MsgCap \in Nat
        BY SessionAssumption
      <4> QED
        BY <3>1, <4>1, <4>2, <4>3
    <3>2. CASE ~(reply["sync"].kind = "msg" /\ Len(msgCh) < MsgCap)
      BY <1>9, <2>2, <3>2 DEF Drain
    <3> QED
      BY <3>1, <3>2
  <2> QED
    BY <1>9, <2>3, <2>4 DEF Drain
<1>10. ASSUME NEW s \in Channels, Register(s)
      PROVE  TypeOK'
  BY <1>10, CommandsTyped DEF Register, Ask, Clients
<1>11. CASE PrivateScanned
  <2>1. UNCHANGED regUnchanged
    BY <1>11, PrivateSteps
  <2>2. CASE NotRegistered \/ Registered(cmd["reg"].slot)
    BY <1>11, <2>2, PrivateSteps DEF NotRegistered, Registered, Clients
  <2>3. CASE /\ cmd["reg"].slot + 1 \in SlotIdx /\ Ask("reg", GetChannel(cmd["reg"].slot + 1))
             /\ reg' = [reg EXCEPT !.empty = NextEmpty] /\ UNCHANGED hashBySlot
    <3>1. GetChannel(cmd["reg"].slot + 1) \in Command /\ NextEmpty \in SlotIdx \cup {NoSlot}
      BY <1>11, <2>3, PrivateSteps, CommandsTyped
    <3> QED
      BY <2>1, <2>3, <3>1 DEF Ask, Clients
  <2>4. CASE /\ NextEmpty # NoSlot /\ Ask("reg", SetChannel(NextEmpty, reg.secret))
             /\ UNCHANGED <<reg, hashBySlot>>
    <3>1. SetChannel(NextEmpty, reg.secret) \in Command
      BY <1>11, <2>4, PrivateSteps, CommandsTyped
    <3> QED
      BY <2>1, <2>4, <3>1 DEF Ask, Clients
  <2> QED
    BY <1>11, <2>2, <2>3, <2>4, PrivateSteps
<1>12. CASE PublicScanned
  <2>1. UNCHANGED regUnchanged
    BY <1>12, PublicSteps
  <2>2. CASE NotRegistered \/ Registered(0)
    BY <1>12, <2>2, PublicSteps DEF NotRegistered, Registered, Clients
  <2>3. CASE Ask("reg", SetChannel(0, Public)) /\ UNCHANGED <<reg, hashBySlot>>
    <3>1. SetChannel(0, Public) \in Command
      BY <1>12, PublicSteps, CommandsTyped
    <3> QED
      BY <2>1, <2>3, <3>1 DEF Ask, Clients
  <2> QED
    BY <1>12, <2>2, <2>3, PublicSteps
<1>13. CASE SlotSet
  BY <1>13 DEF SlotSet, Registered, NotRegistered, Clients
<1>14. CASE TakeMessage
  <2>1. Head(msgCh) \in 1..MaxMsgs /\ Tail(msgCh) \in Seq(1..MaxMsgs)
       /\ Len(Tail(msgCh)) <= MsgCap
    BY <1>14, HeadTailProperties, SessionAssumption DEF TakeMessage
  <2>2. received' \in Seq(1..MaxMsgs)
    BY <1>14, <2>1 DEF TakeMessage
  <2> QED
    BY <1>14, <2>1, <2>2 DEF TakeMessage
<1>15. CASE DeviceAnswers
  <2> DEFINE k == Head(toDevice)
  <2>1. k \in Command /\ Tail(toDevice) \in Seq(Command)
    BY <1>15, HeadTailProperties DEF DeviceAnswers
  <2>2. Result(k) \in Frame /\ Answer("err", k.by) \in Frame
    BY <2>1, ResultTyped, AnswersTyped DEF Command, Kinds
  <2>3. toHost' \in Seq(Frame)
    <3>1. \A f \in Frame : Append(toHost, f) \in Seq(Frame)
      BY AppendProperties
    <3>2. toHost' \in {toHost, Append(toHost, Result(k)), Append(toHost, Answer("err", k.by))}
      BY <1>15 DEF DeviceAnswers
    <3> QED
      BY <2>2, <3>1, <3>2
  <2>4. slots' \in [SlotIdx -> Secrets]
    BY <1>15, <2>1 DEF DeviceAnswers, Command
  <2>5. inbox' \in Seq(1..MaxMsgs)
    <3>1. inbox # <<>> => Tail(inbox) \in Seq(1..MaxMsgs)
      BY HeadTailProperties
    <3>2. inbox' \in {inbox, IF k.op = "sync" /\ inbox # <<>> THEN Tail(inbox) ELSE inbox}
      BY <1>15 DEF DeviceAnswers
    <3> QED
      BY <3>1, <3>2
  <2> QED
    BY <1>15, <2>1, <2>3, <2>4, <2>5 DEF DeviceAnswers
<1>16. CASE DeviceHears
  BY <1>16, AnswersTyped, SessionAssumption DEF DeviceHears, Kinds
<1>17. CASE Disconnect
  <2>1. <<>> \in Seq(Command) /\ <<>> \in Seq(Frame)
    OBVIOUS
  <2> QED
    BY <1>17, <2>1 DEF Disconnect
<1>18. CASE UNCHANGED vars
  BY <1>18 DEF vars
<1> QED
  BY <1>1, <1>2, <1>3, <1>4, <1>5, <1>6, <1>7, <1>8, <1>9, <1>10, <1>11, <1>12, <1>13,
     <1>14, <1>15, <1>16, <1>17, <1>18 DEF Next, EndWait, SyncLoop, RunMeshcore

\* Type correctness: what each variable of the session holds.
THEOREM SessionTypes == Spec => []TypeOK
<1>1. Init => TypeOK
  <2>1. \A c \in Clients : Answer("failed", c) \in Frame
    BY AnswersTyped DEF Kinds
  <2>2. Cmd("ping") \in Command
    BY CommandsTyped DEF Ops
  <2>3. <<>> \in Seq(Command) /\ <<>> \in Seq(Frame) /\ <<>> \in Seq(1..MaxMsgs) /\ Len(<<>>) = 0
    OBVIOUS
  <2>4. [c \in Clients |-> Answer("failed", c)] \in [Clients -> Frame]
    BY <2>1
  <2>5. [secret |-> Empty, empty |-> NoSlot]
          \in [secret : Channels \cup {Empty}, empty : SlotIdx \cup {NoSlot}]
    OBVIOUS
  <2>6. [c \in Clients |-> Cmd("ping")] \in [Clients -> Command]
    BY <2>2
  <2>7. SUFFICES ASSUME Init PROVE TypeOK
    OBVIOUS
  <2>8. /\ slots \in [SlotIdx -> Secrets] /\ hashBySlot \in [SlotIdx -> Channels \cup {Empty}]
        /\ pc \in [Clients -> {"idle", "want", "wait", "got"}]
        /\ toReg \subseteq Channels
    BY <2>7, SessionAssumption DEF Init
  <2>9. cmd \in [Clients -> Command] /\ reply \in [Clients -> Frame]
    BY <2>4, <2>6, <2>7 DEF Init
  <2>10. reg \in [secret : Channels \cup {Empty}, empty : SlotIdx \cup {NoSlot}]
    BY <2>5, <2>7 DEF Init
  <2>11. /\ toDevice \in Seq(Command) /\ toHost \in Seq(Frame)
         /\ respCh \in Seq(Frame) /\ Len(respCh) <= 1
    BY <2>3, <2>7 DEF Init
  <2>12. /\ inbox \in Seq(1..MaxMsgs) /\ msgCh \in Seq(1..MaxMsgs)
         /\ received \in Seq(1..MaxMsgs) /\ Len(msgCh) <= MsgCap
    BY <2>3, <2>7, SessionAssumption DEF Init
  <2>13. /\ syncTrigger \in BOOLEAN /\ alive \in BOOLEAN /\ missed \in BOOLEAN
         /\ cmdMu \in Clients \cup {NoClient} /\ dropped \subseteq 1..MaxMsgs
    BY <2>7 DEF Init
  <2>14. heard \in 0..MaxMsgs
    <3>1. heard = 0 /\ MaxMsgs \in Nat
      BY <2>7, SessionAssumption DEF Init
    <3> QED
      BY <3>1
  <2> QED
    BY <2>8, <2>9, <2>10, <2>11, <2>12, <2>13, <2>14 DEF TypeOK
<1>2. TypeOK /\ [Next]_vars => TypeOK'
  BY TypeStep
<1> QED
  BY <1>1, <1>2, PTL DEF Spec

-----------------------------------------------------------------------------
(* One request at a time.                                                  *)

\* Only the holder of the request lock awaits an answer.
LEMMA RequestLockedStep ==
    ASSUME TypeOK, RequestLocked, [Next]_vars
    PROVE  RequestLocked'
<1> USE DEF TypeOK, RequestLocked, OpsOf, Clients, deviceVars, clientVars, regVars,
       syncVars, regUnchanged
<1>1. ASSUME NEW c \in Clients, Write(c)
      PROVE  RequestLocked'
  BY <1>1, SessionAssumption DEF Write
<1>2. ASSUME NEW c \in Clients, TakeAnswer(c)
      PROVE  RequestLocked'
  BY <1>2, SessionAssumption DEF TakeAnswer, Return
<1>3. ASSUME NEW c \in Clients, Timeout(c)
      PROVE  RequestLocked'
  BY <1>3, SessionAssumption DEF Timeout, Return
<1>4. ASSUME NEW c \in Clients, FailClosed(c)
      PROVE  RequestLocked'
  BY <1>4, SessionAssumption DEF FailClosed, Return
<1>5. ASSUME NEW c \in Clients, Begin(c)
      PROVE  RequestLocked'
  BY <1>5, CommandsTyped DEF Begin, Ask, Ops
<1>6. ASSUME NEW c \in Clients, End(c)
      PROVE  RequestLocked'
  BY <1>6 DEF End
<1>7. CASE ReadFrame
  BY <1>7 DEF ReadFrame
<1>8. CASE Wake
  BY <1>8, CommandsTyped DEF Wake, Ask, Ops
<1>9. CASE Drain
  BY <1>9 DEF Drain
<1>10. ASSUME NEW s \in Channels, Register(s)
      PROVE  RequestLocked'
  BY <1>10, CommandsTyped DEF Register, Ask
<1>11. CASE PrivateScanned
  BY <1>11, ScanStep
<1>12. CASE PublicScanned
  BY <1>12, ScanStep
<1>13. CASE SlotSet
  BY <1>13 DEF SlotSet, Registered, NotRegistered, Got
<1>14. CASE TakeMessage
  BY <1>14 DEF TakeMessage
<1>15. CASE DeviceAnswers
  BY <1>15 DEF DeviceAnswers
<1>16. CASE DeviceHears
  BY <1>16 DEF DeviceHears
<1>17. CASE Disconnect
  BY <1>17 DEF Disconnect
<1>18. CASE UNCHANGED vars
  BY <1>18 DEF vars
<1> HIDE DEF TypeOK, RequestLocked
<1> QED
  BY <1>1, <1>2, <1>3, <1>4, <1>5, <1>6, <1>7, <1>8, <1>9, <1>10, <1>11, <1>12, <1>13,
     <1>14, <1>15, <1>16, <1>17, <1>18 DEF Next, EndWait, SyncLoop, RunMeshcore

\* Where nobody waits, the connection carries pushes only, and respCh is
\* empty unless the session is closed.
LEMMA NobodyWaits ==
    ASSUME TypeOK, OneUnderWay, cmdMu = NoClient
    PROVE  /\ toDevice = <<>> /\ \A i \in 1..Len(toHost) : ~IsAnswer(toHost[i])
           /\ alive => respCh = <<>>
BY SessionAssumption DEF OneUnderWay, Awaited

\* A step that neither sends nor takes anything, nor changes the command of
\* the client that waits.
LEMMA NothingSent ==
    ASSUME RequestLocked, OneUnderWay, UNCHANGED <<toDevice, toHost, respCh, cmdMu, alive>>,
           \A c \in Clients : pc[c] = "wait" => cmd'[c] = cmd[c]
    PROVE  OneUnderWay'
BY DEF RequestLocked, OneUnderWay, Awaited, IsAnswer

\* The elements of a sequence: of one that grew, of one that shrank, of two joined.
LEMMA AppendElements ==
    ASSUME NEW S, NEW s \in Seq(S), NEW x \in S
    PROVE  ToSet(Append(s, x)) = ToSet(s) \cup {x}
<1>1. DOMAIN s = 1..Len(s) /\ DOMAIN Append(s, x) = 1..(Len(s) + 1) /\ Len(s) \in Nat
  OBVIOUS
<1>2. \A i \in 1..Len(s) : Append(s, x)[i] = s[i]
  OBVIOUS
<1>3. Append(s, x)[Len(s) + 1] = x
  OBVIOUS
<1>4. ToSet(s) \cup {x} \subseteq ToSet(Append(s, x))
  BY <1>1, <1>2, <1>3 DEF ToSet
<1>5. ToSet(Append(s, x)) \subseteq ToSet(s) \cup {x}
  BY <1>1, <1>2, <1>3 DEF ToSet
<1> QED
  BY <1>4, <1>5

\* The elements of a queue are its head's and its tail's.
LEMMA TailElements ==
    ASSUME NEW S, NEW s \in Seq(S), s # <<>>
    PROVE  ToSet(s) = {Head(s)} \cup ToSet(Tail(s))
<1>1. /\ DOMAIN s = 1..Len(s) /\ DOMAIN Tail(s) = 1..(Len(s) - 1)
      /\ Len(s) \in Nat \ {0} /\ Head(s) = s[1]
  OBVIOUS
<1>2. \A i \in 1..(Len(s) - 1) : Tail(s)[i] = s[i + 1]
  OBVIOUS
<1>3. {Head(s)} \cup ToSet(Tail(s)) \subseteq ToSet(s)
  BY <1>1, <1>2 DEF ToSet
<1>4. \A i \in 1..Len(s) :
        i = 1 \/ (i - 1 \in 1..(Len(s) - 1) /\ s[i] = Tail(s)[i - 1])
  BY <1>1, <1>2
<1>5. ASSUME NEW i \in 1..Len(s) PROVE s[i] \in {Head(s)} \cup ToSet(Tail(s))
  BY <1>1, <1>4 DEF ToSet
<1> QED
  BY <1>1, <1>3, <1>5 DEF ToSet

\* The elements of two queues are those of both.
LEMMA JoinedElements ==
    ASSUME NEW S, NEW s \in Seq(S), NEW t \in Seq(S)
    PROVE  ToSet(s \o t) = ToSet(s) \cup ToSet(t)
<1>1. /\ DOMAIN s = 1..Len(s) /\ DOMAIN t = 1..Len(t) /\ Len(s) \in Nat /\ Len(t) \in Nat
      /\ DOMAIN (s \o t) = 1..(Len(s) + Len(t))
  OBVIOUS
<1>2. \A i \in 1..(Len(s) + Len(t)) : (s \o t)[i] = IF i <= Len(s) THEN s[i] ELSE t[i - Len(s)]
  BY ConcatProperties
<1>3. \A i \in 1..Len(s) : s[i] = (s \o t)[i] /\ i \in 1..(Len(s) + Len(t))
  BY <1>1, <1>2
<1>4. \A i \in 1..Len(t) : t[i] = (s \o t)[i + Len(s)] /\ i + Len(s) \in 1..(Len(s) + Len(t))
  BY <1>1, <1>2
<1>5. ToSet(s) \cup ToSet(t) \subseteq ToSet(s \o t)
  BY <1>1, <1>3, <1>4 DEF ToSet
<1>6. ASSUME NEW i \in 1..(Len(s) + Len(t)) PROVE (s \o t)[i] \in ToSet(s) \cup ToSet(t)
  <2>1. CASE i <= Len(s)
    BY <1>1, <1>2, <2>1 DEF ToSet
  <2>2. CASE ~(i <= Len(s))
    <3>1. i - Len(s) \in DOMAIN t /\ (s \o t)[i] = t[i - Len(s)]
      BY <1>1, <1>2, <2>2
    <3> QED
      BY <3>1 DEF ToSet
  <2> QED
    BY <2>1, <2>2
<1> QED
  BY <1>1, <1>5, <1>6 DEF ToSet

\* A queue of one element.
LEMMA Single ==
    ASSUME NEW S, NEW s \in Seq(S), Len(s) <= 1, s # <<>>
    PROVE  Len(s) = 1 /\ Tail(s) = <<>> /\ ToSet(s) = {Head(s)}
<1>1. Len(s) \in Nat /\ Len(s) # 0 /\ Head(s) = s[1] /\ DOMAIN s = 1..Len(s)
  OBVIOUS
<1>2. Len(s) = 1
  BY <1>1
<1>3. Tail(s) = <<>>
  <2>1. Tail(s) \in Seq(S) /\ Len(Tail(s)) = Len(s) - 1
    BY HeadTailProperties
  <2>2. Len(Tail(s)) = 0
    BY <1>2, <2>1
  <2> QED
    BY <2>1, <2>2, EmptySeq
<1> QED
  BY <1>1, <1>2, <1>3 DEF ToSet

\* When nothing is due to a client, nothing under way is for it.
LEMMA NothingDue ==
    ASSUME TypeOK, NEW c \in Clients, ~Due(c)
    PROVE  /\ \A i \in 1..Len(toDevice) : toDevice[i].by # c
           /\ \A i \in 1..Len(toHost) : toHost[i].by # c
           /\ \A i \in 1..Len(respCh) : respCh[i].by # c
<1> DEFINE F == Command \cup Frame
<1>1. toDevice \in Seq(F) /\ toHost \in Seq(F) /\ respCh \in Seq(F) /\ toDevice \o toHost \in Seq(F)
  <2>1. \A S, T : \A s \in Seq(S) : s \in Seq(S \cup T)
    OBVIOUS
  <2>2. toDevice \in Seq(F)
    BY <2>1 DEF TypeOK
  <2>3. toHost \in Seq(F) /\ respCh \in Seq(F)
    <3>1. toHost \in Seq(Frame) /\ respCh \in Seq(Frame)
      BY DEF TypeOK
    <3> QED
      BY <2>1, <3>1
  <2> QED
    BY <2>2, <2>3, ConcatProperties
<1> HIDE DEF F
<1>2. ToSet(UnderWay) = (ToSet(toDevice) \cup ToSet(toHost)) \cup ToSet(respCh)
  <2>1. ToSet(toDevice \o toHost) = ToSet(toDevice) \cup ToSet(toHost)
    BY <1>1, JoinedElements
  <2>2. ToSet((toDevice \o toHost) \o respCh) = ToSet(toDevice \o toHost) \cup ToSet(respCh)
    BY <1>1, JoinedElements
  <2> QED
    BY <2>1, <2>2 DEF UnderWay
<1>3. \A f \in ToSet(toDevice) \cup ToSet(toHost) \cup ToSet(respCh) : f.by # c
  BY <1>2 DEF Due
<1> QED
  BY <1>3 DEF ToSet, TypeOK

\* A request of a client that nothing is due to times out without a trace.
LEMMA NothingIsLate ==
    ASSUME TypeOK, NEW c \in Clients, ~Due(c)
    PROVE  Late(toDevice, c) = toDevice /\ Late(toHost, c) = toHost /\ Late(respCh, c) = respCh
<1>1. toDevice \in Seq(Command) /\ toHost \in Seq(Frame) /\ respCh \in Seq(Frame)
  BY DEF TypeOK
<1> QED
  BY <1>1, NothingDue, LateTyped

\* At most one command or answer is under way for the lock's holder.
LEMMA OneUnderWayStep ==
    ASSUME Prompt, TypeOK, RequestLocked, OneUnderWay, [Next]_vars
    PROVE  OneUnderWay'
<1> USE DEF Clients, deviceVars, clientVars, regVars, syncVars, regUnchanged
<1>0. /\ toDevice \in Seq(Command) /\ toHost \in Seq(Frame)
      /\ respCh \in Seq(Frame) /\ Len(respCh) <= 1
      /\ cmdMu \in Clients \cup {NoClient} /\ NoClient \notin Clients
      /\ cmd \in [Clients -> Command] /\ alive \in BOOLEAN
  BY SessionAssumption DEF TypeOK
<1>1. ASSUME NEW c \in Clients, Write(c)
      PROVE  OneUnderWay'
  <2>1. /\ toDevice = <<>> /\ \A i \in 1..Len(toHost) : ~IsAnswer(toHost[i])
        /\ respCh = <<>> /\ alive /\ cmdMu' = c /\ UNCHANGED <<toHost, respCh, cmd, alive>>
        /\ toDevice' = Append(toDevice, [cmd[c] EXCEPT !.by = c])
    BY <1>1, NobodyWaits DEF Write
  <2>2. /\ Len(toDevice') = 1 /\ toDevice' # <<>>
        /\ Head(toDevice') = [cmd'[c] EXCEPT !.by = c]
    BY <2>1
  <2>3. \A i \in 1..Len(toHost) : toHost[i].by = NoClient
    BY <2>1 DEF OneUnderWay
  <2> QED
    BY <2>1, <2>2, <2>3 DEF OneUnderWay, IsAnswer
<1>2. ASSUME NEW c \in Clients, TakeAnswer(c)
      PROVE  OneUnderWay'
  <2>1. /\ toDevice = <<>> /\ \A i \in 1..Len(toHost) : ~IsAnswer(toHost[i])
        /\ UNCHANGED <<toDevice, toHost, cmd, alive>> /\ respCh' = <<>>
    BY <1>2 DEF TakeAnswer, OneUnderWay
  <2> QED
    BY <1>0, <2>1 DEF OneUnderWay, IsAnswer
<1>3. ASSUME NEW c \in Clients, Timeout(c)
      PROVE  OneUnderWay'
  <2>1. /\ pc[c] = "wait" /\ ~Due(c) /\ cmdMu' = NoClient /\ alive /\ UNCHANGED <<cmd, alive>>
        /\ UNCHANGED <<toDevice, toHost, respCh>>
    BY <1>3, NothingIsLate DEF Timeout, Return, Prompt
  <2>2. cmdMu = c
    BY <2>1 DEF RequestLocked
  <2>3. /\ \A i \in 1..Len(toDevice) : toDevice[i].by # c
        /\ \A i \in 1..Len(toHost) : toHost[i].by # c
        /\ \A i \in 1..Len(respCh) : respCh[i].by # c
    BY <2>1, NothingDue
  <2>4. toDevice = <<>>
    <3>1. SUFFICES ASSUME toDevice # <<>> PROVE FALSE
      OBVIOUS
    <3>2. Head(toDevice) = toDevice[1] /\ 1 \in 1..Len(toDevice)
      BY <1>0, <3>1
    <3>3. toDevice[1].by = c
      BY <1>0, <2>2, <3>1, <3>2 DEF OneUnderWay, Command
    <3> QED
      BY <2>3, <3>2, <3>3
  <2>5. \A i \in 1..Len(toHost) : ~IsAnswer(toHost[i])
    BY <2>2, <2>3 DEF OneUnderWay, Awaited
  <2>6. respCh = <<>>
    <3>1. SUFFICES ASSUME respCh # <<>> PROVE FALSE
      OBVIOUS
    <3>2. Head(respCh) = respCh[1] /\ 1 \in 1..Len(respCh)
      BY <1>0, <3>1
    <3>3. Head(respCh).by = c
      BY <2>1, <2>2, <3>1 DEF OneUnderWay, Awaited
    <3> QED
      BY <2>3, <3>2, <3>3
  <2> QED
    BY <2>1, <2>4, <2>5, <2>6 DEF OneUnderWay, IsAnswer
<1>4. ASSUME NEW c \in Clients, FailClosed(c)
      PROVE  OneUnderWay'
  <2>1. /\ toDevice = <<>> /\ toHost = <<>> /\ ~alive /\ cmdMu' = NoClient
        /\ UNCHANGED <<toDevice, toHost, respCh, alive>>
    BY <1>4 DEF FailClosed, Return, OneUnderWay
  <2> QED
    BY <2>1 DEF OneUnderWay
<1>5. ASSUME NEW c \in Clients, Begin(c)
      PROVE  OneUnderWay'
  <2>1. /\ UNCHANGED <<toDevice, toHost, respCh, cmdMu, alive>>
        /\ \A d \in Clients : pc[d] = "wait" => cmd'[d] = cmd[d]
    BY <1>0, <1>5 DEF Begin, Ask
  <2> QED
    BY <2>1, NothingSent
<1>6. ASSUME NEW c \in Clients, End(c)
      PROVE  OneUnderWay'
  BY <1>6, NothingSent DEF End
<1>7. CASE ReadFrame
  <2>1. /\ toHost # <<>> /\ toHost' = Tail(toHost) /\ UNCHANGED <<toDevice, cmdMu, cmd, alive>>
        /\ respCh' = IF IsAnswer(Head(toHost)) /\ respCh = <<>> THEN <<Head(toHost)>> ELSE respCh
    BY <1>7 DEF ReadFrame, IsAnswer
  <2>2. /\ Len(toHost') = Len(toHost) - 1 /\ Len(toHost) \in Nat \ {0} /\ Head(toHost) = toHost[1]
        /\ \A i \in 1..Len(toHost') : toHost'[i] = toHost[i + 1] /\ i + 1 \in 1..Len(toHost)
    BY <1>0, <2>1, HeadTailProperties
  <2>3. alive
    BY <2>1 DEF OneUnderWay
  <2>4. CASE IsAnswer(Head(toHost))
    <3>1. Awaited(Head(toHost)) /\ respCh = <<>> /\ toDevice = <<>>
      BY <2>2, <2>4 DEF OneUnderWay
    <3>2. \A i \in 1..Len(toHost') : ~IsAnswer(toHost'[i]) /\ toHost'[i].by = NoClient
      <4>1. SUFFICES ASSUME NEW i \in 1..Len(toHost')
                     PROVE  ~IsAnswer(toHost[i + 1]) /\ toHost[i + 1].by = NoClient
        BY <2>2
      <4>2. i + 1 \in 1..Len(toHost) /\ 1 \in 1..Len(toHost) /\ i + 1 # 1
        BY <2>2
      <4>3. ~IsAnswer(toHost[i + 1])
        BY <2>2, <2>4, <4>2 DEF OneUnderWay
      <4> QED
        BY <4>2, <4>3 DEF OneUnderWay
    <3>3. respCh' = <<Head(toHost)>> /\ Head(respCh') = Head(toHost)
      BY <2>1, <2>4, <3>1
    <3>4. Awaited(Head(respCh))'
      BY <2>1, <3>1, <3>3 DEF Awaited
    <3> QED
      BY <2>1, <2>3, <3>1, <3>2, <3>4 DEF OneUnderWay, IsAnswer
  <2>5. CASE ~IsAnswer(Head(toHost))
    <3>1. respCh' = respCh
      BY <2>1, <2>5
    <3>2. \A i, j \in 1..Len(toHost') : IsAnswer(toHost'[i]) /\ IsAnswer(toHost'[j]) => i = j
      <4>1. SUFFICES ASSUME NEW i \in 1..Len(toHost'), NEW j \in 1..Len(toHost'),
                            IsAnswer(toHost[i + 1]), IsAnswer(toHost[j + 1])
                     PROVE  i = j
        BY <2>2
      <4>2. i + 1 = j + 1
        BY <2>2, <4>1 DEF OneUnderWay
      <4> QED
        BY <4>2
    <3>3. \A i \in 1..Len(toHost') :
            IF IsAnswer(toHost'[i]) THEN Awaited(toHost'[i]) /\ respCh' = <<>>
            ELSE toHost'[i].by = NoClient
      BY <2>2, <3>1 DEF OneUnderWay
    <3>4. toDevice # <<>> => \A i \in 1..Len(toHost') : ~IsAnswer(toHost'[i])
      BY <2>2 DEF OneUnderWay
    <3> QED
      BY <2>1, <2>3, <3>1, <3>2, <3>3, <3>4 DEF OneUnderWay, IsAnswer, Awaited
  <2> QED
    BY <2>4, <2>5
<1>8. CASE Wake
  <2>1. /\ UNCHANGED <<toDevice, toHost, respCh, cmdMu, alive>>
        /\ \A d \in Clients : pc[d] = "wait" => cmd'[d] = cmd[d]
    BY <1>0, <1>8 DEF Wake, Ask
  <2> QED
    BY <2>1, NothingSent
<1>9. CASE Drain
  BY <1>9, NothingSent DEF Drain
<1>10. ASSUME NEW s \in Channels, Register(s)
      PROVE  OneUnderWay'
  <2>1. /\ UNCHANGED <<toDevice, toHost, respCh, cmdMu, alive>>
        /\ \A d \in Clients : pc[d] = "wait" => cmd'[d] = cmd[d]
    BY <1>0, <1>10 DEF Register, Ask
  <2> QED
    BY <2>1, NothingSent
<1>11. CASE PrivateScanned \/ PublicScanned
  <2>1. /\ UNCHANGED <<toDevice, toHost, respCh, cmdMu, alive>>
        /\ \A d \in Clients : pc[d] = "wait" => cmd'[d] = cmd[d]
    BY <1>0, <1>11, ScanStep
  <2> QED
    BY <2>1, NothingSent
<1>13. CASE SlotSet
  BY <1>13, NothingSent DEF SlotSet, Registered, NotRegistered
<1>14. CASE TakeMessage
  BY <1>14, NothingSent DEF TakeMessage
<1>15. CASE DeviceAnswers
  <2> DEFINE k == Head(toDevice)
  <2>1. /\ toDevice # <<>> /\ toDevice' = Tail(toDevice) /\ UNCHANGED <<respCh, cmdMu, cmd, alive>>
        /\ \/ toHost' = Append(toHost, Result(k))
           \/ toHost' = Append(toHost, Answer("err", k.by))
           \/ UNCHANGED toHost
    BY <1>15 DEF DeviceAnswers
  <2>2. /\ cmdMu \in Clients /\ k = [cmd[cmdMu] EXCEPT !.by = cmdMu]
        /\ respCh = <<>> /\ \A i \in 1..Len(toHost) : ~IsAnswer(toHost[i])
        /\ Len(toDevice) = 1 /\ alive
    <3>2. Len(toDevice) <= 1 /\ alive
      BY <1>0, <2>1 DEF OneUnderWay
    <3>3. /\ cmdMu \in Clients /\ k = [cmd[cmdMu] EXCEPT !.by = cmdMu]
          /\ respCh = <<>> /\ \A i \in 1..Len(toHost) : ~IsAnswer(toHost[i])
      BY <2>1 DEF OneUnderWay
    <3>4. Len(toDevice) = 1
      BY <1>0, <2>1, <3>2, Single
    <3> QED
      BY <3>2, <3>3, <3>4
  <2>3. k \in Command /\ k.by = cmdMu /\ k.op = cmd[cmdMu].op
    BY <1>0, <2>2 DEF Command
  <2> HIDE DEF k
  <2>4. toDevice' = <<>>
    BY <1>0, <2>1, <2>2
  <2>5. CASE UNCHANGED toHost
    <3>1. \A i \in 1..Len(toHost) : toHost[i].by = NoClient
      BY <2>2 DEF OneUnderWay
    <3>2. \A i \in 1..Len(toHost') : ~IsAnswer(toHost'[i]) /\ toHost'[i].by = NoClient
      BY <2>2, <2>5, <3>1
    <3>3. respCh' = <<>> /\ alive' /\ Len(toDevice') = 0
      BY <2>1, <2>2, <2>4
    <3> QED
      BY <2>4, <3>2, <3>3 DEF OneUnderWay, IsAnswer
  <2>6. ASSUME NEW f \in Frame, f.by = cmdMu, f.kind \in Wants(cmd[cmdMu].op), f.kind # "waiting",
               toHost' = Append(toHost, f)
        PROVE  OneUnderWay'
    <3>1. /\ Len(toHost') = Len(toHost) + 1 /\ toHost'[Len(toHost) + 1] = f /\ Len(toHost) \in Nat
          /\ \A i \in 1..Len(toHost) : toHost'[i] = toHost[i]
      BY <1>0, <2>6, AppendProperties
    <3>2. \A i \in 1..Len(toHost') : i = Len(toHost) + 1 \/ i \in 1..Len(toHost)
      BY <3>1
    <3>3. \A i \in 1..Len(toHost) : ~IsAnswer(toHost'[i]) /\ toHost'[i].by = NoClient
      BY <2>2, <3>1 DEF OneUnderWay
    <3>4. \A i \in 1..Len(toHost') :
            IF i = Len(toHost) + 1 THEN IsAnswer(toHost'[i]) /\ Awaited(toHost'[i])
            ELSE ~IsAnswer(toHost'[i]) /\ toHost'[i].by = NoClient
      BY <2>1, <2>2, <2>6, <3>1, <3>2, <3>3 DEF IsAnswer, Awaited
    <3>5. \A i, j \in 1..Len(toHost') : IsAnswer(toHost'[i]) /\ IsAnswer(toHost'[j]) => i = j
      BY <3>4
    <3> QED
      BY <2>1, <2>2, <2>4, <3>4, <3>5 DEF OneUnderWay, IsAnswer, Awaited
  <2>7. Result(k) \in Frame /\ Result(k).by = cmdMu /\ Result(k).kind \in Wants(cmd[cmdMu].op)
        /\ Result(k).kind # "waiting"
    BY <2>3, ResultTyped
  <2>8. Answer("err", k.by) \in Frame /\ Answer("err", k.by).by = cmdMu
        /\ Answer("err", k.by).kind = "err"
    BY <2>2, <2>3, AnswersTyped DEF Kinds
  <2>9. "err" \in Wants(cmd[cmdMu].op)
    BY <2>3 DEF Wants, Command, Ops
  <2> QED
    BY <2>1, <2>5, <2>6, <2>7, <2>8, <2>9
<1>16. CASE DeviceHears
  <2> DEFINE f == Answer("waiting", NoClient)
  <2>1. /\ UNCHANGED <<toDevice, respCh, cmdMu, cmd, alive>> /\ toHost' = Append(toHost, f) /\ alive
    BY <1>16 DEF DeviceHears
  <2>2. f \in Frame /\ f.kind = "waiting" /\ f.by = NoClient
    BY AnswersTyped DEF Kinds
  <2> HIDE DEF f
  <2>3. /\ Len(toHost') = Len(toHost) + 1 /\ toHost'[Len(toHost) + 1] = f /\ Len(toHost) \in Nat
        /\ \A i \in 1..Len(toHost) : toHost'[i] = toHost[i]
    BY <1>0, <2>1, <2>2, AppendProperties
  <2>4. \A i \in 1..Len(toHost') :
           IF i = Len(toHost) + 1 THEN ~IsAnswer(toHost'[i]) /\ toHost'[i].by = NoClient
                                   ELSE i \in 1..Len(toHost) /\ toHost'[i] = toHost[i]
    BY <2>2, <2>3 DEF IsAnswer
  <2>5. \A i, j \in 1..Len(toHost') : IsAnswer(toHost'[i]) /\ IsAnswer(toHost'[j]) => i = j
    BY <2>4 DEF OneUnderWay
  <2>6. \A i \in 1..Len(toHost') :
            IF IsAnswer(toHost'[i]) THEN Awaited(toHost'[i]) /\ respCh = <<>>
            ELSE toHost'[i].by = NoClient
    BY <2>4 DEF OneUnderWay
  <2>7. toDevice # <<>> => \A i \in 1..Len(toHost') : ~IsAnswer(toHost'[i])
    BY <2>4 DEF OneUnderWay
  <2> QED
    BY <2>1, <2>5, <2>6, <2>7 DEF OneUnderWay, IsAnswer, Awaited
<1>17. CASE Disconnect
  <2>1. /\ toDevice' = <<>> /\ toHost' = <<>> /\ alive' = FALSE /\ alive
        /\ UNCHANGED <<respCh, cmdMu, cmd>>
    BY <1>17 DEF Disconnect
  <2> QED
    BY <2>1 DEF OneUnderWay, Awaited
<1>18. CASE UNCHANGED vars
  BY <1>18 DEF vars, OneUnderWay, Awaited, IsAnswer
<1> QED
  BY <1>1, <1>2, <1>3, <1>4, <1>5, <1>6, <1>7, <1>8, <1>9, <1>10, <1>11, <1>13,
     <1>14, <1>15, <1>16, <1>17, <1>18 DEF Next, EndWait, SyncLoop, RunMeshcore

\* The answer a client is given answers its own command, and none is missed.
LEMMA ReplyStep ==
    ASSUME TypeOK, RequestLocked, OneUnderWay, ReplyFits, NoAnswerMissed, [Next]_vars
    PROVE  ReplyFits' /\ NoAnswerMissed'
<1> USE DEF ReplyFits, NoAnswerMissed, Clients, deviceVars, clientVars, regVars, syncVars,
       regUnchanged
<1>0. /\ pc \in [Clients -> {"idle", "want", "wait", "got"}]
      /\ reply \in [Clients -> Frame] /\ cmd \in [Clients -> Command]
      /\ NoClient \notin Clients
  BY SessionAssumption DEF TypeOK
<1>1. ASSUME NEW c \in Clients, Write(c)
      PROVE  ReplyFits' /\ NoAnswerMissed'
  BY <1>0, <1>1 DEF Write
<1>2. ASSUME NEW c \in Clients, TakeAnswer(c)
      PROVE  ReplyFits' /\ NoAnswerMissed'
  <2>1. respCh # <<>> /\ cmdMu = c
    BY <1>2 DEF TakeAnswer, RequestLocked
  <2>2. Head(respCh).by = c
    BY <1>0, <2>1 DEF OneUnderWay, Awaited
  <2>3. CASE Head(respCh).kind \in Wants(cmd[c].op)
    BY <1>0, <1>2, <2>2, <2>3 DEF TakeAnswer, Return
  <2>4. CASE Head(respCh).kind \notin Wants(cmd[c].op)
    BY <1>0, <1>2, <2>4 DEF TakeAnswer
  <2> QED
    BY <2>3, <2>4
<1>3. ASSUME NEW c \in Clients, Timeout(c)
      PROVE  ReplyFits' /\ NoAnswerMissed'
  BY <1>0, <1>3, AnswersTyped DEF Timeout, Return, Kinds
<1>4. ASSUME NEW c \in Clients, FailClosed(c)
      PROVE  ReplyFits' /\ NoAnswerMissed'
  BY <1>0, <1>4, AnswersTyped DEF FailClosed, Return, Kinds
<1>5. ASSUME NEW c \in Clients, Begin(c)
      PROVE  ReplyFits' /\ NoAnswerMissed'
  BY <1>0, <1>5 DEF Begin, Ask
<1>6. ASSUME NEW c \in Clients, End(c)
      PROVE  ReplyFits' /\ NoAnswerMissed'
  BY <1>0, <1>6 DEF End
<1>7. CASE ReadFrame
  <2>1. ReplyFits'
    BY <1>7 DEF ReadFrame
  <2>2. toHost # <<>> => Head(toHost) = toHost[1] /\ 1 \in 1..Len(toHost)
    <3>1. toHost \in Seq(Frame)
      BY DEF TypeOK
    <3> QED
      BY <3>1
  <2>3. ASSUME Head(toHost).kind # "waiting", respCh # <<>>, toHost # <<>>
        PROVE  FALSE
    BY <2>2, <2>3 DEF OneUnderWay, IsAnswer
  <2> QED
    BY <1>7, <2>1, <2>3 DEF ReadFrame
<1>8. CASE Wake
  BY <1>0, <1>8 DEF Wake, Ask
<1>9. CASE Drain
  BY <1>0, <1>9 DEF Drain
<1>10. ASSUME NEW s \in Channels, Register(s)
      PROVE  ReplyFits' /\ NoAnswerMissed'
  BY <1>0, <1>10 DEF Register, Ask
<1>11. CASE PrivateScanned \/ PublicScanned
  <2>1. NoAnswerMissed'
    BY <1>11 DEF PrivateScanned, PublicScanned
  <2>2. ReplyFits'
    BY <1>0, <1>11, ScanStep
  <2> QED
    BY <2>1, <2>2
<1>13. CASE SlotSet
  BY <1>0, <1>13 DEF SlotSet, Registered, NotRegistered
<1>14. CASE TakeMessage
  BY <1>14 DEF TakeMessage
<1>15. CASE DeviceAnswers
  BY <1>15 DEF DeviceAnswers
<1>16. CASE DeviceHears
  BY <1>16 DEF DeviceHears
<1>17. CASE Disconnect
  BY <1>17 DEF Disconnect
<1>18. CASE UNCHANGED vars
  BY <1>18 DEF vars
<1> HIDE DEF ReplyFits, NoAnswerMissed
<1> QED
  BY <1>1, <1>2, <1>3, <1>4, <1>5, <1>6, <1>7, <1>8, <1>9, <1>10, <1>11, <1>13,
     <1>14, <1>15, <1>16, <1>17, <1>18 DEF Next, EndWait, SyncLoop, RunMeshcore

\* No request has been made at first.
LEMMA RequestInit == Init => RequestInv
<1> SUFFICES ASSUME Init PROVE RequestInv
  OBVIOUS
<1>1. RequestLocked
  BY SessionAssumption DEF Init, RequestLocked, Clients
<1>2. OneUnderWay
  BY DEF Init, OneUnderWay
<1>3. ReplyFits /\ NoAnswerMissed
  BY DEF Init, ReplyFits, NoAnswerMissed
<1> QED
  BY <1>1, <1>2, <1>3 DEF RequestInv

\* Commands and answers under way belong to the client that waits, throughout.
LEMMA RequestInvariant ==
    ASSUME Prompt
    PROVE  Spec => [](TypeOK /\ RequestInv)
<1>1. TypeOK /\ RequestInv /\ [Next]_vars => RequestInv'
  BY RequestLockedStep, OneUnderWayStep, ReplyStep DEF RequestInv
<1> QED
  BY <1>1, RequestInit, SessionTypes, PTL DEF Spec

\* As long as no answer comes after its request gave up, whatever a request
\* returns answers its own command, and readLoop drops no answer that
\* somebody waits for: cmdMu makes up for answers that name no command.
THEOREM AnswersAreKept ==
    ASSUME Prompt
    PROVE  Spec => []AnswersKept
<1>1. RequestInv => AnswersKept
  BY DEF RequestInv, ReplyFits, AnswersKept, AnswersOwnCommand
<1> QED
  BY <1>1, RequestInvariant, PTL

-----------------------------------------------------------------------------
(* The device's slots.                                                     *)

\* The device does not refuse to show a slot, or the public channel, whose
\* registration takes a refusal for an empty slot, is not configured.
SlotsShown == "get" \notin Refused \/ Public \notin Channels

\* The host's picture of the slots stays that of the device.
LEMMA SlotStep ==
    ASSUME Prompt, SlotsShown, TypeOK, RequestInv, SlotInv, [Next]_vars
    PROVE  SlotInv'
<1> USE DEF SlotInv, SlotClaimed, AnswersTrue, ForeignSlotsKept, SlotsAreKnown, Truthful,
       Scanning, Setting, Clients, deviceVars, clientVars, regVars, syncVars, regUnchanged
<1>0. /\ pc \in [Clients -> {"idle", "want", "wait", "got"}]
      /\ reply \in [Clients -> Frame] /\ cmd \in [Clients -> Command]
      /\ NoClient \notin Clients /\ toHost \in Seq(Frame)
      /\ hashBySlot \in [SlotIdx -> Channels \cup {Empty}] /\ slots \in [SlotIdx -> Secrets]
      /\ reg \in [secret : Channels \cup {Empty}, empty : SlotIdx \cup {NoSlot}]
      /\ NoSlot \notin SlotIdx /\ Empty \notin Channels \cup Foreign /\ Channels \cap Foreign = {}
  BY SessionAssumption DEF TypeOK
<1>a. RequestLocked /\ OneUnderWay
  BY DEF RequestInv
<1>1. ASSUME NEW c \in Clients, Write(c)
      PROVE  SlotInv'
  <2>1. /\ \A i \in 1..Len(toHost) : ~IsAnswer(toHost[i])
        /\ respCh = <<>>
    BY <1>1, <1>a, NobodyWaits DEF Write
  <2>2. /\ UNCHANGED <<slots, reg, hashBySlot, toHost, respCh, cmd, reply>>
        /\ pc' = [pc EXCEPT ![c] = "wait"] /\ pc[c] = "want"
    BY <1>1 DEF Write
  <2> QED
    BY <1>0, <2>1, <2>2 DEF IsAnswer
<1>2. ASSUME NEW c \in Clients, TakeAnswer(c)
      PROVE  SlotInv'
  <2>1. /\ UNCHANGED <<slots, reg, hashBySlot, toHost, cmd>> /\ respCh' = <<>>
        /\ pc[c] = "wait" /\ cmdMu = c /\ respCh # <<>>
    BY <1>2, <1>a DEF TakeAnswer, RequestLocked
  <2>2. CASE UNCHANGED <<pc, reply, cmdMu>>
    BY <2>1, <2>2
  <2>3. CASE Return(c, Head(respCh))
    BY <1>0, <2>1, <2>3 DEF Return
  <2> QED
    BY <1>2, <2>2, <2>3 DEF TakeAnswer
<1>3. ASSUME NEW c \in Clients, Timeout(c) \/ FailClosed(c)
      PROVE  SlotInv'
  <2>1. /\ UNCHANGED <<slots, reg, hashBySlot, cmd>> /\ Return(c, Answer("failed", c))
        /\ pc[c] \in {"wait", "want"}
    BY <1>3 DEF Timeout, FailClosed
  <2>2. Answer("failed", c).kind = "failed"
    BY AnswersTyped DEF Kinds
  <2> QED
    BY <1>0, <2>1, <2>2 DEF Return
<1>5. ASSUME NEW c \in Clients, Begin(c)
      PROVE  SlotInv'
  BY <1>0, <1>5 DEF Begin, Ask
<1>6. ASSUME NEW c \in Clients, End(c)
      PROVE  SlotInv'
  BY <1>0, <1>6 DEF End
<1>7. CASE ReadFrame
  <2>1. /\ toHost # <<>> /\ toHost' = Tail(toHost)
        /\ UNCHANGED <<slots, reg, hashBySlot, pc, cmd, reply, cmdMu>>
        /\ respCh' = IF IsAnswer(Head(toHost)) /\ respCh = <<>> THEN <<Head(toHost)>> ELSE respCh
    BY <1>7 DEF ReadFrame, IsAnswer
  <2>2. /\ Head(toHost) = toHost[1] /\ 1 \in 1..Len(toHost)
        /\ \A i \in 1..Len(toHost') : toHost'[i] = toHost[i + 1] /\ i + 1 \in 1..Len(toHost)
    BY <1>0, <2>1, HeadTailProperties
  <2>3. Head(<<Head(toHost)>>) = Head(toHost)
    OBVIOUS
  <2>4. ASSUME cmdMu = "reg"
        PROVE  /\ \A i \in 1..Len(toHost') : IsAnswer(toHost'[i]) => Truthful(toHost'[i])
               /\ respCh' # <<>> => Truthful(Head(respCh'))
    BY <2>1, <2>2, <2>3, <2>4
  <2> QED
    BY <2>1, <2>4 DEF IsAnswer
<1>8. CASE Wake
  BY <1>0, <1>8 DEF Wake, Ask
<1>9. CASE Drain
  BY <1>0, <1>9 DEF Drain
<1>10. ASSUME NEW s \in Channels, Register(s)
      PROVE  SlotInv'
  <2>1. LET k == GetChannel(IF s = Public THEN 0 ELSE 1) IN
          k \in Command /\ k.op = "get" /\ (s = Public => k.slot = 0)
    BY CommandsTyped
  <2>2. cmdMu # "reg"
    BY <1>10, <1>a DEF Register, RequestLocked
  <2> QED
    BY <1>0, <1>10, <2>1, <2>2 DEF Register, Ask
<1>11. CASE PrivateScanned
  <2>1. /\ pc["reg"] = "got" /\ cmd["reg"].op = "get" /\ cmd["reg"].slot \in SlotIdx
        /\ NextEmpty \in SlotIdx \cup {NoSlot} /\ reg.secret # Public
        /\ UNCHANGED <<slots, toHost, respCh, cmdMu, reply>> /\ cmdMu # "reg"
    BY <1>11, <1>a, PrivateSteps DEF RequestLocked
  <2>2. NextEmpty # NoSlot => slots[NextEmpty] = Empty
    BY <2>1 DEF NextEmpty, Holds
  <2>3. CASE NotRegistered
    BY <1>0, <2>1, <2>3 DEF NotRegistered
  <2>4. CASE Holds(reg.secret) /\ Registered(cmd["reg"].slot)
    BY <1>0, <2>1, <2>4 DEF Holds, Registered
  <2>5. CASE /\ cmd["reg"].slot + 1 \in SlotIdx
             /\ Ask("reg", GetChannel(cmd["reg"].slot + 1))
             /\ reg' = [reg EXCEPT !.empty = NextEmpty]
             /\ UNCHANGED hashBySlot
    <3>1. GetChannel(cmd["reg"].slot + 1).op = "get"
      BY <2>5, CommandsTyped
    <3> QED
      BY <1>0, <2>1, <2>2, <2>5, <3>1 DEF Ask
  <2>6. CASE /\ NextEmpty # NoSlot
             /\ Ask("reg", SetChannel(NextEmpty, reg.secret))
             /\ UNCHANGED <<reg, hashBySlot>>
    <3>1. LET k == SetChannel(NextEmpty, reg.secret) IN
            k.op = "set" /\ k.slot = NextEmpty /\ k.secret = reg.secret
      BY <1>0, <2>1, <2>6, CommandsTyped DEF Secrets
    <3> QED
      BY <1>0, <2>1, <2>2, <2>6, <3>1 DEF Ask
  <2> QED
    BY <1>11, <2>3, <2>4, <2>5, <2>6, PrivateSteps
<1>12. CASE PublicScanned
  <2>1. /\ pc["reg"] = "got" /\ cmd["reg"].op = "get" /\ cmd["reg"].slot = 0 /\ 0 \in SlotIdx
        /\ reg.secret = Public
        /\ UNCHANGED <<slots, toHost, respCh, cmdMu, reply>> /\ cmdMu # "reg"
    BY <1>12, <1>a, PublicSteps DEF RequestLocked
  <2>2. CASE NotRegistered
    BY <1>0, <2>1, <2>2 DEF NotRegistered
  <2>3. CASE Holds(Public) /\ Registered(0)
    BY <1>0, <2>1, <2>3 DEF Holds, Registered
  <2>4. CASE /\ reply["reg"].kind = "err" \/ Holds(Empty)
             /\ Ask("reg", SetChannel(0, Public))
             /\ UNCHANGED <<reg, hashBySlot>>
    <3>1. LET k == SetChannel(0, Public) IN
            k.op = "set" /\ k.slot = 0 /\ k.secret = Public
      BY <1>0, <2>1, CommandsTyped DEF Secrets
    <3>2. slots[0] = Empty
      BY <2>1, <2>4 DEF Holds
    <3> QED
      BY <1>0, <2>1, <2>4, <3>1, <3>2 DEF Ask
  <2> QED
    BY <1>12, <2>2, <2>3, <2>4, PublicSteps
<1>13. CASE SlotSet
  <2>1. /\ pc["reg"] = "got" /\ cmd["reg"].op = "set" /\ cmd["reg"].slot \in SlotIdx
        /\ UNCHANGED <<slots, toHost, respCh, cmdMu, reply>> /\ cmdMu # "reg"
    BY <1>0, <1>13, <1>a DEF SlotSet, Got, RequestLocked, Command
  <2>2. CASE NotRegistered
    BY <1>0, <2>1, <2>2 DEF NotRegistered
  <2>3. CASE reply["reg"].kind = "ok" /\ Registered(cmd["reg"].slot)
    BY <1>0, <2>1, <2>3 DEF Registered
  <2> QED
    BY <1>13, <2>2, <2>3 DEF SlotSet
<1>14. CASE TakeMessage
  BY <1>14 DEF TakeMessage
<1>15. CASE DeviceAnswers
  <2> DEFINE k == Head(toDevice)
  <2>1. /\ toDevice # <<>>
        /\ UNCHANGED <<reg, hashBySlot, respCh, pc, cmd, reply, cmdMu>>
        /\ \/ /\ toHost' = Append(toHost, Result(k))
              /\ slots' = IF k.op = "set" THEN [slots EXCEPT ![k.slot] = k.secret] ELSE slots
           \/ k.op \in Refused /\ toHost' = Append(toHost, Answer("err", k.by)) /\ UNCHANGED slots
           \/ UNCHANGED <<toHost, slots>>
    BY <1>15 DEF DeviceAnswers
  <2>2. /\ cmdMu \in Clients /\ k = [cmd[cmdMu] EXCEPT !.by = cmdMu]
        /\ respCh = <<>> /\ \A i \in 1..Len(toHost) : ~IsAnswer(toHost[i])
    BY <1>a, <2>1 DEF OneUnderWay
  <2>3. /\ k \in Command /\ k.op = cmd[cmdMu].op /\ k.slot = cmd[cmdMu].slot
        /\ k.secret = cmd[cmdMu].secret /\ k.slot \in SlotIdx
    BY <1>0, <2>2 DEF Command
  <2> HIDE DEF k
  <2>4. /\ pc[cmdMu] = "wait" /\ k.op \in OpsOf(cmdMu)
        /\ pc["reg"] = "got" => cmdMu # "reg"
    BY <1>0, <1>a, <2>2, <2>3 DEF RequestLocked
  <2>5. CASE UNCHANGED <<toHost, slots>>
    BY <2>1, <2>2, <2>5 DEF IsAnswer
  <2>6. ASSUME NEW f \in Frame, toHost' = Append(toHost, f)
        PROVE  \A i \in 1..Len(toHost') : IsAnswer(toHost'[i]) => toHost'[i] = f
    <3>1. /\ Len(toHost') = Len(toHost) + 1 /\ toHost'[Len(toHost) + 1] = f /\ Len(toHost) \in Nat
          /\ \A i \in 1..Len(toHost) : toHost'[i] = toHost[i]
      BY <1>0, <2>6, AppendProperties
    <3>2. \A i \in 1..Len(toHost') : i = Len(toHost) + 1 \/ i \in 1..Len(toHost)
      BY <3>1
    <3> QED
      BY <2>2, <3>1, <3>2
  <2>7. Result(k) \in Frame /\ Result(k).kind # "err"
        /\ (k.op = "get" => Result(k).secret = slots[k.slot])
    BY <2>3, ResultTyped
  <2>8. Answer("err", k.by) \in Frame /\ Answer("err", k.by).kind = "err"
    BY <2>3, AnswersTyped DEF Kinds, Command
  <2>9. CASE cmdMu # "reg"
    <3>1. k.op # "set"
      BY <2>2, <2>4, <2>9 DEF OpsOf
    <3> QED
      BY <2>1, <2>9, <3>1
  <2>10. CASE /\ cmdMu = "reg" /\ k.op = "get" /\ UNCHANGED slots
              /\ toHost' = Append(toHost, Result(k))
    BY <2>1, <2>2, <2>3, <2>4, <2>6, <2>7, <2>10 DEF IsAnswer
  <2>11. CASE /\ cmdMu = "reg" /\ k.op = "set" /\ slots' = [slots EXCEPT ![k.slot] = reg.secret]
              /\ toHost' = Append(toHost, Result(k))
    <3>1. Setting /\ reg.secret \in Channels /\ slots[k.slot] \in {Empty, reg.secret}
      BY <2>3, <2>4, <2>11
    <3>2. ForeignSlotsKept'
      BY <1>0, <2>3, <2>11, <3>1
    <3>3. SlotsAreKnown'
      BY <1>0, <2>1, <2>3, <2>11, <3>1
    <3>4. SlotClaimed'
      BY <1>0, <2>1, <2>3, <2>11, <3>1
    <3>5. AnswersTrue'
      BY <1>0, <2>1, <2>2, <2>3, <2>4, <2>11, <3>1
    <3> QED
      BY <3>2, <3>3, <3>4, <3>5
  <2>12. CASE /\ cmdMu = "reg" /\ UNCHANGED slots /\ k.op \in Refused
              /\ toHost' = Append(toHost, Answer("err", k.by))
    <3>1. Scanning => reg.secret # Public
      BY <2>3, <2>4, <2>12 DEF SlotsShown
    <3> QED
      BY <2>1, <2>2, <2>4, <2>6, <2>8, <2>12, <3>1 DEF IsAnswer
  <2>13. cmdMu = "reg" => k.op \in {"get", "set"} /\ (k.op = "set" => k.secret = reg.secret)
    BY <2>3, <2>4 DEF OpsOf
  <2> QED
    BY <2>1, <2>5, <2>9, <2>10, <2>11, <2>12, <2>13
<1>16. CASE DeviceHears
  <2> DEFINE f == Answer("waiting", NoClient)
  <2>1. /\ UNCHANGED <<slots, reg, hashBySlot, respCh, pc, cmd, reply, cmdMu>>
        /\ toHost' = Append(toHost, f)
    BY <1>16 DEF DeviceHears
  <2>2. f \in Frame /\ f.kind = "waiting"
    BY AnswersTyped DEF Kinds
  <2> HIDE DEF f
  <2>3. /\ Len(toHost') = Len(toHost) + 1 /\ toHost'[Len(toHost) + 1] = f /\ Len(toHost) \in Nat
        /\ \A i \in 1..Len(toHost) : toHost'[i] = toHost[i]
    BY <1>0, <2>1, <2>2, AppendProperties
  <2>4. \A i \in 1..Len(toHost') :
           IsAnswer(toHost'[i]) => i \in 1..Len(toHost) /\ toHost'[i] = toHost[i]
    BY <2>2, <2>3 DEF IsAnswer
  <2> QED
    BY <2>1, <2>4 DEF IsAnswer
<1>17. CASE Disconnect
  BY <1>17 DEF Disconnect
<1>18. CASE UNCHANGED vars
  BY <1>18 DEF vars, IsAnswer
<1> HIDE DEF SlotInv
<1> QED
  BY <1>1, <1>2, <1>3, <1>5, <1>6, <1>7, <1>8, <1>9, <1>10, <1>11, <1>12, <1>13,
     <1>14, <1>15, <1>16, <1>17, <1>18 DEF Next, EndWait, SyncLoop, RunMeshcore

\* The host's picture of the slots is that of the device throughout.
LEMMA SlotInvariant ==
    ASSUME Prompt, SlotsShown
    PROVE  Spec => []SlotInv
<1>1. Init => SlotInv
  BY DEF Init, SlotInv, SlotClaimed, AnswersTrue, ForeignSlotsKept, SlotsAreKnown, Scanning,
         Setting, Clients
<1>2. TypeOK /\ RequestInv /\ SlotInv /\ [Next]_vars => SlotInv'
  BY SlotStep
<1> QED
  BY <1>1, <1>2, RequestInvariant, PTL DEF Spec

\* No registration ever overwrites a slot that another tool uses, whatever
\* channels are configured and whatever the slots hold.
THEOREM ForeignSlotsAreKept ==
    ASSUME Prompt, SlotsShown
    PROVE  Spec => []ForeignSlotsKept
<1>1. SlotInv => ForeignSlotsKept
  BY DEF SlotInv
<1> QED
  BY <1>1, SlotInvariant, PTL

\* A slot that messages are attributed to a channel by holds that channel.
THEOREM KnownSlots ==
    ASSUME Prompt, SlotsShown
    PROVE  Spec => []SlotsAreKnown
<1>1. SlotInv => SlotsAreKnown
  BY DEF SlotInv
<1> QED
  BY <1>1, SlotInvariant, PTL

-----------------------------------------------------------------------------
(* The messages queued on the device.                                      *)

Msgs(seq) == {f.msg : f \in {g \in ToSet(seq) : g.kind = "msg"}}
MsgOf(f) == IF f.kind = "msg" THEN {f.msg} ELSE {}
Drained == IF pc["sync"] = "got" THEN MsgOf(reply["sync"]) ELSE {}

\* The messages among the frames of a sequence that grows, shrinks, or is joined.
LEMMA MsgsProperties ==
    ASSUME NEW s \in Seq(Frame)
    PROVE  /\ \A f \in Frame : Msgs(Append(s, f)) = Msgs(s) \cup MsgOf(f)
           /\ s # <<>> => Msgs(s) = MsgOf(Head(s)) \cup Msgs(Tail(s))
           /\ \A t \in Seq(Frame) : Msgs(s \o t) = Msgs(s) \cup Msgs(t)
           /\ Msgs(<<>>) = {} /\ \A f \in Frame : Msgs(<<f>>) = MsgOf(f)
           /\ s # <<>> /\ Len(s) <= 1 => Msgs(s) = MsgOf(Head(s))
<1>1. ASSUME NEW f \in Frame PROVE Msgs(Append(s, f)) = Msgs(s) \cup MsgOf(f)
  <2>1. ToSet(Append(s, f)) = ToSet(s) \cup {f}
    BY AppendElements
  <2> QED
    BY <2>1 DEF Msgs, MsgOf
<1>2. ASSUME s # <<>> PROVE Msgs(s) = MsgOf(Head(s)) \cup Msgs(Tail(s))
  <2>1. ToSet(s) = {Head(s)} \cup ToSet(Tail(s))
    BY <1>2, TailElements
  <2> QED
    BY <2>1 DEF Msgs, MsgOf
<1>3. ASSUME NEW t \in Seq(Frame) PROVE Msgs(s \o t) = Msgs(s) \cup Msgs(t)
  <2>1. ToSet(s \o t) = ToSet(s) \cup ToSet(t)
    BY JoinedElements
  <2> QED
    BY <2>1 DEF Msgs
<1>4. Msgs(<<>>) = {}
  BY DEF Msgs, ToSet
<1>5. ASSUME NEW f \in Frame PROVE Msgs(<<f>>) = MsgOf(f)
  <2>1. ToSet(<<f>>) = {f}
    BY DEF ToSet
  <2> QED
    BY <2>1 DEF Msgs, MsgOf
<1>6. ASSUME s # <<>>, Len(s) <= 1 PROVE Msgs(s) = MsgOf(Head(s))
  <2>1. ToSet(s) = {Head(s)}
    BY <1>6, Single
  <2> QED
    BY <2>1 DEF Msgs, MsgOf
<1> QED
  BY <1>1, <1>2, <1>3, <1>4, <1>5, <1>6

\* Messages fetched from the device are on their way, or drained.
LEMMA FetchedMsgs ==
    ASSUME TypeOK
    PROVE  Fetched = (Msgs(toHost) \cup Msgs(respCh)) \cup Drained
<1>1. toHost \in Seq(Frame) /\ respCh \in Seq(Frame)
  BY DEF TypeOK
<1>2. Msgs(toHost \o respCh) = Msgs(toHost) \cup Msgs(respCh)
  BY <1>1, MsgsProperties
<1>3. Drained = IF pc["sync"] = "got" /\ reply["sync"].kind = "msg" THEN {reply["sync"].msg} ELSE {}
  BY DEF Drained, MsgOf
<1> QED
  BY <1>2, <1>3 DEF Fetched, Msgs

\* NoMessageLost, with the messages on the connection spelt out.
NoneLost ==
    alive => 1..heard = ToSet(inbox) \cup Msgs(toHost) \cup Msgs(respCh) \cup Drained
                          \cup ToSet(msgCh) \cup ToSet(received) \cup dropped

\* No step loses a message fetched from the device.
LEMMA NoneLostStep ==
    ASSUME Prompt, TypeOK, RequestInv, NoneLost, [Next]_vars
    PROVE  NoneLost'
<1> USE DEF NoneLost, Drained, Clients, deviceVars, clientVars, regVars, syncVars, regUnchanged
<1>a. RequestLocked /\ OneUnderWay
  BY DEF RequestInv
<1>b. /\ pc \in [Clients -> {"idle", "want", "wait", "got"}]
      /\ reply \in [Clients -> Frame] /\ cmd \in [Clients -> Command]
      /\ NoClient \notin Clients /\ toHost \in Seq(Frame) /\ alive \in BOOLEAN
      /\ respCh \in Seq(Frame) /\ Len(respCh) <= 1
  BY SessionAssumption DEF TypeOK
<1>c. inbox \in Seq(Nat) /\ msgCh \in Seq(Nat) /\ received \in Seq(Nat)
  <2>1. \A S, T : S \subseteq T => \A s \in Seq(S) : s \in Seq(T)
    OBVIOUS
  <2>2. 1..MaxMsgs \subseteq Nat
    OBVIOUS
  <2>3. /\ inbox \in Seq(1..MaxMsgs) /\ msgCh \in Seq(1..MaxMsgs)
        /\ received \in Seq(1..MaxMsgs)
    BY DEF TypeOK
  <2> QED
    BY <2>1, <2>2, <2>3
<1>1. ASSUME NEW c \in Clients, Write(c)
      PROVE  NoneLost'
  BY <1>b, <1>1 DEF Write
<1>2. ASSUME NEW c \in Clients, TakeAnswer(c)
      PROVE  NoneLost'
  <2>1. /\ UNCHANGED <<inbox, heard, toHost, alive, msgCh, received, dropped>>
        /\ respCh # <<>> /\ respCh' = <<>> /\ pc[c] = "wait" /\ cmdMu = c
        /\ \/ Head(respCh).kind \in Wants(cmd[c].op) /\ Return(c, Head(respCh))
           \/ Head(respCh).kind \notin Wants(cmd[c].op) /\ UNCHANGED <<pc, reply>>
    BY <1>2, <1>a DEF TakeAnswer, RequestLocked
  <2>2. Msgs(respCh) = MsgOf(Head(respCh)) /\ Msgs(respCh') = {}
    BY <1>b, <2>1, MsgsProperties
  <2>3. Head(respCh).kind \in Wants(cmd[c].op)
    BY <1>a, <1>b, <2>1 DEF OneUnderWay, Awaited
  <2>4. CASE c = "sync"
    BY <1>b, <2>1, <2>2, <2>3, <2>4 DEF Return
  <2>5. CASE c # "sync"
    <3>1. cmd[c].op \in {"send", "ping", "get", "set"}
      BY <1>a, <2>1, <2>5 DEF RequestLocked, OpsOf
    <3>2. MsgOf(Head(respCh)) = {}
      BY <2>3, <3>1 DEF Wants, MsgOf
    <3>3. pc'["sync"] = pc["sync"] /\ reply'["sync"] = reply["sync"]
      BY <1>b, <2>1, <2>5 DEF Return
    <3> QED
      BY <2>1, <2>2, <3>2, <3>3
  <2> QED
    BY <2>4, <2>5
<1>3. ASSUME NEW c \in Clients, Timeout(c)
      PROVE  NoneLost'
  <2>1. /\ UNCHANGED <<inbox, heard, toHost, respCh, alive, msgCh, received, dropped>>
        /\ pc[c] = "wait" /\ Return(c, Answer("failed", c))
    BY <1>3, NothingIsLate DEF Timeout, Prompt
  <2>2. MsgOf(Answer("failed", c)) = {}
    BY AnswersTyped DEF MsgOf, Kinds
  <2>3. Drained' = Drained
    BY <1>b, <2>1, <2>2 DEF Return, Drained
  <2> QED
    BY <2>1, <2>3
<1>4. ASSUME NEW c \in Clients, FailClosed(c)
      PROVE  NoneLost'
  BY <1>4 DEF FailClosed
<1>5. ASSUME NEW c \in Clients, Begin(c)
      PROVE  NoneLost'
  BY <1>b, <1>5 DEF Begin, Ask
<1>6. ASSUME NEW c \in Clients, End(c)
      PROVE  NoneLost'
  BY <1>b, <1>6 DEF End
<1>7. CASE ReadFrame
  <2>1. /\ toHost # <<>> /\ toHost' = Tail(toHost)
        /\ UNCHANGED <<inbox, heard, alive, pc, reply, msgCh, received, dropped>>
        /\ IF IsAnswer(Head(toHost)) THEN respCh = <<>> => respCh' = <<Head(toHost)>>
           ELSE respCh' = respCh
    BY <1>7 DEF ReadFrame, IsAnswer
  <2>2. Head(toHost) = toHost[1] /\ 1 \in 1..Len(toHost) /\ Head(toHost) \in Frame
    BY <1>b, <2>1
  <2>3. Msgs(toHost) = MsgOf(Head(toHost)) \cup Msgs(toHost')
    BY <1>b, <2>1, MsgsProperties
  <2>4. Msgs(respCh') = Msgs(respCh) \cup MsgOf(Head(toHost))
    <3>1. CASE IsAnswer(Head(toHost))
      <4>1. respCh = <<>> /\ respCh' = <<Head(toHost)>>
        BY <1>a, <2>1, <2>2, <3>1 DEF OneUnderWay
      <4> QED
        BY <1>b, <2>2, <4>1, MsgsProperties
    <3>2. CASE ~IsAnswer(Head(toHost))
      BY <2>1, <3>2 DEF MsgOf, IsAnswer
    <3> QED
      BY <3>1, <3>2
  <2> QED
    BY <2>1, <2>3, <2>4
<1>8. CASE Wake
  BY <1>b, <1>8 DEF Wake, Ask
<1>9. CASE Drain
  <2>1. /\ UNCHANGED <<inbox, heard, alive, toHost, respCh, received>>
        /\ pc["sync"] = "got" /\ pc'["sync"] # "got"
    BY <1>b, <1>9 DEF Drain
  <2>2. ToSet(msgCh') \cup dropped' = (ToSet(msgCh) \cup dropped) \cup MsgOf(reply["sync"])
    <3>1. CASE reply["sync"].kind # "msg"
      BY <1>9, <3>1 DEF Drain, MsgOf
    <3>2. CASE reply["sync"].kind = "msg"
      <4>1. reply["sync"].msg \in Nat
        BY <1>b, <3>2, FrameFields
      <4>2. ToSet(Append(msgCh, reply["sync"].msg)) = ToSet(msgCh) \cup {reply["sync"].msg}
        <5>1. \A m \in Nat : ToSet(Append(msgCh, m)) = ToSet(msgCh) \cup {m}
          BY <1>c, AppendElements
        <5> QED
          BY <4>1, <5>1
      <4> QED
        BY <1>9, <3>2, <4>2 DEF Drain, MsgOf
    <3> QED
      BY <3>1, <3>2
  <2> QED
    BY <2>1, <2>2
<1>10. ASSUME NEW s \in Channels, Register(s)
      PROVE  NoneLost'
  BY <1>b, <1>10 DEF Register, Ask
<1>11. CASE PrivateScanned \/ PublicScanned
  <2>1. UNCHANGED <<inbox, heard, toHost, respCh, alive, reply, msgCh, received, dropped>>
    BY <1>11 DEF PrivateScanned, PublicScanned
  <2>2. pc'["sync"] = pc["sync"]
    BY <1>b, <1>11, ScanStep
  <2> QED
    BY <2>1, <2>2
<1>13. CASE SlotSet
  BY <1>b, <1>13 DEF SlotSet, Registered, NotRegistered
<1>14. CASE TakeMessage
  <2>1. /\ UNCHANGED <<inbox, heard, toHost, respCh, alive, pc, reply, dropped>>
        /\ msgCh # <<>> /\ msgCh' = Tail(msgCh) /\ received' = Append(received, Head(msgCh))
    BY <1>14 DEF TakeMessage
  <2>2. Head(msgCh) \in Nat /\ ToSet(msgCh) = {Head(msgCh)} \cup ToSet(msgCh')
    BY <1>c, <2>1, TailElements
  <2>3. ToSet(received') = ToSet(received) \cup {Head(msgCh)}
    BY <1>c, <2>1, <2>2, AppendElements
  <2> QED
    BY <2>1, <2>2, <2>3
<1>15. CASE DeviceAnswers
  <2> DEFINE k == Head(toDevice)
  <2>1. /\ toDevice # <<>>
        /\ UNCHANGED <<heard, respCh, alive, pc, reply, msgCh, received, dropped>>
        /\ \/ /\ toHost' = Append(toHost, Result(k))
              /\ inbox' = IF k.op = "sync" /\ inbox # <<>> THEN Tail(inbox) ELSE inbox
           \/ toHost' = Append(toHost, Answer("err", k.by)) /\ UNCHANGED inbox
           \/ UNCHANGED <<toHost, inbox>>
    BY <1>15 DEF DeviceAnswers
  <2>2. k \in Command
    <3>1. toDevice \in Seq(Command)
      BY DEF TypeOK
    <3> QED
      BY <2>1, <3>1
  <2> HIDE DEF k
  <2>3. CASE toHost' = Append(toHost, Answer("err", k.by)) /\ UNCHANGED inbox
    <3>1. Answer("err", k.by) \in Frame /\ MsgOf(Answer("err", k.by)) = {}
      BY <2>2, AnswersTyped DEF MsgOf, Kinds, Command
    <3>2. Msgs(toHost') = Msgs(toHost) \cup MsgOf(Answer("err", k.by))
      BY <1>b, <2>3, <3>1, MsgsProperties
    <3> QED
      BY <2>1, <2>3, <3>1, <3>2
  <2>4. CASE /\ toHost' = Append(toHost, Result(k))
             /\ inbox' = IF k.op = "sync" /\ inbox # <<>> THEN Tail(inbox) ELSE inbox
    <3>1. Msgs(toHost') = Msgs(toHost) \cup MsgOf(Result(k))
      BY <1>b, <2>2, <2>4, ResultTyped, MsgsProperties
    <3>2. ToSet(inbox) = ToSet(inbox') \cup MsgOf(Result(k))
      <4>1. CASE k.op = "sync" /\ inbox # <<>>
        <5>1. MsgOf(Result(k)) = {Head(inbox)}
          BY <2>2, <4>1, ResultTyped DEF MsgOf
        <5>2. ToSet(inbox) = {Head(inbox)} \cup ToSet(inbox')
          BY <1>c, <2>4, <4>1, TailElements
        <5> QED
          BY <5>1, <5>2
      <4>2. CASE ~(k.op = "sync" /\ inbox # <<>>)
        BY <2>2, <2>4, <4>2, ResultTyped DEF MsgOf
      <4> QED
        BY <4>1, <4>2
    <3> QED
      BY <2>1, <3>1, <3>2
  <2>5. CASE UNCHANGED <<toHost, inbox>>
    BY <2>1, <2>5
  <2> QED
    BY <2>1, <2>3, <2>4, <2>5
<1>16. CASE DeviceHears
  <2>1. /\ UNCHANGED <<respCh, alive, pc, reply, msgCh, received, dropped>>
        /\ heard' = heard + 1 /\ heard < MaxMsgs
        /\ inbox' = Append(inbox, heard + 1) /\ toHost' = Append(toHost, Answer("waiting", NoClient))
    BY <1>16 DEF DeviceHears
  <2>2. heard + 1 \in Nat /\ 1..(heard + 1) = (1..heard) \cup {heard + 1}
    <3>1. heard \in Nat /\ heard < MaxMsgs /\ MaxMsgs \in Nat
      BY <2>1, SessionAssumption DEF TypeOK
    <3> QED
      BY <3>1
  <2>3. ToSet(inbox') = ToSet(inbox) \cup {heard + 1}
    BY <1>c, <2>1, <2>2, AppendElements
  <2>4. Msgs(toHost') = Msgs(toHost)
    <3>1. Answer("waiting", NoClient) \in Frame /\ MsgOf(Answer("waiting", NoClient)) = {}
      BY AnswersTyped DEF MsgOf, Kinds
    <3>2. Msgs(toHost') = Msgs(toHost) \cup MsgOf(Answer("waiting", NoClient))
      BY <1>b, <2>1, <3>1, MsgsProperties
    <3> QED
      BY <3>1, <3>2
  <2> QED
    BY <2>1, <2>2, <2>3, <2>4
<1>17. CASE Disconnect
  BY <1>17 DEF Disconnect
<1>18. CASE UNCHANGED vars
  BY <1>18 DEF vars
<1> HIDE DEF NoneLost
<1> QED
  BY <1>1, <1>2, <1>3, <1>4, <1>5, <1>6, <1>7, <1>8, <1>9, <1>10, <1>11, <1>13,
     <1>14, <1>15, <1>16, <1>17, <1>18 DEF Next, EndWait, SyncLoop, RunMeshcore

\* The device answers CMD_SYNC_NEXT_MESSAGE, with a message or with none.
SyncServed == "sync" \notin Refused \cup Ignored

\* InboxIsWatched, with the frames on the connection spelt out.
StillDraining ==
    \/ pc["sync"] = "want"
    \/ pc["sync"] = "wait" /\ \A f \in ToSet(toHost) \cup ToSet(respCh) : f.kind # "none"
    \/ pc["sync"] = "got" /\ reply["sync"].kind = "msg"
Watched ==
    alive /\ inbox # <<>> =>
        syncTrigger \/ StillDraining \/ \E f \in ToSet(toHost) : f.kind = "waiting"

SyncInv == SyncUnderWay /\ Watched

\* Messages left on the device keep a sync going, or coming.
LEMMA SyncStep ==
    ASSUME Prompt, SyncServed, TypeOK, RequestInv, SyncInv, [Next]_vars
    PROVE  SyncInv'
<1> USE DEF SyncInv, SyncUnderWay, Watched, StillDraining, Clients, deviceVars, clientVars,
       regVars, syncVars, regUnchanged
<1>a. RequestLocked /\ OneUnderWay
  BY DEF RequestInv
<1>b. /\ pc \in [Clients -> {"idle", "want", "wait", "got"}]
      /\ reply \in [Clients -> Frame] /\ cmd \in [Clients -> Command]
      /\ NoClient \notin Clients /\ toHost \in Seq(Frame) /\ alive \in BOOLEAN
      /\ respCh \in Seq(Frame) /\ Len(respCh) <= 1 /\ toDevice \in Seq(Command)
  BY SessionAssumption DEF TypeOK
<1>c. /\ \A f : f \in ToSet(toHost) <=> \E i \in 1..Len(toHost) : f = toHost[i]
      /\ respCh # <<>> => ToSet(respCh) = {Head(respCh)}
      /\ ToSet(<<>>) = {}
  <2>1. \A f : f \in ToSet(toHost) <=> \E i \in 1..Len(toHost) : f = toHost[i]
    BY <1>b DEF ToSet
  <2>2. respCh # <<>> => ToSet(respCh) = {Head(respCh)}
    BY <1>b, Single
  <2>3. ToSet(<<>>) = {}
    BY DEF ToSet
  <2> QED
    BY <2>1, <2>2, <2>3
<1>1. ASSUME NEW c \in Clients, Write(c)
      PROVE  SyncInv'
  <2>1. /\ UNCHANGED <<inbox, syncTrigger, toHost, respCh, reply, alive>>
        /\ pc[c] = "want" /\ pc' = [pc EXCEPT ![c] = "wait"] /\ cmdMu' = c
        /\ cmdMu = NoClient /\ alive /\ toDevice' # <<>>
    BY <1>b, <1>1 DEF Write
  <2>2. /\ \A f \in ToSet(toHost) : ~IsAnswer(f)
        /\ respCh = <<>> /\ ToSet(respCh) = {}
    BY <1>a, <1>c, <2>1, NobodyWaits
  <2> QED
    BY <1>b, <2>1, <2>2 DEF IsAnswer
<1>2. ASSUME NEW c \in Clients, TakeAnswer(c)
      PROVE  SyncInv'
  <2>1. /\ UNCHANGED <<inbox, syncTrigger, toHost, alive>>
        /\ respCh # <<>> /\ respCh' = <<>> /\ pc[c] = "wait" /\ cmdMu = c
        /\ \/ Head(respCh).kind \in Wants(cmd[c].op) /\ Return(c, Head(respCh))
           \/ Head(respCh).kind \notin Wants(cmd[c].op) /\ UNCHANGED <<pc, reply, cmdMu>>
    BY <1>2, <1>a DEF TakeAnswer, RequestLocked
  <2>2. ToSet(respCh) = {Head(respCh)} /\ ToSet(respCh') = {}
    BY <1>c, <2>1
  <2>3. Head(respCh).kind \in Wants(cmd[c].op)
    BY <1>a, <1>b, <2>1 DEF OneUnderWay, Awaited
  <2>4. Return(c, Head(respCh))
    BY <2>1, <2>3
  <2>5. CASE c = "sync"
    <3>1. cmd[c].op = "sync"
      BY <1>a, <2>1, <2>5 DEF RequestLocked, OpsOf
    <3>2. Head(respCh).kind \in {"msg", "none"}
      BY <2>1, <2>2, <2>3, <2>5, <3>1 DEF Wants
    <3>3. cmdMu' # "sync" /\ pc'["sync"] = "got" /\ reply'["sync"] = Head(respCh)
      BY <1>b, <2>4, <2>5 DEF Return
    <3> QED
      BY <2>1, <2>2, <2>5, <3>2, <3>3
  <2>6. CASE c # "sync"
    <3>1. cmdMu' # "sync" /\ pc'["sync"] = pc["sync"] /\ reply'["sync"] = reply["sync"]
      BY <1>b, <2>4, <2>6 DEF Return
    <3> QED
      BY <2>1, <2>2, <3>1
  <2> QED
    BY <2>5, <2>6
<1>3. ASSUME NEW c \in Clients, Timeout(c)
      PROVE  SyncInv'
  <2>1. /\ UNCHANGED <<inbox, syncTrigger, toDevice, toHost, respCh, alive>> /\ alive
        /\ pc[c] = "wait" /\ cmdMu = c /\ Return(c, Answer("failed", c)) /\ ~Due(c)
    BY <1>3, <1>a, NothingIsLate DEF Timeout, Prompt, RequestLocked
  <2>2. /\ \A i \in 1..Len(toDevice) : toDevice[i].by # c
        /\ \A i \in 1..Len(toHost) : toHost[i].by # c
        /\ \A i \in 1..Len(respCh) : respCh[i].by # c
    BY <2>1, NothingDue
  <2>3. CASE c = "sync"
    <3>1. toDevice = <<>>
      <4>1. SUFFICES ASSUME toDevice # <<>> PROVE FALSE
        OBVIOUS
      <4>2. Head(toDevice) = toDevice[1] /\ 1 \in 1..Len(toDevice)
        BY <1>b, <4>1
      <4>3. toDevice[1].by = c
        BY <1>a, <1>b, <2>1, <4>1, <4>2 DEF OneUnderWay, Command
      <4> QED
        BY <2>2, <4>2, <4>3
    <3>2. respCh = <<>>
      <4>1. SUFFICES ASSUME respCh # <<>> PROVE FALSE
        OBVIOUS
      <4>2. Head(respCh) = respCh[1] /\ 1 \in 1..Len(respCh)
        BY <1>b, <4>1
      <4>3. Head(respCh).by = c
        BY <1>a, <2>1, <4>1 DEF OneUnderWay, Awaited
      <4> QED
        BY <2>2, <4>2, <4>3
    <3>3. \A f \in ToSet(toHost) : ~IsAnswer(f)
      BY <1>a, <1>c, <2>1, <2>2 DEF OneUnderWay, Awaited
    <3> QED
      BY <2>1, <2>3, <3>1, <3>2, <3>3
  <2>4. CASE c # "sync"
    <3>1. cmdMu' # "sync" /\ pc'["sync"] = pc["sync"] /\ reply'["sync"] = reply["sync"]
      BY <1>b, <2>1, <2>4 DEF Return
    <3> QED
      BY <2>1, <3>1
  <2> QED
    BY <2>3, <2>4
<1>4. ASSUME NEW c \in Clients, FailClosed(c)
      PROVE  SyncInv'
  BY <1>b, <1>4 DEF FailClosed, Return
<1>5. ASSUME NEW c \in Clients, Begin(c)
      PROVE  SyncInv'
  BY <1>b, <1>5 DEF Begin, Ask
<1>6. ASSUME NEW c \in Clients, End(c)
      PROVE  SyncInv'
  BY <1>b, <1>6 DEF End
<1>7. CASE ReadFrame
  <2>1. /\ toHost # <<>> /\ toHost' = Tail(toHost)
        /\ UNCHANGED <<inbox, toDevice, alive, pc, reply, cmdMu>>
        /\ IF IsAnswer(Head(toHost))
           THEN /\ respCh' = IF respCh = <<>> THEN <<Head(toHost)>> ELSE respCh
                /\ syncTrigger' = syncTrigger
           ELSE syncTrigger' = TRUE /\ respCh' = respCh
    BY <1>7 DEF ReadFrame, IsAnswer
  <2>2. ToSet(toHost) = {Head(toHost)} \cup ToSet(toHost')
    BY <1>b, <2>1, TailElements
  <2>3. CASE IsAnswer(Head(toHost))
    <3>1. respCh' # <<>> /\ ToSet(respCh') \subseteq ToSet(respCh) \cup {Head(toHost)}
      <4>1. <<Head(toHost)>> # <<>> /\ ToSet(<<Head(toHost)>>) = {Head(toHost)}
        BY DEF ToSet
      <4> QED
        BY <2>1, <2>3, <4>1
    <3>2. Head(toHost).kind # "waiting"
      BY <2>3 DEF IsAnswer
    <3> QED
      BY <2>1, <2>2, <2>3, <3>1, <3>2
  <2>4. CASE ~IsAnswer(Head(toHost))
    BY <2>1, <2>2, <2>4
  <2> QED
    BY <2>3, <2>4
<1>8. CASE Wake
  BY <1>b, <1>8 DEF Wake, Ask
<1>9. CASE Drain
  <2>1. /\ UNCHANGED <<inbox, syncTrigger, toDevice, toHost, respCh, alive, reply, cmdMu>>
        /\ pc["sync"] = "got"
        /\ pc' = [pc EXCEPT !["sync"] = IF reply["sync"].kind = "msg" THEN "want" ELSE "idle"]
    BY <1>9 DEF Drain
  <2> QED
    BY <1>b, <2>1
<1>10. ASSUME NEW s \in Channels, Register(s)
      PROVE  SyncInv'
  BY <1>b, <1>10 DEF Register, Ask
<1>11. CASE PrivateScanned \/ PublicScanned
  <2>1. UNCHANGED <<inbox, syncTrigger, toDevice, toHost, respCh, alive, reply, cmdMu>>
    BY <1>11 DEF PrivateScanned, PublicScanned
  <2>2. pc'["sync"] = pc["sync"]
    BY <1>b, <1>11, ScanStep
  <2> QED
    BY <2>1, <2>2
<1>13. CASE SlotSet
  BY <1>b, <1>13 DEF SlotSet, Registered, NotRegistered
<1>14. CASE TakeMessage
  BY <1>14 DEF TakeMessage
<1>15. CASE DeviceAnswers
  <2> DEFINE k == Head(toDevice)
  <2>1. /\ toDevice # <<>> /\ UNCHANGED <<syncTrigger, respCh, alive, pc, reply, cmdMu>>
        /\ \/ /\ toHost' = Append(toHost, Result(k))
              /\ inbox' = IF k.op = "sync" /\ inbox # <<>> THEN Tail(inbox) ELSE inbox
           \/ /\ k.op \in Refused /\ toHost' = Append(toHost, Answer("err", k.by))
              /\ UNCHANGED inbox
           \/ k.op \in Ignored /\ UNCHANGED <<toHost, inbox>>
    BY <1>15 DEF DeviceAnswers
  <2>2. /\ cmdMu \in Clients /\ k = [cmd[cmdMu] EXCEPT !.by = cmdMu]
        /\ respCh = <<>> /\ \A f \in ToSet(toHost) : ~IsAnswer(f)
    BY <1>a, <1>c, <2>1 DEF OneUnderWay
  <2>3. k \in Command /\ k.op = cmd[cmdMu].op
    BY <1>b, <2>2 DEF Command
  <2> HIDE DEF k
  <2>4. pc[cmdMu] = "wait" /\ k.op \in OpsOf(cmdMu) /\ (pc["sync"] = "wait" => cmdMu = "sync")
    BY <1>a, <2>2, <2>3 DEF RequestLocked
  <2>5. Result(k) \in Frame /\ Answer("err", k.by) \in Frame
    BY <2>3, ResultTyped, AnswersTyped DEF Kinds, Command
  <2>6. CASE cmdMu = "sync"
    <3>1. /\ k.op = "sync" /\ toHost' = Append(toHost, Result(k))
          /\ inbox' = IF inbox # <<>> THEN Tail(inbox) ELSE inbox
      BY <2>1, <2>4, <2>6 DEF SyncServed, OpsOf
    <3>2. ToSet(toHost') = ToSet(toHost) \cup {Result(k)}
      BY <1>b, <2>5, <3>1, AppendElements
    <3>3. /\ Result(k).kind \notin {"err", "waiting"}
          /\ inbox # <<>> => Result(k).kind = "msg"
      BY <2>3, <3>1, ResultTyped
    <3>4. \A f \in ToSet(toHost) : f.kind = "waiting"
      BY <2>2 DEF IsAnswer
    <3>5. ToSet(respCh') = {}
      BY <1>c, <2>1, <2>2
    <3>6. SyncUnderWay'
      BY <2>1, <3>2, <3>3, <3>4, <3>5 DEF IsAnswer
    <3>7. Watched'
      BY <2>1, <2>4, <2>6, <3>1, <3>2, <3>3, <3>4, <3>5
    <3> QED
      BY <3>6, <3>7
  <2>7. CASE cmdMu # "sync"
    <3>1. inbox' = inbox /\ pc["sync"] # "wait"
      BY <2>1, <2>2, <2>4, <2>7 DEF OpsOf
    <3>2. ToSet(toHost) \subseteq ToSet(toHost')
      <4>1. \A f \in Frame : ToSet(Append(toHost, f)) = ToSet(toHost) \cup {f}
        BY <1>b, AppendElements
      <4> QED
        BY <2>1, <2>5, <4>1
    <3> QED
      BY <2>1, <2>7, <3>1, <3>2
  <2> QED
    BY <2>6, <2>7
<1>16. CASE DeviceHears
  <2>1. /\ UNCHANGED <<syncTrigger, toDevice, respCh, alive, pc, reply, cmdMu>>
        /\ toHost' = Append(toHost, Answer("waiting", NoClient))
    BY <1>16 DEF DeviceHears
  <2>2. Answer("waiting", NoClient) \in Frame /\ Answer("waiting", NoClient).kind = "waiting"
    BY AnswersTyped DEF Kinds
  <2>3. ToSet(toHost') = ToSet(toHost) \cup {Answer("waiting", NoClient)}
    BY <1>b, <2>1, <2>2, AppendElements
  <2> QED
    BY <2>1, <2>2, <2>3
<1>17. CASE Disconnect
  BY <1>c, <1>17 DEF Disconnect
<1>18. CASE UNCHANGED vars
  BY <1>18 DEF vars
<1> HIDE DEF SyncInv
<1> QED
  BY <1>1, <1>2, <1>3, <1>4, <1>5, <1>6, <1>7, <1>8, <1>9, <1>10, <1>11, <1>13,
     <1>14, <1>15, <1>16, <1>17, <1>18 DEF Next, EndWait, SyncLoop, RunMeshcore

\* The run's properties, said of sets of messages.
LEMMA WatchedFrames ==
    ASSUME TypeOK
    PROVE  (NoMessageLost <=> NoneLost) /\ (InboxIsWatched <=> Watched)
<1>1. NoMessageLost <=> NoneLost
  <2>1. Fetched = (Msgs(toHost) \cup Msgs(respCh)) \cup Drained
    BY FetchedMsgs
  <2> QED
    BY <2>1 DEF NoMessageLost, NoneLost
<1>2. InboxIsWatched <=> Watched
  <2>1. toHost \in Seq(Frame) /\ respCh \in Seq(Frame)
    BY DEF TypeOK
  <2>2. ToSet(toHost \o respCh) = ToSet(toHost) \cup ToSet(respCh)
    BY <2>1, JoinedElements
  <2> QED
    BY <2>2 DEF InboxIsWatched, Draining, Watched, StillDraining
<1> QED
  BY <1>1, <1>2

\* While the device answers every sync in time, a message that it queues is
\* lost only where channelMsgCh is full or the connection goes, and none
\* waits on the device with nobody about to fetch it: sends, pings and
\* registrations may compete for cmdMu as they like, and other commands may be
\* refused or go unanswered.
THEOREM InboxIsKept ==
    ASSUME Prompt, SyncServed
    PROVE  Spec => []InboxKept
<1>1. Init => NoneLost /\ SyncInv
  <2>1. ToSet(<<>>) = {} /\ Msgs(<<>>) = {} /\ 1..0 = {}
    BY DEF ToSet, Msgs
  <2>2. SUFFICES ASSUME Init PROVE NoneLost /\ SyncInv
    OBVIOUS
  <2>3. NoneLost
    BY <2>1, <2>2 DEF Init, NoneLost, Drained, Clients
  <2>4. SyncInv
    BY <2>1, <2>2, SessionAssumption DEF Init, SyncInv, SyncUnderWay, Watched, Clients
  <2> QED
    BY <2>3, <2>4
<1>2. /\ TypeOK /\ RequestInv /\ NoneLost /\ [Next]_vars => NoneLost'
      /\ TypeOK /\ RequestInv /\ SyncInv /\ [Next]_vars => SyncInv'
  BY NoneLostStep, SyncStep
<1>3. TypeOK /\ NoneLost /\ SyncInv => InboxKept
  BY WatchedFrames DEF InboxKept, SyncInv
<1> QED
  BY <1>1, <1>2, <1>3, RequestInvariant, PTL DEF Spec

=============================================================================
