------------------------------ MODULE McSession ------------------------------
(***************************************************************************)
(* A live session with a MeshCore companion radio: one TCP connection that *)
(* carries commands one way, and the radio's answers and push notices the  *)
(* other.  request() sends a command under cmdMu and waits for a frame of  *)
(* a code it wants; readLoop hands every answer to whoever waits, through  *)
(* respCh, which holds one.  An answer names no command, so an answer that *)
(* comes after its request gave up can be taken for that of a later one.   *)
(*                                                                         *)
(* The requests come from the bridge's sends, the keepalive, syncLoop and  *)
(* the registration of channels.  The radio is modelled from its protocol  *)
(* as this package uses it.  A command or an answer is by the client whose *)
(* request it belongs to, as long as that waits for it.                    *)
(***************************************************************************)
EXTENDS Naturals, Sequences, FiniteSets, SequencesExt

CONSTANTS
    Public,      \* the public channel's secret
    Channels,    \* secrets of the configured channels
    Foreign,     \* secrets other tools keep on the device
    Empty,       \* a slot that was never configured
    Slots,       \* initial contents of the device's slots 0..MaxChannelSlots
    MaxMsgs,     \* bound: messages the device receives
    MsgCap,      \* capacity of channelMsgCh
    Refused,     \* commands the device may answer with an error
    Ignored,     \* commands the device may leave without an answer
    LateAnswers, \* can an answer come after its request gave up?
    MaxLate,     \* bound: late answers under way
    NoClient, NoSlot

MaxChannelSlots == Cardinality(DOMAIN Slots) - 1
Secrets == Channels \cup Foreign \cup {Empty}
SlotIdx == 0..MaxChannelSlots
Ops == {"send", "ping", "sync", "get", "set"}
Clients == {"send", "ping", "sync", "reg"}

ASSUME SessionAssumption ==
    /\ MaxChannelSlots \in Nat \ {0}
    /\ Slots \in [SlotIdx -> Secrets] /\ Empty \notin Channels \cup Foreign
    /\ Channels \cap Foreign = {}
    /\ MaxMsgs \in Nat /\ MsgCap \in Nat \ {0} /\ MaxLate \in Nat
    /\ Refused \subseteq Ops /\ Ignored \subseteq Ops /\ LateAnswers \in BOOLEAN
    /\ NoClient \notin Clients /\ NoSlot \notin SlotIdx

VARIABLES
    slots,       \* the device's channel slots
    inbox,       \* messages queued on the device
    heard,       \* messages the device has received
    toDevice,    \* commands under way
    toHost,      \* frames under way
    respCh,      \* Session.respCh
    syncTrigger, \* is there a token in Session.syncTrigger?
    msgCh,       \* Session.channelMsgCh
    cmdMu,       \* holder of Session.cmdMu
    pc,          \* pc[c]: where client c stands in its request
    cmd,         \* cmd[c]: its command
    reply,       \* reply[c]: what its request returned
    toReg,       \* channels yet to be registered
    reg,         \* the channel being registered, and the first empty slot seen
    hashBySlot,  \* hashBySlot[i]: the channel taken to be in slot i, or Empty
    alive,       \* is the connection up?
    received,    \* messages the bridge took from channelMsgCh
    dropped,     \* messages dropped because channelMsgCh was full
    missed       \* was an answer somebody waited for dropped by readLoop?

deviceVars == <<slots, inbox, heard>>
clientVars == <<cmdMu, pc, cmd, reply>>
regVars == <<toReg, reg, hashBySlot>>
syncVars == <<msgCh, received, dropped>>
vars == <<slots, inbox, heard, toDevice, toHost, respCh, syncTrigger, msgCh, cmdMu, pc, cmd,
          reply, toReg, reg, hashBySlot, alive, received, dropped, missed>>

Command == [op : Ops, slot : SlotIdx, secret : Secrets, by : Clients \cup {NoClient}]
Cmd(op) == [op |-> op, slot |-> 0, secret |-> Empty, by |-> NoClient]
GetChannel(i) == [Cmd("get") EXCEPT !.slot = i]
SetChannel(i, s) == [Cmd("set") EXCEPT !.slot = i, !.secret = s]

Kinds == {"ok", "err", "time", "info", "msg", "none", "waiting", "failed"}
Frame == {f \in [kind : Kinds, secret : Secrets, msg : 0..MaxMsgs, by : Clients \cup {NoClient}] :
             f.kind = "msg" => f.msg # 0}
Answer(kind, c) == [kind |-> kind, secret |-> Empty, msg |-> 0, by |-> c]

\* The answers request() accepts for a command.
Wants(op) ==
    CASE op \in {"send", "set"} -> {"ok", "err"}
      [] op = "ping" -> {"time", "err"}
      [] op = "get"  -> {"info", "err"}
      [] op = "sync" -> {"msg", "none", "err"}

Init ==
    /\ slots = Slots /\ inbox = <<>> /\ heard = 0
    /\ toDevice = <<>> /\ toHost = <<>> /\ respCh = <<>>
    /\ syncTrigger = FALSE /\ msgCh = <<>>
    /\ cmdMu = NoClient
    /\ pc = [c \in Clients |-> "idle"]
    /\ cmd = [c \in Clients |-> Cmd("ping")]
    /\ reply = [c \in Clients |-> Answer("failed", c)]
    /\ toReg = Channels
    /\ reg = [secret |-> Empty, empty |-> NoSlot]
    /\ hashBySlot = [i \in SlotIdx |-> Empty]
    /\ alive = TRUE
    /\ received = <<>> /\ dropped = {} /\ missed = FALSE

-----------------------------------------------------------------------------
(* request().                                                              *)

Ask(c, k) ==
    /\ pc' = [pc EXCEPT ![c] = "want"]
    /\ cmd' = [cmd EXCEPT ![c] = k]

\* A mutant of Write: cmdMu does not serialise the requests.
WriteUnlocked(c) ==
    /\ alive /\ pc[c] = "want"
    /\ cmdMu' = c
    /\ pc' = [pc EXCEPT ![c] = "wait"]
    /\ toDevice' = Append(toDevice, [cmd[c] EXCEPT !.by = c])
    /\ UNCHANGED <<deviceVars, toHost, respCh, syncTrigger, cmd, reply, regVars, alive,
                   syncVars, missed>>

\* cmdMu is taken and writeLoop writes the command.
Write(c) ==
    /\ alive /\ pc[c] = "want" /\ cmdMu = NoClient
    /\ cmdMu' = c
    /\ pc' = [pc EXCEPT ![c] = "wait"]
    /\ toDevice' = Append(toDevice, [cmd[c] EXCEPT !.by = c])
    /\ UNCHANGED <<deviceVars, toHost, respCh, syncTrigger, cmd, reply, regVars, alive,
                   syncVars, missed>>

Return(c, f) ==
    /\ pc' = [pc EXCEPT ![c] = "got"]
    /\ reply' = [reply EXCEPT ![c] = f]
    /\ cmdMu' = NoClient

\* An answer of a wanted code is returned, another discarded.
TakeAnswer(c) ==
    /\ pc[c] = "wait" /\ respCh # <<>>
    /\ respCh' = <<>>
    /\ IF Head(respCh).kind \in Wants(cmd[c].op)
       THEN Return(c, Head(respCh))
       ELSE UNCHANGED <<pc, reply, cmdMu>>
    /\ UNCHANGED <<deviceVars, toDevice, toHost, syncTrigger, cmd, regVars, alive, syncVars, missed>>

UnderWay == toDevice \o toHost \o respCh
Late(seq, c) == [i \in DOMAIN seq |->
    [seq[i] EXCEPT !.by = IF @ = c THEN NoClient ELSE @]]
Due(c) == \E f \in ToSet(UnderWay) : f.by = c

\* A mutant of Timeout: cmdMu is not released.
TimeoutLocked(c) ==
    /\ alive /\ pc[c] = "wait"
    /\ ~Due(c) \/ (LateAnswers /\ Len(UnderWay) <= MaxLate)
    /\ toDevice' = Late(toDevice, c) /\ toHost' = Late(toHost, c) /\ respCh' = Late(respCh, c)
    /\ pc' = [pc EXCEPT ![c] = "got"]
    /\ reply' = [reply EXCEPT ![c] = Answer("failed", c)]
    /\ UNCHANGED <<cmdMu, deviceVars, syncTrigger, cmd, regVars, alive, syncVars, missed>>

\* The wait is over: the answer is late, or never comes.
Timeout(c) ==
    /\ alive /\ pc[c] = "wait"
    /\ ~Due(c) \/ (LateAnswers /\ Len(UnderWay) <= MaxLate)
    /\ toDevice' = Late(toDevice, c) /\ toHost' = Late(toHost, c) /\ respCh' = Late(respCh, c)
    /\ Return(c, Answer("failed", c))
    /\ UNCHANGED <<deviceVars, syncTrigger, cmd, regVars, alive, syncVars, missed>>

\* The session is closed: whoever waits, or comes to ask, gets an error.
FailClosed(c) ==
    /\ ~alive
    /\ pc[c] = "wait" \/ (pc[c] = "want" /\ cmdMu = NoClient)
    /\ Return(c, Answer("failed", c))
    /\ UNCHANGED <<deviceVars, toDevice, toHost, respCh, syncTrigger, cmd, regVars, alive,
                   syncVars, missed>>

\* readLoop exits: whatever was still on the connection is lost.
Disconnect ==
    /\ alive
    /\ alive' = FALSE
    /\ toDevice' = <<>> /\ toHost' = <<>>
    /\ UNCHANGED <<deviceVars, respCh, syncTrigger, clientVars, regVars, syncVars, missed>>

-----------------------------------------------------------------------------
(* readLoop.                                                               *)

\* A mutant of ReadFrame: a push during a drain is taken for one of the
\* messages that are being drained.
ReadFrameUnlessDraining ==
    /\ toHost # <<>>
    /\ toHost' = Tail(toHost)
    /\ IF Head(toHost).kind = "waiting"
       THEN /\ syncTrigger' = (syncTrigger \/ pc["sync"] = "idle")
            /\ UNCHANGED <<respCh, missed>>
       ELSE /\ respCh' = IF respCh = <<>> THEN <<Head(toHost)>> ELSE respCh
            /\ missed' = (missed \/ (respCh # <<>> /\ Head(toHost).by # NoClient))
            /\ UNCHANGED syncTrigger
    /\ UNCHANGED <<deviceVars, toDevice, clientVars, regVars, alive, syncVars>>

\* A push wakes syncLoop; an answer goes to respCh, or nowhere if that is full.
ReadFrame ==
    /\ toHost # <<>>
    /\ toHost' = Tail(toHost)
    /\ IF Head(toHost).kind = "waiting"
       THEN /\ syncTrigger' = TRUE
            /\ UNCHANGED <<respCh, missed>>
       ELSE /\ respCh' = IF respCh = <<>> THEN <<Head(toHost)>> ELSE respCh
            /\ missed' = (missed \/ (respCh # <<>> /\ Head(toHost).by # NoClient))
            /\ UNCHANGED syncTrigger
    /\ UNCHANGED <<deviceVars, toDevice, clientVars, regVars, alive, syncVars>>

-----------------------------------------------------------------------------
(* The device.                                                             *)

\* The answer of a device that does what it is asked.
Result(k) ==
    CASE k.op \in {"send", "set"} -> Answer("ok", k.by)
      [] k.op = "ping" -> Answer("time", k.by)
      [] k.op = "get"  -> [Answer("info", k.by) EXCEPT !.secret = slots[k.slot]]
      [] k.op = "sync" -> IF inbox = <<>> THEN Answer("none", k.by)
                          ELSE [Answer("msg", k.by) EXCEPT !.msg = Head(inbox)]

\* It does so, refuses, or leaves the command without an answer.
DeviceAnswers ==
    LET k == Head(toDevice) IN
    /\ toDevice # <<>>
    /\ toDevice' = Tail(toDevice)
    /\ \/ /\ toHost' = Append(toHost, Result(k))
          /\ slots' = IF k.op = "set" THEN [slots EXCEPT ![k.slot] = k.secret] ELSE slots
          /\ inbox' = IF k.op = "sync" /\ inbox # <<>> THEN Tail(inbox) ELSE inbox
       \/ /\ k.op \in Refused
          /\ toHost' = Append(toHost, Answer("err", k.by))
          /\ UNCHANGED <<slots, inbox>>
       \/ k.op \in Ignored /\ UNCHANGED <<toHost, slots, inbox>>
    /\ UNCHANGED <<heard, respCh, syncTrigger, clientVars, regVars, alive, syncVars, missed>>

\* The device hears a message on one of its channels, queues it and says so.
DeviceHears ==
    /\ alive /\ heard < MaxMsgs
    /\ heard' = heard + 1
    /\ inbox' = Append(inbox, heard + 1)
    /\ toHost' = Append(toHost, Answer("waiting", NoClient))
    /\ UNCHANGED <<slots, toDevice, respCh, syncTrigger, clientVars, regVars, alive,
                   syncVars, missed>>

-----------------------------------------------------------------------------
(* Sends, the keepalive, and syncLoop.                                     *)

\* SendRawPacket, or a tick of keepAliveLoop.
Begin(c) ==
    /\ c \in {"send", "ping"} /\ pc[c] = "idle" /\ alive
    /\ Ask(c, Cmd(c))
    /\ UNCHANGED <<deviceVars, toDevice, toHost, respCh, syncTrigger, cmdMu, reply, regVars,
                   alive, syncVars, missed>>

End(c) ==
    /\ c \in {"send", "ping"} /\ pc[c] = "got"
    /\ pc' = [pc EXCEPT ![c] = "idle"]
    /\ UNCHANGED <<deviceVars, toDevice, toHost, respCh, syncTrigger, cmdMu, cmd, reply,
                   regVars, alive, syncVars, missed>>

\* syncLoop wakes up, by the trigger or by its ticker, and drains.
Wake ==
    /\ alive /\ pc["sync"] = "idle"
    /\ syncTrigger' \in {syncTrigger, FALSE} \* FALSE: the trigger's token was taken
    /\ Ask("sync", Cmd("sync"))
    /\ UNCHANGED <<deviceVars, toDevice, toHost, respCh, cmdMu, reply, regVars, alive,
                   syncVars, missed>>

\* drainMessages passes a message on, unless channelMsgCh is full, and asks
\* for the next, until there is none or the request fails.
Drain ==
    LET f == reply["sync"] IN
    /\ pc["sync"] = "got"
    /\ pc' = [pc EXCEPT !["sync"] = IF f.kind = "msg" THEN "want" ELSE "idle"]
    /\ IF f.kind # "msg" THEN UNCHANGED <<msgCh, dropped>>
       ELSE IF Len(msgCh) < MsgCap
            THEN msgCh' = Append(msgCh, f.msg) /\ UNCHANGED dropped
            ELSE dropped' = dropped \cup {f.msg} /\ UNCHANGED msgCh
    /\ UNCHANGED <<deviceVars, toDevice, toHost, respCh, syncTrigger, cmdMu, cmd, reply, regVars,
                   alive, received, missed>>

\* RunMeshcore takes a message; it does not before its channels are registered.
TakeMessage ==
    /\ toReg = {} /\ pc["reg"] = "idle" /\ msgCh # <<>>
    /\ msgCh' = Tail(msgCh)
    /\ received' = Append(received, Head(msgCh))
    /\ UNCHANGED <<deviceVars, toDevice, toHost, respCh, syncTrigger, clientVars, regVars,
                   alive, dropped, missed>>

-----------------------------------------------------------------------------
(* registerMeshcoreChannels.                                               *)

\* The next channel; the order of the configuration is left open.
Register(s) ==
    /\ pc["reg"] = "idle" /\ s \in toReg
    /\ toReg' = toReg \ {s}
    /\ reg' = [secret |-> s, empty |-> NoSlot]
    /\ Ask("reg", GetChannel(IF s = Public THEN 0 ELSE 1))
    /\ UNCHANGED <<deviceVars, toDevice, toHost, respCh, syncTrigger, cmdMu, reply, hashBySlot,
                   alive, syncVars, missed>>

Registered(i) ==
    /\ pc' = [pc EXCEPT !["reg"] = "idle"]
    /\ hashBySlot' = [hashBySlot EXCEPT ![i] = reg.secret]
    /\ UNCHANGED <<cmd, reg>>

NotRegistered ==
    /\ pc' = [pc EXCEPT !["reg"] = "idle"]
    /\ UNCHANGED <<cmd, reg, hashBySlot>>

Got(op) == pc["reg"] = "got" /\ cmd["reg"].op = op
Holds(secret) == reply["reg"].kind = "info" /\ reply["reg"].secret = secret
regUnchanged == <<deviceVars, toDevice, toHost, respCh, syncTrigger, cmdMu, reply, toReg,
                  alive, syncVars, missed>>

\* RegisterChannel, with slot i looked at: it holds this very secret; or the
\* scan goes on; or the first empty slot is claimed.
PrivateScanned ==
    LET i == cmd["reg"].slot
        empty == IF reg.empty = NoSlot /\ Holds(Empty) THEN i ELSE reg.empty
    IN /\ Got("get") /\ reg.secret # Public
       /\ \/ reply["reg"].kind = "failed" /\ NotRegistered
          \/ Holds(reg.secret) /\ Registered(i)
          \/ /\ reply["reg"].kind # "failed" /\ ~Holds(reg.secret)
             /\ \/ /\ i < MaxChannelSlots
                   /\ Ask("reg", GetChannel(i + 1))
                   /\ reg' = [reg EXCEPT !.empty = empty]
                   /\ UNCHANGED hashBySlot
                \/ /\ i = MaxChannelSlots /\ empty # NoSlot
                   /\ Ask("reg", SetChannel(empty, reg.secret))
                   /\ UNCHANGED <<reg, hashBySlot>>
                \/ i = MaxChannelSlots /\ empty = NoSlot /\ NotRegistered
       /\ UNCHANGED regUnchanged

\* A mutant of PublicScanned: the slot's contents are not looked at.
PublicOverwrites ==
    /\ Got("get") /\ reg.secret = Public
    /\ \/ reply["reg"].kind = "failed" /\ NotRegistered
       \/ Holds(Public) /\ Registered(0)
       \/ /\ reply["reg"].kind # "failed" /\ ~Holds(Public)
          /\ Ask("reg", SetChannel(0, Public))
          /\ UNCHANGED <<reg, hashBySlot>>
    /\ UNCHANGED regUnchanged

\* RegisterPublicChannel: slot 0 or none.  An error for an answer does not
\* stop it.
PublicScanned ==
    /\ Got("get") /\ reg.secret = Public
    /\ \/ reply["reg"].kind = "failed" /\ NotRegistered
       \/ Holds(Public) /\ Registered(0)
       \/ /\ reply["reg"].kind = "info" /\ ~Holds(Public) /\ ~Holds(Empty)
          /\ NotRegistered
       \/ /\ reply["reg"].kind = "err" \/ Holds(Empty)
          /\ Ask("reg", SetChannel(0, Public))
          /\ UNCHANGED <<reg, hashBySlot>>
    /\ UNCHANGED regUnchanged

\* A mutant of SlotSet: the device's answer is not looked at.
SlotSetUnchecked ==
    /\ Got("set")
    /\ Registered(cmd["reg"].slot)
    /\ UNCHANGED regUnchanged

SlotSet ==
    /\ Got("set")
    /\ \/ reply["reg"].kind = "ok" /\ Registered(cmd["reg"].slot)
       \/ reply["reg"].kind # "ok" /\ NotRegistered
    /\ UNCHANGED regUnchanged

-----------------------------------------------------------------------------

EndWait(c) == TakeAnswer(c) \/ Timeout(c) \/ FailClosed(c)

SyncLoop == Wake \/ Drain
RunMeshcore ==
    \/ \E s \in Channels : Register(s)
    \/ PrivateScanned \/ PublicScanned \/ SlotSet \/ TakeMessage

Next ==
    \/ \E c \in Clients : Write(c) \/ EndWait(c) \/ Begin(c) \/ End(c)
    \/ ReadFrame \/ SyncLoop \/ RunMeshcore
    \/ DeviceAnswers \/ DeviceHears \/ Disconnect

\* Goroutines run, a mutex is handed to everyone who waits for it, waits end,
\* the ticker ticks, and the device gets to its commands.
Fairness ==
    /\ \A c \in Clients : SF_vars(Write(c)) /\ WF_vars(EndWait(c))
    /\ WF_vars(ReadFrame) /\ WF_vars(SyncLoop) /\ WF_vars(RunMeshcore)
    /\ WF_vars(DeviceAnswers)

Spec == Init /\ [][Next]_vars
FairSpec == Spec /\ Fairness

-----------------------------------------------------------------------------
(* Properties.                                                             *)

TypeOK ==
    /\ slots \in [SlotIdx -> Secrets] /\ hashBySlot \in [SlotIdx -> Channels \cup {Empty}]
    /\ heard \in 0..MaxMsgs
    /\ inbox \in Seq(1..MaxMsgs) /\ msgCh \in Seq(1..MaxMsgs) /\ received \in Seq(1..MaxMsgs)
    /\ Len(msgCh) <= MsgCap /\ dropped \subseteq 1..MaxMsgs
    /\ toDevice \in Seq(Command) /\ toHost \in Seq(Frame)
    /\ respCh \in Seq(Frame) /\ Len(respCh) <= 1
    /\ syncTrigger \in BOOLEAN /\ alive \in BOOLEAN /\ missed \in BOOLEAN
    /\ cmdMu \in Clients \cup {NoClient}
    /\ pc \in [Clients -> {"idle", "want", "wait", "got"}]
    /\ cmd \in [Clients -> Command] /\ reply \in [Clients -> Frame]
    /\ toReg \subseteq Channels
    /\ reg \in [secret : Channels \cup {Empty}, empty : SlotIdx \cup {NoSlot}]

\* request: what is returned is the answer to the caller's own command, never
\* the "delayed reply to an earlier command whose own wait already timed out".
\* It holds while no answer is late; refuted where a late one has a code that
\* a later command wants too.
AnswersOwnCommand == \A c \in Clients : pc[c] = "got" => reply[c].by = c

\* readLoop: an answer is dropped only if "nobody" is "waiting" for it.  It
\* holds while no answer is late; refuted where a late one still sits in
\* respCh when the awaited one comes.
NoAnswerMissed == ~missed

\* Both hold while answers are in time: each command gets its answer, and no other.
AnswersKept == AnswersOwnCommand /\ NoAnswerMissed

\* RegisterChannel "never touches a slot holding a different secret", and
\* RegisterPublicChannel refuses to.  It holds for a device that answers
\* CMD_GET_CHANNEL with the slot, or not at all; refuted where answers are
\* late.
ForeignSlotsKept == \A i \in SlotIdx : Slots[i] \in Foreign => slots[i] = Slots[i]

\* A slot that messages are attributed to a channel by holds that channel.
SlotsAreKnown == \A i \in SlotIdx : hashBySlot[i] # Empty => slots[i] = hashBySlot[i]

\* Messages on their way from the device's queue to RunMeshcore.
Fetched ==
    {f.msg : f \in {g \in ToSet(toHost \o respCh) : g.kind = "msg"}} \cup
    (IF pc["sync"] = "got" /\ reply["sync"].kind = "msg" THEN {reply["sync"].msg} ELSE {})

\* A message queued on the device is lost only if channelMsgCh is full, or the
\* connection goes.
NoMessageLost ==
    alive => 1..heard = ToSet(inbox) \cup Fetched \cup ToSet(msgCh) \cup ToSet(received) \cup dropped

\* A message that waits on the device is never forgotten until the next tick:
\* a push is under way, or syncLoop's trigger is set, or a drain "is already
\* pending/in progress; it'll pick up this message too" (readLoop).
Draining ==
    \/ pc["sync"] = "want"
    \/ pc["sync"] = "wait" /\ \A f \in ToSet(toHost \o respCh) : f.kind # "none"
    \/ pc["sync"] = "got" /\ reply["sync"].kind = "msg"
InboxIsWatched ==
    alive /\ inbox # <<>> =>
        syncTrigger \/ Draining \/ \E f \in ToSet(toHost) : f.kind = "waiting"

\* Both hold: what the device queues is watched over until it is received.
InboxKept == NoMessageLost /\ InboxIsWatched

\* Every message queued on the device is fetched while the connection lasts,
\* whatever sends, pings and registrations compete for cmdMu.
EventuallySynced == inbox # <<>> ~> inbox = <<>> \/ ~alive

\* Every request returns.
EventuallyReturns == \A c \in Clients : pc[c] \in {"want", "wait"} ~> pc[c] \in {"got", "idle"}

\* Both hold: nobody who asks, and nothing that waits to be asked for, is left waiting.
EventuallyServed == EventuallySynced /\ EventuallyReturns
=============================================================================
