---------------------------- MODULE InboundProofs ----------------------------
(***************************************************************************)
(* Proofs about Inbound: what the path from the MeshCore radio to the      *)
(* mappings keeps, for any packets, mappings, scopes and channel tables.   *)
(*                                                                         *)
(* A packet is known once it is in recentInbound, and stays known (gone)   *)
(* when the sweep forgets it.  Everything rests on one fact about the      *)
(* delivery in progress: between its duplicate check and its fan-out the   *)
(* packet is known, but nothing was relayed of it yet.                     *)
(***************************************************************************)
EXTENDS Inbound, FiniteSetTheorems, TLAPS

Known == recentInbound \cup gone

\* p's first delivery is between its duplicate check and its fan-out.
Working(p) == rx.pkt = p /\ rx.pc \in {"content", "fanout"}

\* A send of ours is known before it can be heard, and stays known.
OwnKnown ==
    /\ \A p \in Own : own[p] # "new" => p \in Known
    /\ rx.pkt \in Own => rx.pkt \in recentInbound /\ ~Working(rx.pkt)
    /\ relayed \cap Own = {}

\* What the place of RunMeshcore in a delivery says of its packet.
RxKnown ==
    /\ rx.pkt \notin gone
    /\ rx.pc \in {"release", "content", "fanout"} => rx.pkt \in recentInbound
    /\ rx.pc \in {"release", "content", "fanout"} /\ rx.raw => rx.pkt \in rawSeen
    /\ rx.pc = "release" => rx.raw
    /\ Working(rx.pkt) /\ rx.pkt \in rawSeen => rx.raw
    /\ rawSeen \subseteq Known

\* A hold is the only one of its packet, its timer is armed, and the mappings
\* it is for have got nothing.
HoldsPending ==
    \A h \in scopeHolds :
        /\ h.pkt \in recentInbound /\ h.pkt \in holdTimers /\ h.pkt \notin Own
        /\ ~Working(h.pkt)
        /\ \A g \in scopeHolds : g.pkt = h.pkt => g = h
        /\ \A m \in h.mappings : m \notin Unscoped /\ posted[m][h.pkt] = 0

\* Nothing was relayed of a packet before its fan-out.
FreshUnrelayed ==
    \A p \in Packets : p \notin Known \/ Working(p) =>
        /\ \A m \in Mappings : posted[m][p] = 0 /\ <<m, p>> \notin relayQ
        /\ \A i \in Indexes : airedMt[i][p] = 0

\* Only texts of ours wait for an echo.
OwnTexts == {TextOf[o] : o \in Own}
EchoesAreOurs ==
    /\ \A t \in Texts \ OwnTexts : recentOutbound[t] = 0
    /\ rx.pc = "echoed" => TextOf[rx.pkt] \in OwnTexts

\* After its fan-out a message is posted where it may be, or still held there.
PostedOrHeld ==
    \A p \in Packets \ Own, m \in Discord :
        /\ p \in recentInbound \ merged /\ ~Working(p)
        /\ TextOf[p] \notin OwnTexts
        /\ posted[m][p] # 1
        => /\ m \notin Unscoped
           /\ ScopeAllowed(m, p) /\ p \notin expired =>
                /\ \E h \in scopeHolds : h.pkt = p /\ m \in h.mappings
                /\ p \in rawSeen => rx.pc = "release" /\ rx.pkt = p

\* While a device is attached: relays that wait for one Meshtastic channel
\* are for different packets, none of which was sent there, and a hold's
\* relayedIdx names every channel its packet went to.
ChannelsClaimed ==
    /\ \A e \in relayQ : e[1] \in ToMeshtastic(Mappings)
    /\ mtSession # NoSession =>
        /\ \A e, f \in relayQ :
              e[2] = f[2] /\ IndexOf(e[1]) = IndexOf(f[1]) /\ IndexOf(e[1]) # NoIdx => e = f
        /\ \A e \in relayQ : IndexOf(e[1]) # NoIdx => airedMt[IndexOf(e[1])][e[2]] = 0
        /\ \A h \in scopeHolds : \A i \in Indexes \ h.relayedIdx :
              /\ airedMt[i][h.pkt] = 0
              /\ \A e \in relayQ : e[2] = h.pkt => IndexOf(e[1]) # i

\* A text is remembered because a packet of it was relayed, or is about to be.
RememberedRelayed ==
    \A t \in recentContent :
        \/ \E p \in relayed : TextOf[p] = t
        \/ rx.pc = "fanout" /\ TextOf[rx.pkt] = t

PacketInv == OwnKnown /\ RxKnown /\ HoldsPending /\ FreshUnrelayed

-----------------------------------------------------------------------------
(* What relaying adds.                                                     *)

\* Relaying p to the mappings S posts it once more to each webhook of S and
\* enqueues it at most once for a channel index, and for none in claimed.
LEMMA Relaying ==
    ASSUME TypeOK, NEW S \in SUBSET Mappings, NEW p \in Packets, NEW claimed,
           RelayTo(S, p, claimed)
    PROVE  /\ \A m \in Mappings, x \in Packets :
                 posted'[m][x] = IF m \in S \cap Discord /\ x = p
                                 THEN posted[m][x] + 1 ELSE posted[m][x]
           /\ posted' \in [Mappings -> [Packets -> Nat]]
           /\ relayQ \subseteq relayQ'
           /\ \A e \in relayQ' \ relayQ :
                 /\ e \in Mappings \X Packets /\ e[2] = p /\ e[1] \in ToMeshtastic(S)
                 /\ IndexOf(e[1]) \in claimed => IndexOf(e[1]) = NoIdx
           /\ \A e, f \in relayQ' \ relayQ :
                 IndexOf(e[1]) = IndexOf(f[1]) /\ IndexOf(e[1]) # NoIdx => e = f
           /\ relayed' = IF S = {} THEN relayed ELSE relayed \cup {p}
<1>0. PICK R \in Relays(S, claimed) : \E Q \in SUBSET R : relayQ' = relayQ \cup {<<m, p>> : m \in Q}
  BY DEF RelayTo
<1>1. PICK Q \in SUBSET R : relayQ' = relayQ \cup {<<m, p>> : m \in Q}
  BY <1>0
<1>2. /\ R \subseteq ToMeshtastic(S)
      /\ \A i \in Claims(S) :
            Cardinality({m \in R : IndexOf(m) = i}) = IF i \in claimed THEN 0 ELSE 1
  BY DEF Relays
<1>3. IsFiniteSet(R)
  BY <1>2, FS_Subset, InboundAssumption DEF ToMeshtastic
<1>4. ASSUME NEW m \in R, IndexOf(m) # NoIdx
      PROVE  /\ IndexOf(m) \notin claimed
             /\ \A n \in R : IndexOf(n) = IndexOf(m) => n = m
  <2> DEFINE T == {n \in R : IndexOf(n) = IndexOf(m)}
  <2>1. IndexOf(m) \in Claims(S)
    BY <1>2, <1>4 DEF Claims
  <2>2. IsFiniteSet(T) /\ m \in T
    BY <1>3, FS_Subset
  <2>3. Cardinality(T) # 0
    BY <2>2, FS_EmptySet
  <2>4. Cardinality(T) = 1 /\ IndexOf(m) \notin claimed
    BY <1>2, <2>1, <2>3
  <2>5. PICK x : T = {x}
    BY <2>2, <2>4, FS_Singleton
  <2> QED
    BY <2>2, <2>4, <2>5
<1>5. \A e \in relayQ' \ relayQ : e[1] \in Q /\ e[1] \in R /\ e = <<e[1], p>>
  BY <1>1
<1>6. \A e \in relayQ' \ relayQ :
        /\ e \in Mappings \X Packets /\ e[2] = p /\ e[1] \in ToMeshtastic(S)
        /\ IndexOf(e[1]) \in claimed => IndexOf(e[1]) = NoIdx
  BY <1>2, <1>4, <1>5 DEF ToMeshtastic
<1>7. \A e, f \in relayQ' \ relayQ :
        IndexOf(e[1]) = IndexOf(f[1]) /\ IndexOf(e[1]) # NoIdx => e = f
  BY <1>4, <1>5
<1>8. /\ \A m \in Mappings, x \in Packets :
            posted'[m][x] = IF m \in S \cap Discord /\ x = p
                            THEN posted[m][x] + 1 ELSE posted[m][x]
      /\ posted' \in [Mappings -> [Packets -> Nat]]
  BY DEF RelayTo, TypeOK
<1> QED
  BY <1>1, <1>6, <1>7, <1>8 DEF RelayTo

-----------------------------------------------------------------------------
(* Types.                                                                  *)

\* Mappings resolve to channels of the session, or to none.
LEMMA ChannelsTyped ==
    ASSUME TypeOK
    PROVE  /\ \A m \in ToMeshtastic(Mappings) : IndexOf(m) \in Indexes \cup {NoIdx}
           /\ \A S \in SUBSET Mappings : Claims(S) \in SUBSET Indexes
           /\ NoIdx \notin Indexes
BY DEF TypeOK, ToMeshtastic, IndexOf, Indexes, Names, Claims

\* Giving up one outbound mark keeps the counts natural, and adds none.
LEMMA GivenUp ==
    ASSUME TypeOK, NEW t \in Texts, GiveUpOne(t)
    PROVE  /\ recentOutbound' \in [Texts -> Nat]
           /\ \A x \in Texts : recentOutbound[x] = 0 => recentOutbound'[x] = 0
<1>1. CASE recentOutbound[t] = 0
  BY <1>1 DEF TypeOK, GiveUpOne
<1>2. CASE recentOutbound[t] # 0
  <2>1. recentOutbound \in [Texts -> Nat] /\ recentOutbound[t] - 1 \in Nat
    BY <1>2 DEF TypeOK
  <2>2. recentOutbound' = [recentOutbound EXCEPT ![t] = recentOutbound[t] - 1]
    BY <1>2 DEF GiveUpOne
  <2> QED
    BY <2>1, <2>2, <1>2
<1> QED
  BY <1>1, <1>2

\* Fanning a message out keeps the types.
LEMMA FanOutTyped == ASSUME TypeOK, FanOut PROVE TypeOK'
<1> DEFINE p == rx.pkt
           open == OpenTo(p, rx.raw)
           held == IF rx.raw THEN {} ELSE Mappings \ Unscoped
<1>1. rx \in Delivery /\ p \in Packets /\ open \in SUBSET Mappings /\ held \in SUBSET Mappings
  BY DEF FanOut, TypeOK, Delivery, Idle, OpenTo, Unscoped
<1>2. RelayTo(open, p, {})
  BY DEF FanOut
<1>3. posted' \in [Mappings -> [Packets -> Nat]]
  BY <1>1, <1>2, Relaying
<1>4. \A e \in relayQ' \ relayQ : e \in Mappings \X Packets
  BY <1>1, <1>2, Relaying
<1>5. relayed' = IF open = {} THEN relayed ELSE relayed \cup {p}
  BY <1>1, <1>2, Relaying
<1>6. [pkt |-> p, mappings |-> held, relayedIdx |-> Claims(open)] \in Hold
  BY <1>1, ChannelsTyped DEF Hold
<1>7. scopeHolds' \subseteq Hold /\ holdTimers' \subseteq Packets /\ expired' \subseteq Packets
  BY <1>1, <1>6 DEF FanOut, TypeOK, holdVars
<1>8. /\ rx' = Idle
      /\ UNCHANGED <<keyVars, own, gone, mtSession, airedMt, rawSeen, merged>>
  BY DEF FanOut
<1> QED
  BY <1>1, <1>3, <1>4, <1>5, <1>7, <1>8 DEF TypeOK, keyVars

\* Releasing a held message keeps the types.
LEMMA ReleaseTyped == ASSUME TypeOK, ReleaseScopeHold PROVE TypeOK'
<1> DEFINE H == {h \in scopeHolds : h.pkt = rx.pkt}
<1>1. rx \in Delivery /\ rx.pkt \in Packets
  BY DEF ReleaseScopeHold, TypeOK, Delivery, Idle
<1>2. CASE H = {}
  BY <1>2 DEF ReleaseScopeHold, TypeOK, relayVars, keyVars
<1>3. CASE H # {}
  <2>1. PICK h \in H : RelayTo({m \in h.mappings : ScopeAllowed(m, rx.pkt)}, rx.pkt, h.relayedIdx)
    BY <1>3 DEF ReleaseScopeHold
  <2>2. {m \in h.mappings : ScopeAllowed(m, rx.pkt)} \in SUBSET Mappings
    BY DEF TypeOK, Hold
  <2>3. posted' \in [Mappings -> [Packets -> Nat]]
    BY <1>1, <2>1, <2>2, Relaying
  <2>4. \A e \in relayQ' \ relayQ : e \in Mappings \X Packets
    BY <1>1, <2>1, <2>2, Relaying
  <2>5. relayed' \in SUBSET Packets
    BY <1>1, <2>1 DEF RelayTo, TypeOK
  <2>6. /\ rx' = Idle /\ scopeHolds' \subseteq scopeHolds
        /\ UNCHANGED <<keyVars, holdTimers, expired, own, gone, mtSession, airedMt, rawSeen, merged>>
    BY <1>3 DEF ReleaseScopeHold
  <2> QED
    BY <2>3, <2>4, <2>5, <2>6 DEF TypeOK, keyVars
<1> QED
  BY <1>2, <1>3

\* Type correctness: what each variable of the inbound path holds.
THEOREM InboundTypes == Spec => []TypeOK
<1>1. Init => TypeOK
  BY InboundAssumption DEF Init, TypeOK, Idle
<1>2. TypeOK /\ [Next]_vars => TypeOK'
  <2> SUFFICES ASSUME TypeOK, [Next]_vars PROVE TypeOK'
    OBVIOUS
  <2> USE DEF keyVars, holdVars, relayVars
  <2>1. ASSUME NEW p \in Packets, NEW raw \in BOOLEAN, NEW hop \in Hops, Receive(p, raw, hop)
        PROVE  TypeOK'
    BY <2>1 DEF Receive, TypeOK, Delivery
  <2>2. CASE ConsumeSelfEcho
    <3>1. rx \in Delivery /\ TextOf[rx.pkt] \in Texts
      BY <2>2 DEF ConsumeSelfEcho, TypeOK, Delivery, Idle, Texts
    <3>2. rx' \in Delivery
      BY <2>2, <3>1 DEF ConsumeSelfEcho, Delivery
    <3>3. recentOutbound' \in [Texts -> Nat]
      BY <2>2, <3>1 DEF ConsumeSelfEcho, TypeOK, GiveUpOne
    <3> QED
      BY <2>2, <3>2, <3>3 DEF ConsumeSelfEcho, TypeOK
  <2>3. CASE SuppressEcho
    BY <2>3 DEF SuppressEcho, TypeOK, Delivery, Idle
  <2>4. CASE IsDuplicateInbound
    <3>1. rx \in Delivery /\ rx.pkt \in Packets
      BY <2>4 DEF IsDuplicateInbound, TypeOK, Delivery, Idle
    <3>2. rx' \in Delivery \cup {Idle}
      BY <2>4, <3>1 DEF IsDuplicateInbound, Delivery
    <3> QED
      BY <2>4, <3>1, <3>2 DEF IsDuplicateInbound, TypeOK
  <2>5. CASE IsRepeatedContent
    <3>1. rx \in Delivery /\ rx.pkt \in Packets /\ TextOf[rx.pkt] \in Texts
      BY <2>5 DEF IsRepeatedContent, TypeOK, Delivery, Idle, Texts
    <3>2. rx' \in Delivery \cup {Idle}
      BY <2>5, <3>1 DEF IsRepeatedContent, Delivery
    <3> QED
      BY <2>5, <3>1, <3>2 DEF IsRepeatedContent, TypeOK
  <2>6. CASE FanOut
    BY <2>6, FanOutTyped
  <2>7. CASE ReleaseScopeHold
    BY <2>7, ReleaseTyped
  <2>8. ASSUME NEW p \in Own, MarkOwnPacket(p)
        PROVE  TypeOK'
    BY <2>8, InboundAssumption DEF MarkOwnPacket, TypeOK
  <2>9. ASSUME NEW p \in Own, MarkOutboundSent(p)
        PROVE  TypeOK'
    BY <2>9, InboundAssumption DEF MarkOutboundSent, TypeOK, Texts
  <2>10. ASSUME NEW p \in Own, SendReturns(p)
         PROVE  TypeOK'
    <3>1. TextOf[p] \in Texts
      BY InboundAssumption DEF Texts
    <3>2. recentOutbound' \in [Texts -> Nat]
      BY <2>10, <3>1, GivenUp DEF SendReturns, TypeOK
    <3>3. own' \in [Own -> {"new", "marked", "sending", "sent", "released", "over"}]
      BY <2>10 DEF SendReturns, TypeOK
    <3>4. UNCHANGED <<recentInbound, recentContent, holdVars, rx, gone, mtSession,
                      relayVars, airedMt, rawSeen, merged>>
      BY <2>10 DEF SendReturns
    <3> QED
      BY <3>2, <3>3, <3>4 DEF TypeOK
  <2>11. ASSUME NEW p \in Own, RetryCheck(p)
         PROVE  TypeOK'
    <3>1. TextOf[p] \in Texts
      BY InboundAssumption DEF Texts
    <3>2. recentOutbound' \in [Texts -> Nat]
      BY <2>11, <3>1, GivenUp DEF RetryCheck, TypeOK
    <3>3. own' \in [Own -> {"new", "marked", "sending", "sent", "released", "over"}]
      BY <2>11 DEF RetryCheck, TypeOK
    <3>4. UNCHANGED <<recentInbound, recentContent, holdVars, rx, gone, mtSession,
                      relayVars, airedMt, rawSeen, merged>>
      BY <2>11 DEF RetryCheck
    <3> QED
      BY <3>2, <3>3, <3>4 DEF TypeOK
  <2>12. ASSUME NEW m \in Mappings, NEW p \in Packets, SendMeshtastic(m, p)
         PROVE  TypeOK'
    <3>1. airedMt' \in [Indexes -> [Packets -> Nat]]
      <4>1. CASE IndexOf(m) \in Indexes
        BY <2>12, <4>1 DEF SendMeshtastic, TypeOK
      <4>2. CASE IndexOf(m) \notin Indexes
        BY <2>12, <4>2 DEF SendMeshtastic, TypeOK
      <4> QED
        BY <4>1, <4>2
    <3> QED
      BY <2>12, <3>1 DEF SendMeshtastic, TypeOK
  <2>13. ASSUME NEW p \in Packets, HoldExpires(p)
         PROVE  TypeOK'
    BY <2>13 DEF HoldExpires, TypeOK
  <2>14. ASSUME NEW P \in SUBSET recentInbound, NEW T \in SUBSET Texts,
                NEW C \in SUBSET recentContent, Sweep(P, T, C)
         PROVE  TypeOK'
    BY <2>14 DEF Sweep, TypeOK
  <2>15. ASSUME NEW table \in Tables \cup {NoSession}, SetMeshtasticSession(table)
         PROVE  TypeOK'
    BY <2>15 DEF SetMeshtasticSession, TypeOK
  <2>16. CASE UNCHANGED vars
    BY <2>16 DEF vars, TypeOK
  <2> QED
    BY <2>1, <2>2, <2>3, <2>4, <2>5, <2>6, <2>7, <2>8, <2>9, <2>10, <2>11, <2>12, <2>13,
       <2>14, <2>15, <2>16 DEF Next, Rx, Tx
<1> QED
  BY <1>1, <1>2, PTL DEF Spec

-----------------------------------------------------------------------------
(* The two steps that relay.                                               *)

OpenNow == OpenTo(rx.pkt, rx.raw)

\* A fan-out posts its packet once to each webhook that is open to it and,
\* unless it came with its scope, holds it for the mappings with rx_scopes.
LEMMA FanOutEffect ==
    ASSUME TypeOK, FanOut
    PROVE  /\ rx \in Delivery /\ rx.pkt \in Packets /\ rx.pc = "fanout" /\ rx' = Idle
           /\ UNCHANGED <<keyVars, own, gone, mtSession, airedMt, rawSeen, merged, expired>>
           /\ OpenNow \in SUBSET Mappings /\ Unscoped \subseteq OpenNow
           /\ \A m \in OpenNow \ Unscoped : rx.raw /\ ScopeAllowed(m, rx.pkt)
           /\ \A m \in Mappings \ OpenNow : rx.raw => ~ScopeAllowed(m, rx.pkt)
           /\ \A m \in Mappings, x \in Packets :
                 posted'[m][x] = IF m \in OpenNow \cap Discord /\ x = rx.pkt
                                 THEN posted[m][x] + 1 ELSE posted[m][x]
           /\ relayQ \subseteq relayQ'
           /\ \A e \in relayQ' \ relayQ :
                 e \in Mappings \X Packets /\ e[2] = rx.pkt /\ e[1] \in ToMeshtastic(OpenNow)
           /\ \A e, f \in relayQ' \ relayQ :
                 IndexOf(e[1]) = IndexOf(f[1]) /\ IndexOf(e[1]) # NoIdx => e = f
           /\ relayed' = IF OpenNow = {} THEN relayed ELSE relayed \cup {rx.pkt}
           /\ holdTimers \subseteq holdTimers'
           /\ \A h \in scopeHolds : h.pkt # rx.pkt => h \in scopeHolds'
           /\ \A h \in scopeHolds' :
                 \/ h \in scopeHolds
                 \/ /\ ~rx.raw /\ rx.pkt \in holdTimers'
                    /\ h = [pkt |-> rx.pkt, mappings |-> Mappings \ Unscoped,
                            relayedIdx |-> Claims(OpenNow)]
           /\ \A m \in Mappings \ OpenNow :
                 ~rx.raw => \E h \in scopeHolds' : h.pkt = rx.pkt /\ m \in h.mappings
<1> DEFINE held == IF rx.raw THEN {} ELSE Mappings \ Unscoped
           new == [pkt |-> rx.pkt, mappings |-> held, relayedIdx |-> Claims(OpenNow)]
<1>1. rx \in Delivery /\ rx.pkt \in Packets /\ rx.raw \in BOOLEAN
  BY DEF FanOut, TypeOK, Delivery, Idle
<1>2. OpenNow \in SUBSET Mappings /\ Unscoped \subseteq OpenNow
  BY DEF OpenNow, OpenTo, Unscoped
<1>3. RelayTo(OpenNow, rx.pkt, {})
  BY DEF FanOut, OpenNow
<1>4. /\ \A m \in OpenNow \ Unscoped : rx.raw /\ ScopeAllowed(m, rx.pkt)
      /\ \A m \in Mappings \ OpenNow : rx.raw => ~ScopeAllowed(m, rx.pkt)
  BY DEF OpenNow, OpenTo
<1>5. /\ \A m \in Mappings, x \in Packets :
            posted'[m][x] = IF m \in OpenNow \cap Discord /\ x = rx.pkt
                            THEN posted[m][x] + 1 ELSE posted[m][x]
      /\ relayQ \subseteq relayQ'
      /\ \A e \in relayQ' \ relayQ :
            e \in Mappings \X Packets /\ e[2] = rx.pkt /\ e[1] \in ToMeshtastic(OpenNow)
      /\ \A e, f \in relayQ' \ relayQ :
            IndexOf(e[1]) = IndexOf(f[1]) /\ IndexOf(e[1]) # NoIdx => e = f
      /\ relayed' = IF OpenNow = {} THEN relayed ELSE relayed \cup {rx.pkt}
  BY <1>1, <1>2, <1>3, Relaying
<1>6. \/ held = {} /\ UNCHANGED <<scopeHolds, holdTimers, expired>>
      \/ /\ held # {} /\ UNCHANGED expired
         /\ scopeHolds' = {h \in scopeHolds : h.pkt # rx.pkt} \cup {new}
         /\ holdTimers' = holdTimers \cup {rx.pkt}
  BY DEF FanOut, OpenNow, holdVars
<1>7. \A h \in scopeHolds' :
         \/ h \in scopeHolds
         \/ ~rx.raw /\ rx.pkt \in holdTimers' /\ h = new
  BY <1>6
<1>8. \A m \in Mappings \ OpenNow :
         ~rx.raw => \E h \in scopeHolds' : h.pkt = rx.pkt /\ m \in h.mappings
  <2> SUFFICES ASSUME NEW m \in Mappings \ OpenNow, ~rx.raw
               PROVE  \E h \in scopeHolds' : h.pkt = rx.pkt /\ m \in h.mappings
    OBVIOUS
  <2>1. m \in held /\ new \in scopeHolds'
    BY <1>2, <1>6
  <2> QED
    BY <2>1
<1>9. rx.pc = "fanout" /\ rx' = Idle
      /\ UNCHANGED <<keyVars, own, gone, mtSession, airedMt, rawSeen, merged>>
  BY DEF FanOut
<1> QED
  BY <1>1, <1>2, <1>4, <1>5, <1>6, <1>7, <1>8, <1>9

\* The mappings of a hold that its packet's scope opens.
Opened(h) == {m \in h.mappings : ScopeAllowed(m, rx.pkt)}

\* The hold h is released.
Released(h) ==
    /\ h.pkt = rx.pkt /\ scopeHolds' = scopeHolds \ {h}
    /\ Opened(h) \in SUBSET Mappings
    /\ \A m \in Mappings, x \in Packets :
          posted'[m][x] = IF m \in Opened(h) \cap Discord /\ x = rx.pkt
                          THEN posted[m][x] + 1 ELSE posted[m][x]
    /\ relayQ \subseteq relayQ'
    /\ \A e \in relayQ' \ relayQ :
          /\ e \in Mappings \X Packets /\ e[2] = rx.pkt /\ e[1] \in ToMeshtastic(Opened(h))
          /\ IndexOf(e[1]) \in h.relayedIdx => IndexOf(e[1]) = NoIdx
    /\ \A e, f \in relayQ' \ relayQ :
          IndexOf(e[1]) = IndexOf(f[1]) /\ IndexOf(e[1]) # NoIdx => e = f
    /\ relayed' \in SUBSET (relayed \cup {rx.pkt}) /\ relayed \subseteq relayed'

\* A raw-log copy posts a packet that is held for it once to each webhook of
\* the hold whose mapping its scope opens.
LEMMA ReleaseEffect ==
    ASSUME TypeOK, HoldsPending, ReleaseScopeHold
    PROVE  /\ rx \in Delivery /\ rx.pkt \in Packets /\ rx.pc = "release" /\ rx' = Idle
           /\ UNCHANGED <<keyVars, holdTimers, expired, own, gone, mtSession, airedMt,
                          rawSeen, merged>>
           /\ \/ /\ \A g \in scopeHolds : g.pkt # rx.pkt
                 /\ UNCHANGED <<scopeHolds, relayVars>>
              \/ \E h \in scopeHolds : Released(h)
<1> DEFINE H == {g \in scopeHolds : g.pkt = rx.pkt}
<1>1. rx \in Delivery /\ rx.pkt \in Packets
  BY DEF ReleaseScopeHold, TypeOK, Delivery, Idle
<1>2. /\ rx.pc = "release" /\ rx' = Idle
      /\ UNCHANGED <<keyVars, holdTimers, expired, own, gone, mtSession, airedMt, rawSeen, merged>>
  BY DEF ReleaseScopeHold
<1>3. CASE H = {}
  BY <1>1, <1>2, <1>3 DEF ReleaseScopeHold
<1>4. CASE H # {}
  <2>1. PICK h \in H : RelayTo(Opened(h), rx.pkt, h.relayedIdx)
    BY <1>4 DEF ReleaseScopeHold, Opened
  <2>2. H = {h} /\ h \in scopeHolds /\ h.pkt = rx.pkt
    BY DEF HoldsPending
  <2>3. scopeHolds' = scopeHolds \ {h}
    BY <1>4, <2>2 DEF ReleaseScopeHold
  <2>4. Opened(h) \in SUBSET Mappings
    BY <2>2 DEF TypeOK, Hold, Opened
  <2>5. Released(h)
    BY <1>1, <2>1, <2>2, <2>3, <2>4, Relaying DEF Released
  <2> QED
    BY <1>1, <1>2, <2>2, <2>5
<1> QED
  BY <1>3, <1>4

-----------------------------------------------------------------------------
(* The invariant of what is known, held and relayed.                       *)

\* Where RunMeshcore stands keeps saying what RxKnown has it say.
LEMMA RxKnownStep ==
    ASSUME TypeOK, RxKnown, OwnKnown, HoldsPending, [Next]_vars
    PROVE  RxKnown'
<1> USE InboundAssumption DEF TypeOK, Delivery, Idle, RxKnown, Known, Working, keyVars,
   holdVars, relayVars
<1>1. ASSUME NEW p \in Packets, NEW raw \in BOOLEAN, NEW hop \in Hops, Receive(p, raw, hop)
      PROVE  RxKnown'
  BY <1>1 DEF Receive
<1>2. CASE ConsumeSelfEcho
  BY <1>2 DEF ConsumeSelfEcho
<1>3. CASE SuppressEcho
  BY <1>3 DEF SuppressEcho
<1>4. CASE IsDuplicateInbound
  BY <1>4 DEF IsDuplicateInbound
<1>5. CASE IsRepeatedContent
  BY <1>5 DEF IsRepeatedContent
<1>6. CASE FanOut
  BY <1>6, FanOutEffect
<1>7. CASE ReleaseScopeHold
  <2>1. CASE UNCHANGED <<scopeHolds, relayVars>>
    BY <1>7, <2>1, ReleaseEffect
  <2>2. ASSUME NEW h \in scopeHolds, Released(h)
        PROVE  RxKnown'
    BY <1>7, <2>2, ReleaseEffect DEF Released, Opened
  <2> QED
    BY <1>7, <2>1, <2>2, ReleaseEffect
<1>8. ASSUME NEW p \in Own, MarkOwnPacket(p)
      PROVE  RxKnown'
  BY <1>8 DEF MarkOwnPacket
<1>9. ASSUME NEW p \in Own, MarkOutboundSent(p)
      PROVE  RxKnown'
  BY <1>9 DEF MarkOutboundSent
<1>10. ASSUME NEW p \in Own, SendReturns(p)
      PROVE  RxKnown'
  BY <1>10 DEF SendReturns
<1>11. ASSUME NEW p \in Own, RetryCheck(p)
      PROVE  RxKnown'
  BY <1>11 DEF RetryCheck
<1>12. ASSUME NEW m \in Mappings, NEW p \in Packets, SendMeshtastic(m, p)
      PROVE  RxKnown'
  BY <1>12 DEF SendMeshtastic
<1>13. ASSUME NEW p \in Packets, HoldExpires(p)
      PROVE  RxKnown'
  BY <1>13 DEF HoldExpires
<1>14. ASSUME NEW P \in SUBSET recentInbound, NEW T \in SUBSET Texts,
                NEW C \in SUBSET recentContent, Sweep(P, T, C)
      PROVE  RxKnown'
  BY <1>14 DEF Sweep
<1>15. ASSUME NEW table \in Tables \cup {NoSession}, SetMeshtasticSession(table)
      PROVE  RxKnown'
  BY <1>15 DEF SetMeshtasticSession
<1>16. CASE UNCHANGED vars
  BY <1>16 DEF vars
<1> HIDE DEF TypeOK, RxKnown
<1> QED
  BY <1>1, <1>2, <1>3, <1>4, <1>5, <1>6, <1>7, <1>8, <1>9, <1>10, <1>11, <1>12, <1>13,
     <1>14, <1>15, <1>16 DEF Next, Rx, Tx

\* A send of ours stays known, and out of every relay.
LEMMA OwnKnownStep ==
    ASSUME TypeOK, RxKnown, OwnKnown, HoldsPending, [Next]_vars
    PROVE  OwnKnown'
<1> USE InboundAssumption DEF TypeOK, Delivery, Idle, OwnKnown, RxKnown, HoldsPending,
   Known, Working, InAir, keyVars, holdVars, relayVars
<1>1. ASSUME NEW p \in Packets, NEW raw \in BOOLEAN, NEW hop \in Hops, Receive(p, raw, hop)
      PROVE  OwnKnown'
  BY <1>1 DEF Receive
<1>2. CASE ConsumeSelfEcho
  BY <1>2 DEF ConsumeSelfEcho
<1>3. CASE SuppressEcho
  BY <1>3 DEF SuppressEcho
<1>4. CASE IsDuplicateInbound
  BY <1>4 DEF IsDuplicateInbound
<1>5. CASE IsRepeatedContent
  BY <1>5 DEF IsRepeatedContent
<1>6. CASE FanOut
  BY <1>6, FanOutEffect
<1>7. CASE ReleaseScopeHold
  <2>1. CASE UNCHANGED <<scopeHolds, relayVars>>
    BY <1>7, <2>1, ReleaseEffect
  <2>2. ASSUME NEW h \in scopeHolds, Released(h)
        PROVE  OwnKnown'
    BY <1>7, <2>2, ReleaseEffect DEF Released, Opened
  <2> QED
    BY <1>7, <2>1, <2>2, ReleaseEffect
<1>8. ASSUME NEW p \in Own, MarkOwnPacket(p)
      PROVE  OwnKnown'
  BY <1>8 DEF MarkOwnPacket
<1>9. ASSUME NEW p \in Own, MarkOutboundSent(p)
      PROVE  OwnKnown'
  BY <1>9 DEF MarkOutboundSent
<1>10. ASSUME NEW p \in Own, SendReturns(p)
      PROVE  OwnKnown'
  BY <1>10 DEF SendReturns
<1>11. ASSUME NEW p \in Own, RetryCheck(p)
      PROVE  OwnKnown'
  BY <1>11 DEF RetryCheck
<1>12. ASSUME NEW m \in Mappings, NEW p \in Packets, SendMeshtastic(m, p)
      PROVE  OwnKnown'
  BY <1>12 DEF SendMeshtastic
<1>13. ASSUME NEW p \in Packets, HoldExpires(p)
      PROVE  OwnKnown'
  BY <1>13 DEF HoldExpires
<1>14. ASSUME NEW P \in SUBSET recentInbound, NEW T \in SUBSET Texts,
                NEW C \in SUBSET recentContent, Sweep(P, T, C)
      PROVE  OwnKnown'
  BY <1>14 DEF Sweep
<1>15. ASSUME NEW table \in Tables \cup {NoSession}, SetMeshtasticSession(table)
      PROVE  OwnKnown'
  BY <1>15 DEF SetMeshtasticSession
<1>16. CASE UNCHANGED vars
  BY <1>16 DEF vars
<1> HIDE DEF TypeOK, OwnKnown, RxKnown, HoldsPending
<1> QED
  BY <1>1, <1>2, <1>3, <1>4, <1>5, <1>6, <1>7, <1>8, <1>9, <1>10, <1>11, <1>12, <1>13,
     <1>14, <1>15, <1>16 DEF Next, Rx, Tx

\* A held message stays one that nothing was done with.
LEMMA HoldsPendingStep ==
    ASSUME TypeOK, RxKnown, OwnKnown, HoldsPending, FreshUnrelayed, [Next]_vars
    PROVE  HoldsPending'
<1> USE InboundAssumption DEF TypeOK, Delivery, Idle, Hold, HoldsPending, RxKnown,
   OwnKnown, FreshUnrelayed, Known, Working, keyVars, holdVars, relayVars
<1>1. ASSUME NEW p \in Packets, NEW raw \in BOOLEAN, NEW hop \in Hops, Receive(p, raw, hop)
      PROVE  HoldsPending'
  BY <1>1 DEF Receive
<1>2. CASE ConsumeSelfEcho
  BY <1>2 DEF ConsumeSelfEcho
<1>3. CASE SuppressEcho
  BY <1>3 DEF SuppressEcho
<1>4. CASE IsDuplicateInbound
  BY <1>4 DEF IsDuplicateInbound
<1>5. CASE IsRepeatedContent
  BY <1>5 DEF IsRepeatedContent
<1>6. CASE FanOut
  <2>1. SUFFICES ASSUME NEW h \in scopeHolds'
                 PROVE  /\ h.pkt \in recentInbound' /\ h.pkt \in holdTimers' /\ h.pkt \notin Own
                        /\ \A g \in scopeHolds' : g.pkt = h.pkt => g = h
                        /\ \A m \in h.mappings : m \notin Unscoped /\ posted'[m][h.pkt] = 0
    BY <1>6, FanOutEffect
  <2>2. \A g \in scopeHolds : g.pkt # rx.pkt
    BY <1>6, FanOutEffect
  <2>3. rx.pkt \in recentInbound /\ rx.pkt \notin Own /\ Working(rx.pkt)
    BY <1>6, FanOutEffect
  <2>4. CASE h \in scopeHolds
    <3>1. h \in Hold /\ h.pkt \in Packets /\ h.mappings \in SUBSET Mappings
      BY <2>4
    <3>2. \A m \in h.mappings : posted'[m][h.pkt] = posted[m][h.pkt]
      BY <1>6, <2>2, <2>4, <3>1, FanOutEffect
    <3>3. \A g \in scopeHolds' : g.pkt = h.pkt => g = h
      BY <1>6, <2>2, <2>4, FanOutEffect
    <3> QED
      BY <1>6, <2>4, <3>2, <3>3, FanOutEffect
  <2>5. CASE h \notin scopeHolds
    <3>1. /\ ~rx.raw /\ rx.pkt \in holdTimers'
          /\ h = [pkt |-> rx.pkt, mappings |-> Mappings \ Unscoped, relayedIdx |-> Claims(OpenNow)]
      BY <1>6, <2>5, FanOutEffect
    <3>2. \A g \in scopeHolds' : g.pkt = h.pkt => g = h
      BY <1>6, <2>2, <3>1, FanOutEffect
    <3>3. \A m \in Mappings \ Unscoped : m \notin OpenNow
      BY <1>6, <3>1, FanOutEffect
    <3>4. \A m \in Mappings : posted[m][rx.pkt] = 0
      BY <2>3, FanOutEffect
    <3>5. \A m \in Mappings \ Unscoped : posted'[m][rx.pkt] = 0
      BY <1>6, <3>3, <3>4, FanOutEffect
    <3> QED
      BY <1>6, <2>3, <3>1, <3>2, <3>5, FanOutEffect
  <2> QED
    BY <2>4, <2>5
<1>7. CASE ReleaseScopeHold
  <2>1. CASE UNCHANGED <<scopeHolds, relayVars>>
    BY <1>7, <2>1, ReleaseEffect
  <2>2. ASSUME NEW h \in scopeHolds, Released(h)
        PROVE  HoldsPending'
    BY <1>7, <2>2, ReleaseEffect DEF Released, Opened
  <2> QED
    BY <1>7, <2>1, <2>2, ReleaseEffect
<1>8. ASSUME NEW p \in Own, MarkOwnPacket(p)
      PROVE  HoldsPending'
  BY <1>8 DEF MarkOwnPacket
<1>9. ASSUME NEW p \in Own, MarkOutboundSent(p)
      PROVE  HoldsPending'
  BY <1>9 DEF MarkOutboundSent
<1>10. ASSUME NEW p \in Own, SendReturns(p)
      PROVE  HoldsPending'
  BY <1>10 DEF SendReturns
<1>11. ASSUME NEW p \in Own, RetryCheck(p)
      PROVE  HoldsPending'
  BY <1>11 DEF RetryCheck
<1>12. ASSUME NEW m \in Mappings, NEW p \in Packets, SendMeshtastic(m, p)
      PROVE  HoldsPending'
  BY <1>12 DEF SendMeshtastic
<1>13. ASSUME NEW p \in Packets, HoldExpires(p)
      PROVE  HoldsPending'
  BY <1>13 DEF HoldExpires
<1>14. ASSUME NEW P \in SUBSET recentInbound, NEW T \in SUBSET Texts,
                NEW C \in SUBSET recentContent, Sweep(P, T, C)
      PROVE  HoldsPending'
  BY <1>14 DEF Sweep
<1>15. ASSUME NEW table \in Tables \cup {NoSession}, SetMeshtasticSession(table)
      PROVE  HoldsPending'
  BY <1>15 DEF SetMeshtasticSession
<1>16. CASE UNCHANGED vars
  BY <1>16 DEF vars
<1> HIDE DEF TypeOK, HoldsPending, RxKnown, OwnKnown, FreshUnrelayed
<1> QED
  BY <1>1, <1>2, <1>3, <1>4, <1>5, <1>6, <1>7, <1>8, <1>9, <1>10, <1>11, <1>12, <1>13,
     <1>14, <1>15, <1>16 DEF Next, Rx, Tx

\* Nothing is relayed of a packet before its fan-out.
LEMMA FreshStep ==
    ASSUME TypeOK, RxKnown, OwnKnown, HoldsPending, FreshUnrelayed, [Next]_vars
    PROVE  FreshUnrelayed'
<1> USE InboundAssumption DEF TypeOK, Delivery, Idle, FreshUnrelayed, HoldsPending,
   RxKnown, Known, Working, keyVars, holdVars, relayVars
<1>1. ASSUME NEW p \in Packets, NEW raw \in BOOLEAN, NEW hop \in Hops, Receive(p, raw, hop)
      PROVE  FreshUnrelayed'
  BY <1>1 DEF Receive
<1>2. CASE ConsumeSelfEcho
  BY <1>2 DEF ConsumeSelfEcho
<1>3. CASE SuppressEcho
  BY <1>3 DEF SuppressEcho
<1>4. CASE IsDuplicateInbound
  BY <1>4 DEF IsDuplicateInbound
<1>5. CASE IsRepeatedContent
  BY <1>5 DEF IsRepeatedContent
<1>6. CASE FanOut
  BY <1>6, FanOutEffect
<1>7. CASE ReleaseScopeHold
  <2>1. CASE UNCHANGED <<scopeHolds, relayVars>>
    BY <1>7, <2>1, ReleaseEffect
  <2>2. ASSUME NEW h \in scopeHolds, Released(h)
        PROVE  FreshUnrelayed'
    <3>1. SUFFICES ASSUME NEW p \in Packets, p \notin Known'
                   PROVE  /\ \A m \in Mappings : posted'[m][p] = 0 /\ <<m, p>> \notin relayQ'
                          /\ \A i \in Indexes : airedMt'[i][p] = 0
      BY <1>7, ReleaseEffect
    <3>2. p \notin Known /\ p # rx.pkt
      BY <1>7, <3>1, ReleaseEffect
    <3>3. \A m \in Mappings : posted'[m][p] = posted[m][p]
      BY <2>2, <3>2 DEF Released
    <3>4. \A m \in Mappings : <<m, p>> \in relayQ' => <<m, p>> \in relayQ
      BY <2>2, <3>2 DEF Released
    <3> QED
      BY <1>7, <3>2, <3>3, <3>4, ReleaseEffect
  <2> QED
    BY <1>7, <2>1, <2>2, ReleaseEffect
<1>8. ASSUME NEW p \in Own, MarkOwnPacket(p)
      PROVE  FreshUnrelayed'
  BY <1>8 DEF MarkOwnPacket
<1>9. ASSUME NEW p \in Own, MarkOutboundSent(p)
      PROVE  FreshUnrelayed'
  BY <1>9 DEF MarkOutboundSent
<1>10. ASSUME NEW p \in Own, SendReturns(p)
      PROVE  FreshUnrelayed'
  BY <1>10 DEF SendReturns
<1>11. ASSUME NEW p \in Own, RetryCheck(p)
      PROVE  FreshUnrelayed'
  BY <1>11 DEF RetryCheck
<1>12. ASSUME NEW m \in Mappings, NEW p \in Packets, SendMeshtastic(m, p)
      PROVE  FreshUnrelayed'
  BY <1>12 DEF SendMeshtastic
<1>13. ASSUME NEW p \in Packets, HoldExpires(p)
      PROVE  FreshUnrelayed'
  BY <1>13 DEF HoldExpires
<1>14. ASSUME NEW P \in SUBSET recentInbound, NEW T \in SUBSET Texts,
                NEW C \in SUBSET recentContent, Sweep(P, T, C)
      PROVE  FreshUnrelayed'
  BY <1>14 DEF Sweep
<1>15. ASSUME NEW table \in Tables \cup {NoSession}, SetMeshtasticSession(table)
      PROVE  FreshUnrelayed'
  BY <1>15 DEF SetMeshtasticSession
<1>16. CASE UNCHANGED vars
  BY <1>16 DEF vars
<1> HIDE DEF TypeOK, FreshUnrelayed, HoldsPending, RxKnown
<1> QED
  BY <1>1, <1>2, <1>3, <1>4, <1>5, <1>6, <1>7, <1>8, <1>9, <1>10, <1>11, <1>12, <1>13,
     <1>14, <1>15, <1>16 DEF Next, Rx, Tx

\* What a step relays, it relays in FanOut or ReleaseScopeHold.
LEMMA RelayingSteps ==
    ASSUME [Next]_vars
    PROVE  \/ FanOut
           \/ ReleaseScopeHold
           \/ UNCHANGED <<posted, relayed>> /\ relayQ' \subseteq relayQ /\ rawSeen \subseteq rawSeen'
BY DEF Next, Rx, Tx, vars, keyVars, holdVars, relayVars, Receive, ConsumeSelfEcho,
   SuppressEcho,
       IsDuplicateInbound, IsRepeatedContent, MarkOwnPacket, MarkOutboundSent, SendReturns,
       RetryCheck, SendMeshtastic, HoldExpires, Sweep, SetMeshtasticSession

\* Invariance of PacketInv, for any packets, mappings, scopes and tables.
THEOREM PacketInvariance == Spec => []PacketInv
<1>1. Init => PacketInv
  BY InboundAssumption DEF Init, PacketInv, OwnKnown, RxKnown, HoldsPending,
     FreshUnrelayed,
     Known, Working, Idle
<1>2. TypeOK /\ PacketInv /\ [Next]_vars => PacketInv'
  BY RxKnownStep, OwnKnownStep, HoldsPendingStep, FreshStep DEF PacketInv
<1> QED
  BY <1>1, <1>2, InboundTypes, PTL DEF Spec

\* A packet of ours that the mesh floods back is relayed to no mapping, on
\* either path and however late (markOwnPacket, deliverMeshcoreChannelText).
THEOREM OwnStaysHome == Spec => []OwnNeverRelayed
<1>1. PacketInv => OwnNeverRelayed
  BY DEF PacketInv, OwnKnown, OwnNeverRelayed
<1> QED
  BY <1>1, PacketInvariance, PTL

-----------------------------------------------------------------------------
(* Once, and where the scope allows it.                                    *)

\* No step posts a packet a second time.
LEMMA PostedOnceStep ==
    ASSUME TypeOK, PacketInv, PostedOnce, [Next]_vars
    PROVE  PostedOnce'
<1>1. CASE FanOut
  <2>1. Working(rx.pkt) /\ \A m \in Mappings : posted[m][rx.pkt] = 0
    BY <1>1, FanOutEffect DEF PacketInv, FreshUnrelayed, Working
  <2> QED
    BY <1>1, <2>1, FanOutEffect DEF PostedOnce
<1>2. CASE ReleaseScopeHold
  <2>1. CASE UNCHANGED <<scopeHolds, relayVars>>
    BY <2>1 DEF PostedOnce, relayVars
  <2>2. ASSUME NEW h \in scopeHolds, Released(h)
        PROVE  PostedOnce'
    <3>1. \A m \in Opened(h) : posted[m][rx.pkt] = 0
      BY <2>2 DEF Released, Opened, PacketInv, HoldsPending
    <3> QED
      BY <2>2, <3>1 DEF Released, PostedOnce
  <2> QED
    BY <1>2, <2>1, <2>2, ReleaseEffect DEF PacketInv
<1>3. CASE UNCHANGED posted
  BY <1>3 DEF PostedOnce
<1> QED
  BY <1>1, <1>2, <1>3, RelayingSteps

\* However many copies of a packet come in, no webhook gets it twice.
THEOREM PostsAreSingle == Spec => []PostedOnce
<1>1. Init => PostedOnce
  BY DEF Init, PostedOnce
<1>2. TypeOK /\ PacketInv /\ PostedOnce /\ [Next]_vars => PostedOnce'
  BY PostedOnceStep
<1> QED
  BY <1>1, <1>2, InboundTypes, PacketInvariance, PTL DEF Spec

\* No step relays across a scope.
LEMMA ScopesRespectedStep ==
    ASSUME TypeOK, PacketInv, ScopesRespected, [Next]_vars
    PROVE  ScopesRespected'
<1> SUFFICES ASSUME NEW m \in Mappings \ Unscoped, NEW p \in Packets,
                    posted'[m][p] > 0 \/ <<m, p>> \in relayQ'
             PROVE  p \in rawSeen' /\ ScopeAllowed(m, p)
  BY DEF ScopesRespected, Unscoped, ScopeAllowed
<1>1. CASE FanOut
  <2>1. CASE p = rx.pkt /\ m \in OpenNow
    BY <1>1, <2>1, FanOutEffect DEF PacketInv, RxKnown
  <2>2. CASE ~(p = rx.pkt /\ m \in OpenNow)
    <3>1. posted'[m][p] = posted[m][p]
      BY <1>1, <2>2, FanOutEffect
    <3>2. <<m, p>> \in relayQ' => <<m, p>> \in relayQ
      BY <1>1, <2>2, FanOutEffect DEF ToMeshtastic
    <3> QED
      BY <1>1, <3>1, <3>2, FanOutEffect DEF ScopesRespected
  <2> QED
    BY <2>1, <2>2
<1>2. CASE ReleaseScopeHold
  <2>1. rx.pkt \in rawSeen /\ rawSeen' = rawSeen
    BY <1>2, ReleaseEffect DEF PacketInv, RxKnown
  <2>2. CASE UNCHANGED <<scopeHolds, relayVars>>
    BY <2>1, <2>2 DEF ScopesRespected, relayVars
  <2>3. ASSUME NEW h \in scopeHolds, Released(h)
        PROVE  p \in rawSeen' /\ ScopeAllowed(m, p)
    <3>1. CASE p = rx.pkt /\ m \in Opened(h)
      BY <2>1, <3>1 DEF Opened
    <3>2. CASE ~(p = rx.pkt /\ m \in Opened(h))
      <4>1. posted'[m][p] = posted[m][p]
        BY <2>3, <3>2 DEF Released
      <4>2. <<m, p>> \in relayQ' => <<m, p>> \in relayQ
        BY <2>3, <3>2 DEF Released, ToMeshtastic
      <4> QED
        BY <2>1, <4>1, <4>2 DEF ScopesRespected
    <3> QED
      BY <3>1, <3>2
  <2> QED
    BY <1>2, <2>2, <2>3, ReleaseEffect DEF PacketInv
<1>3. CASE UNCHANGED <<posted, relayed>> /\ relayQ' \subseteq relayQ /\ rawSeen \subseteq rawSeen'
  BY <1>3 DEF ScopesRespected
<1> QED
  BY <1>1, <1>2, <1>3, RelayingSteps

\* A mapping with rx_scopes gets only packets whose raw-log copy proved one
\* of its scopes (relayMeshcoreText, releaseScopeHold).
THEOREM ScopesAreKept == Spec => []ScopesRespected
<1>1. Init => ScopesRespected
  BY DEF Init, ScopesRespected, Unscoped
<1>2. TypeOK /\ PacketInv /\ ScopesRespected /\ [Next]_vars => ScopesRespected'
  BY ScopesRespectedStep
<1> QED
  BY <1>1, <1>2, InboundTypes, PacketInvariance, PTL DEF Spec

-----------------------------------------------------------------------------
(* Merged repeats.                                                         *)

\* A remembered text has been relayed, or is held to be.
LEMMA RememberedStep ==
    ASSUME TypeOK, PacketInv, Unscoped # {}, RememberedRelayed, [Next]_vars
    PROVE  RememberedRelayed'
<1> USE DEF RememberedRelayed, TypeOK, Delivery, Idle, keyVars, holdVars, relayVars
<1>1. ASSUME NEW p \in Packets, NEW raw \in BOOLEAN, NEW hop \in Hops, Receive(p, raw, hop)
      PROVE  RememberedRelayed'
  BY <1>1 DEF Receive
<1>2. CASE ConsumeSelfEcho
  BY <1>2 DEF ConsumeSelfEcho
<1>3. CASE SuppressEcho
  BY <1>3 DEF SuppressEcho
<1>4. CASE IsDuplicateInbound
  BY <1>4 DEF IsDuplicateInbound
<1>5. CASE IsRepeatedContent
  BY <1>5 DEF IsRepeatedContent
<1>6. CASE FanOut
  <2>1. OpenNow # {}
    BY <1>6, FanOutEffect
  <2> QED
    BY <1>6, <2>1, FanOutEffect
<1>7. CASE ReleaseScopeHold
  <2>1. relayed \subseteq relayed'
    BY <1>7, ReleaseEffect DEF PacketInv, Released
  <2> QED
    BY <1>7, <2>1, ReleaseEffect DEF PacketInv
<1>8. ASSUME NEW p \in Own, MarkOwnPacket(p)
      PROVE  RememberedRelayed'
  BY <1>8 DEF MarkOwnPacket
<1>9. ASSUME NEW p \in Own, MarkOutboundSent(p)
      PROVE  RememberedRelayed'
  BY <1>9 DEF MarkOutboundSent
<1>10. ASSUME NEW p \in Own, SendReturns(p)
      PROVE  RememberedRelayed'
  BY <1>10 DEF SendReturns
<1>11. ASSUME NEW p \in Own, RetryCheck(p)
      PROVE  RememberedRelayed'
  BY <1>11 DEF RetryCheck
<1>12. ASSUME NEW m \in Mappings, NEW p \in Packets, SendMeshtastic(m, p)
      PROVE  RememberedRelayed'
  BY <1>12 DEF SendMeshtastic
<1>13. ASSUME NEW p \in Packets, HoldExpires(p)
      PROVE  RememberedRelayed'
  BY <1>13 DEF HoldExpires
<1>14. ASSUME NEW P \in SUBSET recentInbound, NEW T \in SUBSET Texts,
                NEW C \in SUBSET recentContent, Sweep(P, T, C)
      PROVE  RememberedRelayed'
  BY <1>14 DEF Sweep
<1>15. ASSUME NEW table \in Tables \cup {NoSession}, SetMeshtasticSession(table)
      PROVE  RememberedRelayed'
  BY <1>15 DEF SetMeshtasticSession
<1>16. CASE UNCHANGED vars
  BY <1>16 DEF vars
<1> HIDE DEF RememberedRelayed, TypeOK
<1> QED
  BY <1>1, <1>2, <1>3, <1>4, <1>5, <1>6, <1>7, <1>8, <1>9, <1>10, <1>11, <1>12, <1>13,
     <1>14, <1>15, <1>16 DEF Next, Rx, Tx

\* Only repeats of a text that was relayed are merged.
LEMMA MergedStep ==
    ASSUME TypeOK, PacketInv, RememberedRelayed, MergedWasRelayed, [Next]_vars
    PROVE  MergedWasRelayed'
<1>1. relayed \subseteq relayed'
  <2>1. CASE FanOut
    BY <2>1, FanOutEffect
  <2>2. CASE ReleaseScopeHold
    BY <2>2, ReleaseEffect DEF PacketInv, Released, relayVars
  <2> QED
    BY <2>1, <2>2, RelayingSteps
<1>2. CASE IsRepeatedContent
  BY <1>1, <1>2 DEF IsRepeatedContent, RememberedRelayed, MergedWasRelayed
<1>3. CASE UNCHANGED merged
  BY <1>1, <1>3 DEF MergedWasRelayed
<1> QED
  BY <1>2, <1>3 DEF Next, Rx, Tx, vars, Receive, ConsumeSelfEcho, SuppressEcho,
     IsDuplicateInbound, FanOut, ReleaseScopeHold, MarkOwnPacket, MarkOutboundSent, SendReturns,
     RetryCheck, SendMeshtastic, HoldExpires, Sweep, SetMeshtasticSession

\* Where a mapping accepts every scope, a message is merged only with one
\* that was relayed (isRepeatedContent).
THEOREM MergedRepeats == ASSUME Unscoped # {} PROVE Spec => []MergedWasRelayed
<1> DEFINE Inv == RememberedRelayed /\ MergedWasRelayed
<1>1. Init => Inv
  BY DEF Init, RememberedRelayed, MergedWasRelayed
<1>2. TypeOK /\ PacketInv /\ Inv /\ [Next]_vars => Inv'
  BY RememberedStep, MergedStep
<1>3. Inv => MergedWasRelayed
  OBVIOUS
<1> QED
  BY <1>1, <1>2, <1>3, InboundTypes, PacketInvariance, PTL DEF Spec

-----------------------------------------------------------------------------
(* Nothing is lost.                                                        *)

\* Only texts of ours come to wait for an echo.
LEMMA EchoStep ==
    ASSUME TypeOK, PacketInv, EchoesAreOurs, [Next]_vars
    PROVE  EchoesAreOurs'
<1> USE InboundAssumption DEF EchoesAreOurs, TypeOK, Delivery, Idle, keyVars, holdVars,
   relayVars
<1>1. ASSUME NEW p \in Packets, NEW raw \in BOOLEAN, NEW hop \in Hops, Receive(p, raw, hop)
      PROVE  EchoesAreOurs'
  BY <1>1 DEF Receive
<1>2. CASE ConsumeSelfEcho
  <2>1. rx.pkt \in Packets /\ TextOf[rx.pkt] \in Texts
    BY <1>2 DEF ConsumeSelfEcho, Texts
  <2>2. \A t \in Texts \ OwnTexts : recentOutbound'[t] = 0
    BY <1>2, <2>1, GivenUp DEF ConsumeSelfEcho
  <2>3. rx'.pc = "echoed" => recentOutbound[TextOf[rx.pkt]] # 0 /\ rx'.pkt = rx.pkt
    BY <1>2, <2>1 DEF ConsumeSelfEcho
  <2> QED
    BY <2>1, <2>2, <2>3
<1>3. CASE SuppressEcho
  BY <1>3 DEF SuppressEcho
<1>4. CASE IsDuplicateInbound
  BY <1>4 DEF IsDuplicateInbound
<1>5. CASE IsRepeatedContent
  BY <1>5 DEF IsRepeatedContent
<1>6. CASE FanOut
  BY <1>6, FanOutEffect
<1>7. CASE ReleaseScopeHold
  BY <1>7, ReleaseEffect DEF PacketInv
<1>8. ASSUME NEW p \in Own, MarkOwnPacket(p)
      PROVE  EchoesAreOurs'
  BY <1>8 DEF MarkOwnPacket
<1>9. ASSUME NEW p \in Own, MarkOutboundSent(p)
      PROVE  EchoesAreOurs'
  <2>1. TextOf[p] \in Texts /\ TextOf[p] \in OwnTexts
    BY  DEF Texts, OwnTexts
  <2>2. \A t \in Texts \ OwnTexts : recentOutbound'[t] = recentOutbound[t]
    BY <1>9, <2>1 DEF MarkOutboundSent, GiveUpOne
  <2> QED
    BY <1>9, <2>2 DEF MarkOutboundSent
<1>10. ASSUME NEW p \in Own, SendReturns(p)
      PROVE  EchoesAreOurs'
  <2>1. TextOf[p] \in Texts /\ TextOf[p] \in OwnTexts
    BY  DEF Texts, OwnTexts
  <2>2. \A t \in Texts \ OwnTexts : recentOutbound'[t] = recentOutbound[t]
    BY <1>10, <2>1 DEF SendReturns, GiveUpOne
  <2> QED
    BY <1>10, <2>2 DEF SendReturns
<1>11. ASSUME NEW p \in Own, RetryCheck(p)
      PROVE  EchoesAreOurs'
  <2>1. TextOf[p] \in Texts /\ TextOf[p] \in OwnTexts
    BY  DEF Texts, OwnTexts
  <2>2. \A t \in Texts \ OwnTexts : recentOutbound'[t] = recentOutbound[t]
    BY <1>11, <2>1 DEF RetryCheck, GiveUpOne
  <2> QED
    BY <1>11, <2>2 DEF RetryCheck
<1>12. ASSUME NEW m \in Mappings, NEW p \in Packets, SendMeshtastic(m, p)
      PROVE  EchoesAreOurs'
  BY <1>12 DEF SendMeshtastic
<1>13. ASSUME NEW p \in Packets, HoldExpires(p)
      PROVE  EchoesAreOurs'
  BY <1>13 DEF HoldExpires
<1>14. ASSUME NEW P \in SUBSET recentInbound, NEW T \in SUBSET Texts,
                NEW C \in SUBSET recentContent, Sweep(P, T, C)
      PROVE  EchoesAreOurs'
  BY <1>14 DEF Sweep
<1>15. ASSUME NEW table \in Tables \cup {NoSession}, SetMeshtasticSession(table)
      PROVE  EchoesAreOurs'
  BY <1>15 DEF SetMeshtasticSession
<1>16. CASE UNCHANGED vars
  BY <1>16 DEF vars
<1> HIDE DEF EchoesAreOurs, TypeOK
<1> QED
  BY <1>1, <1>2, <1>3, <1>4, <1>5, <1>6, <1>7, <1>8, <1>9, <1>10, <1>11, <1>12, <1>13,
     <1>14, <1>15, <1>16 DEF Next, Rx, Tx

\* After its fan-out a message stays posted where it may be, or held there.
LEMMA PostedOrHeldStep ==
    ASSUME TypeOK, PacketInv, EchoesAreOurs, PostedOrHeld, [Next]_vars
    PROVE  PostedOrHeld'
<1> USE InboundAssumption DEF PostedOrHeld, TypeOK, Delivery, Idle, Working,
   EchoesAreOurs, PacketInv, RxKnown, Known, keyVars, holdVars, relayVars
<1>1. ASSUME NEW p \in Packets, NEW raw \in BOOLEAN, NEW hop \in Hops, Receive(p, raw, hop)
      PROVE  PostedOrHeld'
  BY <1>1 DEF Receive
<1>2. CASE ConsumeSelfEcho
  BY <1>2 DEF ConsumeSelfEcho
<1>3. CASE SuppressEcho
  BY <1>3 DEF SuppressEcho
<1>4. CASE IsDuplicateInbound
  BY <1>4 DEF IsDuplicateInbound
<1>5. CASE IsRepeatedContent
  BY <1>5 DEF IsRepeatedContent
<1>6. CASE FanOut
  <2>1. SUFFICES ASSUME NEW p \in Packets \ Own, NEW m \in Discord, p \in recentInbound \ merged,
                        TextOf[p] \notin OwnTexts, posted'[m][p] # 1
                 PROVE  /\ m \notin Unscoped
                        /\ ScopeAllowed(m, p) /\ p \notin expired =>
                             /\ \E h \in scopeHolds' : h.pkt = p /\ m \in h.mappings
                             /\ p \notin rawSeen
    BY <1>6, FanOutEffect DEF ScopeAllowed, Unscoped, OwnTexts
  <2>2. m \in Mappings
    OBVIOUS
  <2>3. CASE p = rx.pkt
    <3>1. posted[m][p] = 0 /\ Working(p)
      BY <1>6, <2>2, <2>3, FanOutEffect DEF FreshUnrelayed
    <3>2. m \notin OpenNow
      BY <1>6, <2>1, <2>2, <2>3, <3>1, FanOutEffect
    <3>3. ScopeAllowed(m, p) => ~rx.raw
      BY <1>6, <2>2, <2>3, <3>2, FanOutEffect
    <3>4. ~rx.raw => p \notin rawSeen
      BY <2>3, <3>1
    <3> QED
      BY <1>6, <2>2, <2>3, <3>2, <3>3, <3>4, FanOutEffect
  <2>4. CASE p # rx.pkt
    <3>1. posted[m][p] # 1 /\ ~Working(p)
      BY <1>6, <2>1, <2>2, <2>4, FanOutEffect
    <3>2. rx.pc # "release"
      BY <1>6, FanOutEffect
    <3> QED
      BY <1>6, <2>1, <2>4, <3>1, <3>2, FanOutEffect
  <2> QED
    BY <2>3, <2>4
<1>7. CASE ReleaseScopeHold
  <2>1. SUFFICES ASSUME NEW p \in Packets \ Own, NEW m \in Discord, p \in recentInbound \ merged,
                        TextOf[p] \notin OwnTexts, posted'[m][p] # 1
                 PROVE  /\ m \notin Unscoped
                        /\ ScopeAllowed(m, p) /\ p \notin expired =>
                             /\ \E h \in scopeHolds' : h.pkt = p /\ m \in h.mappings
                             /\ p \notin rawSeen
    BY <1>7, ReleaseEffect DEF ScopeAllowed, Unscoped, OwnTexts
  <2>2. m \in Mappings /\ rx.pc = "release" /\ ~Working(p)
    BY <1>7, ReleaseEffect
  <2>3. CASE UNCHANGED <<scopeHolds, relayVars>> /\ \A g \in scopeHolds : g.pkt # rx.pkt
    BY <2>1, <2>2, <2>3
  <2>4. ASSUME NEW h \in scopeHolds, Released(h)
        PROVE  /\ m \notin Unscoped
               /\ ScopeAllowed(m, p) /\ p \notin expired =>
                    /\ \E g \in scopeHolds' : g.pkt = p /\ m \in g.mappings
                    /\ p \notin rawSeen
    <3>1. \A n \in h.mappings : posted[n][rx.pkt] = 0
      BY <2>4 DEF Released, HoldsPending
    <3>2. ~(m \in Opened(h) /\ p = rx.pkt) /\ posted[m][p] # 1
      BY <2>1, <2>2, <2>4, <3>1 DEF Released, Opened
    <3>3. CASE p = rx.pkt
      <4>1. \A g \in scopeHolds : g.pkt = p => g = h
        BY <2>4, <3>3 DEF Released, HoldsPending
      <4> QED
        BY <2>1, <2>2, <3>2, <3>3, <4>1 DEF Opened
    <3>4. CASE p # rx.pkt
      BY <2>1, <2>2, <2>4, <3>2, <3>4 DEF Released
    <3> QED
      BY <3>3, <3>4
  <2> QED
    BY <1>7, <2>3, <2>4, ReleaseEffect
<1>8. ASSUME NEW p \in Own, MarkOwnPacket(p)
      PROVE  PostedOrHeld'
  BY <1>8 DEF MarkOwnPacket
<1>9. ASSUME NEW p \in Own, MarkOutboundSent(p)
      PROVE  PostedOrHeld'
  BY <1>9 DEF MarkOutboundSent
<1>10. ASSUME NEW p \in Own, SendReturns(p)
      PROVE  PostedOrHeld'
  BY <1>10 DEF SendReturns
<1>11. ASSUME NEW p \in Own, RetryCheck(p)
      PROVE  PostedOrHeld'
  BY <1>11 DEF RetryCheck
<1>12. ASSUME NEW m \in Mappings, NEW p \in Packets, SendMeshtastic(m, p)
      PROVE  PostedOrHeld'
  BY <1>12 DEF SendMeshtastic
<1>13. ASSUME NEW p \in Packets, HoldExpires(p)
      PROVE  PostedOrHeld'
  BY <1>13 DEF HoldExpires
<1>14. ASSUME NEW P \in SUBSET recentInbound, NEW T \in SUBSET Texts,
                NEW C \in SUBSET recentContent, Sweep(P, T, C)
      PROVE  PostedOrHeld'
  BY <1>14 DEF Sweep
<1>15. ASSUME NEW table \in Tables \cup {NoSession}, SetMeshtasticSession(table)
      PROVE  PostedOrHeld'
  BY <1>15 DEF SetMeshtasticSession
<1>16. CASE UNCHANGED vars
  BY <1>16 DEF vars
<1> HIDE DEF PostedOrHeld, TypeOK, EchoesAreOurs, PacketInv, RxKnown
<1> QED
  BY <1>1, <1>2, <1>3, <1>4, <1>5, <1>6, <1>7, <1>8, <1>9, <1>10, <1>11, <1>12, <1>13,
     <1>14, <1>15, <1>16 DEF Next, Rx, Tx

\* A message of someone else is lost to no mapping that may have it
\* (deliverMeshcoreChannelText, holdForScope, releaseScopeHold).
THEOREM NothingIsLost == Spec => []NothingLost
<1> DEFINE Inv == EchoesAreOurs /\ PostedOrHeld
<1>1. Init => Inv
  BY DEF Init, EchoesAreOurs, PostedOrHeld, Idle
<1>2. TypeOK /\ PacketInv /\ Inv /\ [Next]_vars => Inv'
  BY EchoStep, PostedOrHeldStep
<1>3. TypeOK /\ Inv => NothingLost
  BY InboundAssumption DEF TypeOK, PostedOrHeld, NothingLost, OwnTexts, Working,
     ScopeAllowed
<1> QED
  BY <1>1, <1>2, <1>3, InboundTypes, PacketInvariance, PTL DEF Spec

-----------------------------------------------------------------------------
(* Once on each Meshtastic channel.                                        *)

\* The only steps that touch the Meshtastic side.
LEMMA ChannelSteps ==
    ASSUME [Next]_vars
    PROVE  \/ FanOut
           \/ ReleaseScopeHold
           \/ \E m \in Mappings, p \in Packets : SendMeshtastic(m, p)
           \/ \E table \in Tables \cup {NoSession} : SetMeshtasticSession(table)
           \/ UNCHANGED <<relayQ, airedMt, mtSession>> /\ scopeHolds' \subseteq scopeHolds
BY DEF Next, Rx, Tx, vars, keyVars, holdVars, relayVars, Receive, ConsumeSelfEcho,
   SuppressEcho,
       IsDuplicateInbound, IsRepeatedContent, MarkOwnPacket, MarkOutboundSent, SendReturns,
       RetryCheck, HoldExpires, Sweep

\* Fanning out queues one relay for each channel.
LEMMA ClaimedByFanOut ==
    ASSUME TypeOK, PacketInv, ChannelsClaimed, FanOut
    PROVE  ChannelsClaimed'
<1>1. mtSession' = mtSession /\ airedMt' = airedMt /\ \A m : IndexOf(m)' = IndexOf(m)
  BY FanOutEffect DEF IndexOf
<1>2. /\ Working(rx.pkt)
      /\ \A i \in Indexes : airedMt[i][rx.pkt] = 0
      /\ \A e \in relayQ : e[2] # rx.pkt
  <2>1. Working(rx.pkt) /\ \A m \in Mappings : <<m, rx.pkt>> \notin relayQ
    BY FanOutEffect DEF PacketInv, FreshUnrelayed, Working
  <2>2. \A e \in relayQ : e[1] \in Mappings /\ e = <<e[1], e[2]>>
    BY DEF TypeOK
  <2> QED
    BY <2>1, <2>2, FanOutEffect DEF PacketInv, FreshUnrelayed
<1>3. \A e \in relayQ' : e[1] \in ToMeshtastic(Mappings)
  BY FanOutEffect DEF ChannelsClaimed, ToMeshtastic
<1>4. ASSUME mtSession # NoSession, NEW e \in relayQ', NEW f \in relayQ', e[2] = f[2],
             IndexOf(e[1]) = IndexOf(f[1]), IndexOf(e[1]) # NoIdx
      PROVE  e = f
  BY <1>2, <1>4, FanOutEffect DEF ChannelsClaimed
<1>5. ASSUME mtSession # NoSession, NEW e \in relayQ', IndexOf(e[1]) # NoIdx
      PROVE  airedMt[IndexOf(e[1])][e[2]] = 0
  <2>1. IndexOf(e[1]) \in Indexes
    BY <1>3, <1>5, ChannelsTyped
  <2> QED
    BY <1>2, <1>5, <2>1, FanOutEffect DEF ChannelsClaimed
<1>6. ASSUME mtSession # NoSession, NEW h \in scopeHolds', NEW i \in Indexes \ h.relayedIdx
      PROVE  airedMt[i][h.pkt] = 0 /\ \A e \in relayQ' : e[2] = h.pkt => IndexOf(e[1]) # i
  <2>1. CASE h \in scopeHolds
    <3>1. h.pkt # rx.pkt
      BY <1>2, <2>1 DEF PacketInv, HoldsPending
    <3> QED
      BY <1>6, <2>1, <3>1, FanOutEffect DEF ChannelsClaimed
  <2>2. CASE h \notin scopeHolds
    <3>1. h.pkt = rx.pkt /\ i \notin Claims(OpenNow)
      BY <1>6, <2>2, FanOutEffect
    <3>2. ASSUME NEW e \in relayQ', e[2] = h.pkt
          PROVE  IndexOf(e[1]) # i
      <4>1. e[1] \in ToMeshtastic(OpenNow)
        BY <1>2, <3>1, <3>2, FanOutEffect
      <4> QED
        BY <1>6, <3>1, <4>1, ChannelsTyped DEF Claims
    <3> QED
      BY <1>2, <1>6, <3>1, <3>2
  <2> QED
    BY <2>1, <2>2
<1> QED
  BY <1>1, <1>3, <1>4, <1>5, <1>6 DEF ChannelsClaimed

\* Releasing a held message queues relays for channels it did not go to.
LEMMA ClaimedByRelease ==
    ASSUME TypeOK, PacketInv, ChannelsClaimed, ReleaseScopeHold
    PROVE  ChannelsClaimed'
<1>1. mtSession' = mtSession /\ airedMt' = airedMt /\ \A m : IndexOf(m)' = IndexOf(m)
  BY ReleaseEffect DEF PacketInv, IndexOf
<1>2. CASE UNCHANGED <<scopeHolds, relayVars>>
  BY <1>1, <1>2 DEF ChannelsClaimed, relayVars
<1>3. ASSUME NEW h \in scopeHolds, Released(h)
      PROVE  ChannelsClaimed'
  <2>1. \A e \in relayQ' : e[1] \in ToMeshtastic(Mappings)
    BY <1>3 DEF Released, ChannelsClaimed, ToMeshtastic
  <2>2. ASSUME mtSession # NoSession, NEW e \in relayQ' \ relayQ, IndexOf(e[1]) # NoIdx
        PROVE  /\ e[2] = h.pkt /\ IndexOf(e[1]) \in Indexes \ h.relayedIdx
               /\ airedMt[IndexOf(e[1])][e[2]] = 0
               /\ \A f \in relayQ : e[2] = f[2] => IndexOf(e[1]) # IndexOf(f[1])
    <3>1. e[2] = h.pkt /\ IndexOf(e[1]) \in Indexes \ h.relayedIdx
      BY <1>3, <2>1, <2>2, ChannelsTyped DEF Released
    <3> QED
      BY <2>2, <3>1 DEF ChannelsClaimed
  <2>3. ASSUME mtSession # NoSession, NEW e \in relayQ', NEW f \in relayQ', e[2] = f[2],
               IndexOf(e[1]) = IndexOf(f[1]), IndexOf(e[1]) # NoIdx
        PROVE  e = f
    BY <1>3, <2>2, <2>3 DEF ChannelsClaimed, Released
  <2>4. ASSUME mtSession # NoSession, NEW e \in relayQ', IndexOf(e[1]) # NoIdx
        PROVE  airedMt[IndexOf(e[1])][e[2]] = 0
    BY <2>2, <2>4 DEF ChannelsClaimed
  <2>5. ASSUME mtSession # NoSession, NEW g \in scopeHolds', NEW i \in Indexes \ g.relayedIdx
        PROVE  airedMt[i][g.pkt] = 0 /\ \A e \in relayQ' : e[2] = g.pkt => IndexOf(e[1]) # i
    <3>1. g \in scopeHolds /\ g.pkt # rx.pkt
      BY <1>3 DEF Released, PacketInv, HoldsPending
    <3> QED
      BY <1>3, <2>5, <3>1 DEF ChannelsClaimed, Released
  <2> QED
    BY <1>1, <2>1, <2>3, <2>4, <2>5 DEF ChannelsClaimed
<1> QED
  BY <1>2, <1>3, ReleaseEffect DEF PacketInv

\* A relay is the only one of its packet for the channel it is sent on.
LEMMA ClaimedBySend ==
    ASSUME TypeOK, ChannelsClaimed, SentOncePerChannel,
           NEW m \in Mappings, NEW p \in Packets, SendMeshtastic(m, p)
    PROVE  ChannelsClaimed' /\ SentOncePerChannel'
<1>1. /\ <<m, p>> \in relayQ /\ relayQ' = relayQ \ {<<m, p>>}
      /\ mtSession' = mtSession /\ scopeHolds' = scopeHolds
      /\ \A n : IndexOf(n)' = IndexOf(n)
  BY DEF SendMeshtastic, holdVars, IndexOf
<1>2. CASE IndexOf(m) = NoIdx
  <2>1. airedMt' = airedMt
    BY <1>2 DEF SendMeshtastic
  <2> QED
    BY <1>1, <2>1 DEF ChannelsClaimed, SentOncePerChannel
<1>3. CASE IndexOf(m) # NoIdx
  <2>1. IndexOf(m) \in Indexes /\ mtSession # NoSession /\ airedMt[IndexOf(m)][p] = 0
    BY <1>1, <1>3, ChannelsTyped DEF ChannelsClaimed, IndexOf
  <2>2. \A i \in Indexes, x \in Packets :
          airedMt'[i][x] = IF i = IndexOf(m) /\ x = p THEN 1 ELSE airedMt[i][x]
    BY <1>3, <2>1 DEF SendMeshtastic, TypeOK
  <2>3. SentOncePerChannel'
    BY <2>2 DEF SentOncePerChannel
  <2>4. \A e \in relayQ' : e[1] \in ToMeshtastic(Mappings)
    BY <1>1 DEF ChannelsClaimed
  <2>5. ASSUME NEW e \in relayQ', IndexOf(e[1]) # NoIdx
        PROVE  airedMt'[IndexOf(e[1])][e[2]] = 0
    <3>1. e \in relayQ /\ e # <<m, p>> /\ e[2] \in Packets /\ IndexOf(e[1]) \in Indexes
      BY <1>1, <2>4, <2>5, ChannelsTyped DEF TypeOK
    <3>2. ~(e[2] = p /\ IndexOf(e[1]) = IndexOf(m))
      BY <1>1, <1>3, <2>1, <3>1 DEF ChannelsClaimed
    <3> QED
      BY <2>1, <2>2, <2>5, <3>1, <3>2 DEF ChannelsClaimed
  <2>6. ASSUME NEW h \in scopeHolds, NEW i \in Indexes \ h.relayedIdx
        PROVE  airedMt'[i][h.pkt] = 0
    <3>1. h.pkt \in Packets /\ airedMt[i][h.pkt] = 0
      BY <2>1, <2>6 DEF ChannelsClaimed, TypeOK, Hold
    <3>2. ~(h.pkt = p /\ i = IndexOf(m))
      BY <1>1, <2>1, <2>6 DEF ChannelsClaimed
    <3> QED
      BY <2>2, <2>6, <3>1, <3>2
  <2> QED
    BY <1>1, <2>1, <2>3, <2>4, <2>5, <2>6 DEF ChannelsClaimed
<1> QED
  BY <1>2, <1>3

\* While no session is replaced, no packet has two relays for one channel.
LEMMA ClaimedStep ==
    ASSUME TypeOK, PacketInv, ChannelsClaimed, SentOncePerChannel, ~Reconnects, [Next]_vars
    PROVE  ChannelsClaimed' /\ SentOncePerChannel'
<1>1. CASE FanOut
  BY <1>1, ClaimedByFanOut, FanOutEffect DEF SentOncePerChannel
<1>2. CASE ReleaseScopeHold
  BY <1>2, ClaimedByRelease, ReleaseEffect DEF SentOncePerChannel, PacketInv
<1>3. ASSUME NEW m \in Mappings, NEW p \in Packets, SendMeshtastic(m, p)
      PROVE  ChannelsClaimed' /\ SentOncePerChannel'
  BY <1>3, ClaimedBySend
<1>4. ASSUME NEW table \in Tables \cup {NoSession}, SetMeshtasticSession(table)
      PROVE  ChannelsClaimed' /\ SentOncePerChannel'
  BY <1>4 DEF SetMeshtasticSession, ChannelsClaimed, ToMeshtastic, SentOncePerChannel,
     relayVars
<1>5. CASE UNCHANGED <<relayQ, airedMt, mtSession>> /\ scopeHolds' \subseteq scopeHolds
  <2>1. \A m : IndexOf(m)' = IndexOf(m)
    BY <1>5 DEF IndexOf
  <2> QED
    BY <1>5, <2>1 DEF ChannelsClaimed, SentOncePerChannel
<1> QED
  BY <1>1, <1>2, <1>3, <1>4, <1>5, ChannelSteps

\* Whatever comes in twice goes out once: to a webhook always, and to a
\* Meshtastic channel while a lost session is not replaced.
THEOREM HandledJustOnce == ASSUME ~Reconnects PROVE Spec => []HandledOnce
<1> DEFINE Inv == ChannelsClaimed /\ SentOncePerChannel
<1>1. Init => Inv
  BY DEF Init, ChannelsClaimed, SentOncePerChannel
<1>2. TypeOK /\ PacketInv /\ Inv /\ [Next]_vars => Inv'
  BY ClaimedStep
<1>3. PostedOnce /\ Inv => HandledOnce
  BY DEF HandledOnce
<1> QED
  BY <1>1, <1>2, <1>3, InboundTypes, PacketInvariance, PostsAreSingle, PTL DEF Spec
=============================================================================
