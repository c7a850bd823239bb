--------------------------- MODULE MtBridgeProofs ---------------------------
(***************************************************************************)
(* Proofs about MtBridge, for any mappings, channels, texts and slots: on  *)
(* the way in and on the way out a name is resolved with the table of the  *)
(* session it belongs to, every bridge is served once, nothing of ours is  *)
(* relayed back, and a text goes without its retry only if a repeat of it, *)
(* or of an identical text, was heard.                                     *)
(***************************************************************************)
EXTENDS MtBridge, FiniteSetTheorems, TLAPS

\* Every configuration's primary channel has one of the names that stand for
\* the primary channel.
PrimaryWellKnown ==
    \A c \in Configs, i \in Slots : c[i].role = "primary" => c[i].name \in WellKnown

\* The device passed the frame on from the channel its packet was sent on.
Named(c, f) == f.kind = "text" /\ (f.loop \/ f.slot \in Meant(c, On[f.pkt]))

\* The table is that of a configuration c, in which every text that is still
\* to be handled was heard; while the session lives, the device has it still.
LinkInv ==
    Attached => \E c \in Configs :
        /\ table = Dumped(c)
        /\ \A k \in 1..Len(inbox) : Named(c, inbox[k])
        /\ phase = "live" => c = config /\ \A k \in 1..Len(wire) : Named(c, wire[k])

NoLoops == \A k \in 1..Len(inbox) : ~inbox[k].loop

\* A send that can still succeed has the slot its mapping's name stands for.
GuardInv ==
    \A p \in Own :
        /\ tx[p].sid <= sid
        /\ tx[p].pc = "guard" /\ Usable(p) => tx[p].slot \in Meant(config, MtName[By[p]])

NameInv == LinkInv /\ NoLoops /\ GuardInv /\ NamesFollowed

\* A key was recorded for a text that was handled, or for one of ours.
SeenInv ==
    /\ \A i \in Slots, p \in Pkts : <<i, p>> \in seen =>
          \/ p \in Own
          \/ \E h \in handled : /\ h.frame.pkt = p /\ h.frame.slot = i
                                /\ h.out \in {"echo", "merged", "relayed"}
    /\ \A r \in relays : <<r.frame.slot, r.frame.pkt>> \in seen

ServeInv == SeenInv /\ EachServedOnce

OwnInv ==
    /\ \A p \in Own : tx[p].pc = "guard" => <<tx[p].slot, p>> \in seen
    /\ \A a \in aired : <<a.slot, a.pkt>> \in seen

\* Sends of text t in slot i whose echo is still counted.
Awaiting(i, t) ==
    {p \in Own : tx[p].pc \in {"guard", "waiting"} /\ tx[p].slot = i /\ TextOf[p] = t}
Echoed(i, t) ==
    \E h \in handled : /\ h.out = "echo" /\ ~h.frame.loop
                       /\ h.frame.slot = i /\ TextOf[h.frame.pkt] = t

\* As long as no echo was heard, no pending echo is taken but by its own send.
CountInv ==
    \A i \in Slots, t \in Texts :
        Echoed(i, t) \/ Cardinality(Awaiting(i, t)) <= pending[i][t]

\* A send under way has a slot.
SlotInv == \A p \in Own : tx[p].pc \in {"guard", "waiting"} => tx[p].slot \in Slots

\* What every step keeps about the types.
TypeInv == TypeOK /\ SlotInv /\ \A k \in 1..Len(inbox) : inbox[k] \in got

-----------------------------------------------------------------------------
(* Slots, names and frames.                                                *)

\* A set of at most one slot is empty or a single slot.
LEMMA SmallSets ==
    ASSUME NEW S \in SUBSET Slots
    PROVE  /\ IsFiniteSet(S) /\ Cardinality(S) \in Nat
           /\ S # {} /\ Cardinality(S) <= 1 => \E i \in Slots : S = {i}
<1>1. IsFiniteSet(Slots)
  BY MtAssumption, FS_Interval DEF Slots
<1>2. IsFiniteSet(S)
  BY <1>1, FS_Subset
<1>3. Cardinality(S) \in Nat
  BY <1>2, FS_CardinalityType
<1>4. Cardinality(S) = 0 <=> S = {}
  BY <1>2, FS_EmptySet
<1>5. Cardinality(S) = 1 => \E i : S = {i}
  BY <1>2, FS_Singleton
<1> QED
  BY <1>2, <1>3, <1>4, <1>5

\* The slots a name means are slots.
LEMMA MeantSlots == \A c, n : Meant(c, n) \in SUBSET Slots
BY DEF Meant, Enabled

\* The last of one slot is that slot.
LEMMA LastOfOne ==
    ASSUME NEW i \in Slots
    PROVE  LastOf({i}) = i
<1>1. i \in Int
  BY MtAssumption DEF Slots
<1>2. \E k \in {i} : \A j \in {i} : j <= k
  BY <1>1
<1> QED
  BY <1>2 DEF LastOf

\* In a configuration a channel name stands for one slot at most.
LEMMA NamedOnce ==
    ASSUME NEW c \in Configs, NEW n \in Names
    PROVE  LET named == {i \in Enabled(c) : c[i].name = n}
           IN  IF named = {} THEN LastOf(named) = NoSlot
               ELSE \E i \in Slots : named = {i} /\ LastOf(named) = i
<1> DEFINE named == {i \in Enabled(c) : c[i].name = n}
<1>1. CASE named = {}
  BY <1>1 DEF LastOf
<1>2. CASE named # {}
  <2>1. Meant(c, n) = named
    BY <1>2 DEF Meant
  <2>2. Cardinality(named) <= 1
    BY <2>1, MtAssumption
  <2>3. named \in SUBSET Slots
    BY DEF Enabled
  <2>4. PICK i \in Slots : named = {i}
    BY <1>2, <2>2, <2>3, SmallSets
  <2> QED
    BY <2>4, LastOfOne
<1> QED
  BY <1>1, <1>2

\* A device has exactly one primary slot, and it is enabled.
LEMMA OnePrimary ==
    ASSUME NEW c \in Configs
    PROVE  \E i \in Slots : /\ {j \in Slots : c[j].role = "primary"} = {i}
                            /\ LastOf({j \in Enabled(c) : c[j].role = "primary"}) = i
<1> DEFINE prim == {j \in Slots : c[j].role = "primary"}
<1>1. prim \in SUBSET Slots /\ Cardinality(prim) = 1
  BY MtAssumption
<1> HIDE DEF prim
<1>2. prim # {} /\ Cardinality(prim) <= 1
  <2>1. prim # {}
    BY <1>1, FS_EmptySet
  <2> QED
    BY <2>1, <1>1
<1>3. PICK i \in Slots : prim = {i}
  BY <1>1, <1>2, SmallSets
<1>4. {j \in Enabled(c) : c[j].role = "primary"} = prim
  BY DEF Enabled, prim
<1> QED
  BY <1>3, <1>4, LastOfOne DEF prim

\* What a longer queue holds.
LEMMA AppendElements ==
    ASSUME NEW S, NEW s \in Seq(S), NEW e \in S
    PROVE  /\ Append(s, e) \in Seq(S) /\ Len(Append(s, e)) = Len(s) + 1
           /\ Len(s) \in Nat
           /\ \A k \in 1..Len(Append(s, e)) :
                 (k \in 1..Len(s) /\ Append(s, e)[k] = s[k]) \/ Append(s, e)[k] = e
OBVIOUS

\* What a shorter queue holds.
LEMMA TailElements ==
    ASSUME NEW S, NEW s \in Seq(S), s # <<>>
    PROVE  /\ Tail(s) \in Seq(S) /\ Len(Tail(s)) = Len(s) - 1
           /\ Len(s) \in Nat /\ 1 \in 1..Len(s) /\ Head(s) = s[1] /\ Head(s) \in S
           /\ \A k \in 1..Len(Tail(s)) : k + 1 \in 1..Len(s) /\ Tail(s)[k] = s[k + 1]
OBVIOUS

\* Text frames and channel updates are told apart by their kind.
LEMMA FrameFields ==
    /\ \A f \in Frames : /\ f.kind = "text" /\ f.slot \in Slots /\ f.pkt \in Pkts
                         /\ f.loop \in BOOLEAN
    /\ \A f \in Updates : f.kind = "channel"
    /\ \A f \in Frames \cup Updates : f.kind = "text" => f \in Frames
BY DEF Frames, Updates

\* Packets of our own have a mapping and a text.
LEMMA Owned == \A p \in Own : p \in Pkts /\ By[p] \in Mappings /\ TextOf[p] \in Texts
BY MtAssumption DEF Texts

-----------------------------------------------------------------------------
(* Types.                                                                  *)

\* The device's answer to a dump is a channel table.
LEMMA DumpedTyped ==
    ASSUME NEW c \in Configs
    PROVE  /\ Dumped(c).names \in [Names -> Slots \cup {NoSlot}]
           /\ Dumped(c).primary \in Slots
<1>1. \A n \in Names :
        LastOf({i \in Enabled(c) : c[i].name = n}) \in Slots \cup {NoSlot}
  BY NamedOnce
<1>2. LastOf({j \in Enabled(c) : c[j].role = "primary"}) \in Slots
  BY OnePrimary
<1> QED
  BY <1>1, <1>2 DEF Dumped

\* A name resolves to a slot, or to none.
LEMMA Resolved ==
    ASSUME TypeOK, NEW n
    PROVE  n \in Names => Resolve(n) \in Slots \cup {NoSlot}
BY MtAssumption DEF TypeOK, Resolve, Slots

\* Giving up a mark takes one off its count, which stays natural.
LEMMA GivenUp ==
    ASSUME TypeOK, NEW i \in Slots, NEW t \in Texts
    PROVE  /\ GiveUp(i, t) \in [Slots -> [Texts -> Nat]]
           /\ \A j \in Slots, u \in Texts :
                 GiveUp(i, t)[j][u] = IF j = i /\ u = t
                                      THEN IF pending[i][t] = 0 THEN 0 ELSE pending[i][t] - 1
                                      ELSE pending[j][u]
<1>1. /\ pending \in [Slots -> [Texts -> Nat]]
      /\ \A j \in Slots : pending[j] \in [Texts -> Nat]
      /\ pending[i][t] \in Nat
  BY DEF TypeOK
<1> DEFINE less == IF pending[i][t] = 0 THEN 0 ELSE pending[i][t] - 1
<1>2. less \in Nat
  BY <1>1
<1>3. GiveUp(i, t) = [pending EXCEPT ![i][t] = less]
  BY DEF GiveUp
<1> HIDE DEF less
<1>4. GiveUp(i, t) \in [Slots -> [Texts -> Nat]]
  BY <1>1, <1>2, <1>3
<1>5. \A j \in Slots, u \in Texts :
        GiveUp(i, t)[j][u] = IF j = i /\ u = t THEN less ELSE pending[j][u]
  BY <1>1, <1>2, <1>3
<1> QED
  BY <1>4, <1>5 DEF less

\* The types hold at first.
LEMMA TypesInit == Init => TypeInv
<1> SUFFICES ASSUME Init PROVE TypeInv
  OBVIOUS
<1>1. pending \in [Slots -> [Texts -> Nat]] /\ heard \in [Pkts -> 0..MaxHeard]
  BY MtAssumption DEF Init
<1>2. tx \in [Own -> [pc : {"new", "guard", "waiting", "over"}, sid : 0..MaxSessions,
                      slot : Slots \cup {NoSlot}, attempt : 0..1]]
  BY MtAssumption DEF Init
<1>3. table.names \in [Names -> Slots \cup {NoSlot}] /\ table.primary \in Slots \cup {NoSlot}
  BY DEF Init, NoTable
<1>4. wire = <<>> /\ inbox = <<>> /\ Len(inbox) = 0
  BY DEF Init
<1>5. SlotInv
  BY DEF Init, SlotInv
<1>6. /\ config \in Configs /\ sid \in 0..MaxSessions /\ phase = "down"
      /\ got = {} /\ seen = {} /\ content = {} /\ handled = {} /\ relays = {}
  BY MtAssumption DEF Init
<1> QED
  BY <1>1, <1>2, <1>3, <1>4, <1>5, <1>6, MtAssumption DEF TypeInv, TypeOK

\* Every step keeps the types.
LEMMA TypesNext ==
    ASSUME TypeInv, [Next]_vars
    PROVE  TypeInv'
<1> USE DEF vars, devVars, linkVars, keyVars, logVars
<1> DEFINE Loc == [pc : {"new", "guard", "waiting", "over"}, sid : 0..MaxSessions,
                   slot : Slots \cup {NoSlot}, attempt : 0..1]
<1>a. TypeOK /\ SlotInv /\ \A k \in 1..Len(inbox) : inbox[k] \in got
  BY DEF TypeInv
<1>b. /\ config \in Configs /\ heard \in [Pkts -> 0..MaxHeard]
      /\ sid \in 0..MaxSessions
      /\ phase \in {"down", "live", "over", "drain", "stopped"}
      /\ table.names \in [Names -> Slots \cup {NoSlot}]
      /\ table.primary \in Slots \cup {NoSlot}
      /\ wire \in Seq(Frames \cup Updates)
      /\ inbox \in Seq(Frames) /\ Len(inbox) <= TextCap /\ got \subseteq Frames
      /\ pending \in [Slots -> [Texts -> Nat]]
      /\ seen \subseteq Slots \X Pkts /\ content \subseteq Slots \X Texts
      /\ tx \in [Own -> Loc]
      /\ \A h \in handled : h.frame \in got
      /\ \A r \in relays : r.frame \in got /\ r.by \in Writable
  BY <1>a DEF TypeOK
<1>c. /\ TextCap \in Nat /\ MaxHeard \in Nat /\ MaxSessions \in Nat /\ Len(inbox) \in Nat
  BY <1>b, MtAssumption
<1>d. ASSUME NEW p \in Own
      PROVE  /\ tx[p] \in Loc /\ TextOf[p] \in Texts /\ p \in Pkts
             /\ MtName[By[p]] \in Names
             /\ tx[p].pc \in {"guard", "waiting"} => tx[p].slot \in Slots
  BY <1>a, <1>b, Owned DEF SlotInv, Names
<1>1. CASE UNCHANGED vars
  BY <1>1, <1>a, <1>b DEF TypeInv, TypeOK, SlotInv
<1>2. CASE Dial
  <2>1. /\ Dumped(config).names \in [Names -> Slots \cup {NoSlot}]
        /\ Dumped(config).primary \in Slots
    BY <1>b, DumpedTyped
  <2>2. wire' = <<>> /\ inbox' = <<>> /\ Len(inbox') = 0 /\ sid' \in 0..MaxSessions
    BY <1>2, <1>b, <1>c DEF Dial
  <2> QED
    BY <2>1, <2>2, <1>2, <1>a, <1>b, <1>c DEF Dial, TypeInv, TypeOK, SlotInv
<1>3. CASE ReadFrame
  <2>1. /\ Tail(wire) \in Seq(Frames \cup Updates)
        /\ Head(wire) \in Frames \cup Updates
    BY <1>3, <1>b, TailElements DEF ReadFrame
  <2>2. /\ table'.names \in [Names -> Slots \cup {NoSlot}]
        /\ table'.primary \in Slots \cup {NoSlot}
    <3>1. CASE UNCHANGED table
      BY <3>1, <1>b
    <3>2. CASE /\ Head(wire).kind = "channel"
               /\ table' = RecordChannel(table, Head(wire).slot, Head(wire).ch)
      <4>1. Head(wire).slot \in Slots
        BY <2>1, <3>2 DEF Frames, Updates
      <4> QED
        BY <4>1, <3>2, <1>b DEF RecordChannel
    <3> QED
      BY <3>1, <3>2, <1>3 DEF ReadFrame
  <2>3. /\ inbox' \in Seq(Frames) /\ Len(inbox') <= TextCap
        /\ got \subseteq got' /\ got' \subseteq Frames
        /\ \A k \in 1..Len(inbox') : inbox'[k] \in got'
    <3>1. CASE UNCHANGED <<inbox, got>>
      BY <3>1, <1>a, <1>b
    <3>2. CASE /\ Head(wire).kind = "text" /\ Len(inbox) < TextCap
               /\ inbox' = Append(inbox, Head(wire)) /\ got' = got \cup {Head(wire)}
      <4>1. Head(wire) \in Frames
        BY <2>1, <3>2, FrameFields
      <4> QED
        BY <4>1, <3>2, <1>a, <1>b, <1>c, AppendElements
    <3> QED
      BY <3>1, <3>2, <1>3 DEF ReadFrame, PassedUp
  <2>4. UNCHANGED <<config, heard, sid, phase, pending, seen, content, tx, handled, relays>>
        /\ wire' = Tail(wire)
    BY <1>3 DEF ReadFrame
  <2> QED
    BY <2>1, <2>2, <2>3, <2>4, <1>a, <1>b DEF TypeInv, TypeOK, SlotInv
<1>4. CASE Lost
  BY <1>4, <1>a, <1>b DEF Lost, TypeInv, TypeOK, SlotInv
<1>5. CASE Done
  BY <1>5, <1>a, <1>b DEF Done, TypeInv, TypeOK, SlotInv
<1>6. CASE Return
  BY <1>6, <1>a, <1>b DEF Return, TypeInv, TypeOK, SlotInv
<1>7. CASE Stop
  BY <1>7, <1>a, <1>b DEF Stop, TypeInv, TypeOK, SlotInv
<1>8. CASE Handle
  <2>1. /\ inbox' \in Seq(Frames) /\ Len(inbox') <= TextCap /\ UNCHANGED got
        /\ \A k \in 1..Len(inbox') : inbox'[k] \in got'
    BY <1>8, <1>a, <1>b, <1>c, TailElements DEF Handle
  <2> DEFINE f == Head(inbox)
  <2>2. f \in got /\ f.slot \in Slots /\ f.pkt \in Pkts /\ TextOf[f.pkt] \in Texts
    <3>1. 1 \in 1..Len(inbox) /\ f = inbox[1]
      BY <1>8, <1>b, TailElements DEF Handle
    <3>2. f \in got /\ f \in Frames
      BY <3>1, <1>a, <1>b
    <3> QED
      BY <3>2, FrameFields DEF Texts
  <2>3. pending' \in [Slots -> [Texts -> Nat]]
    BY <1>8, <2>2, <1>a, <1>b, GivenUp DEF Handle
  <2>4. seen' \subseteq Slots \X Pkts /\ content' \subseteq Slots \X Texts
    BY <1>8, <2>2, <1>b DEF Handle
  <2>5. \A h \in handled' : h.frame \in got'
    <3>1. \E o : handled' = handled \cup {[frame |-> f, out |-> o]}
      BY <1>8 DEF Handle
    <3> QED
      BY <3>1, <2>1, <2>2, <1>b
  <2>6. \A r \in relays' : r.frame \in got' /\ r.by \in Writable
    <3>1. \/ relays' = relays
          \/ \E s \in SUBSET Writable :
                relays' = relays \cup {[frame |-> f, by |-> m] : m \in s}
      BY <1>8 DEF Handle, Claims
    <3> QED
      BY <3>1, <2>1, <2>2, <1>b
  <2>7. UNCHANGED <<config, heard, sid, phase, table, wire, tx>>
    BY <1>8 DEF Handle
  <2> QED
    BY <2>1, <2>3, <2>4, <2>5, <2>6, <2>7, <1>a, <1>b DEF TypeInv, TypeOK, SlotInv
<1>9. CASE \E p \in Pkts : DeviceHears(p)
  <2>1. PICK p \in Pkts : DeviceHears(p)
    BY <1>9
  <2>2. heard[p] \in 0..MaxHeard /\ heard' \in [Pkts -> 0..MaxHeard]
    BY <2>1, <1>b, <1>c DEF DeviceHears
  <2>3. wire' \in Seq(Frames \cup Updates)
    <3>1. PICK i \in Meant(config, On[p]) :
             wire' = IF phase = "live"
                     THEN Append(wire, [kind |-> "text", pkt |-> p, copy |-> heard[p],
                                        slot |-> i, loop |-> FALSE])
                     ELSE wire
      BY <2>1 DEF DeviceHears
    <3>2. [kind |-> "text", pkt |-> p, copy |-> heard[p], slot |-> i, loop |-> FALSE]
            \in Frames
      BY <2>2, MeantSlots DEF Frames
    <3> QED
      BY <3>1, <3>2, <1>b
  <2> QED
    BY <2>1, <2>2, <2>3, <1>a, <1>b DEF DeviceHears, TypeInv, TypeOK, SlotInv
<1>10. CASE \E c \in Configs : Reconfigure(c)
  <2>1. PICK c \in Configs : Reconfigure(c)
    BY <1>10
  <2>2. wire' \in Seq(Frames \cup Updates)
    <3>1. CASE UNCHANGED wire
      BY <3>1, <1>b
    <3>2. ASSUME NEW q \in [1..Cardinality(Changed(c)) -> Changed(c)],
                 wire' = [k \in DOMAIN q |->
                            [kind |-> "channel", slot |-> q[k], ch |-> c[q[k]]]]
          PROVE  wire' \in Seq(Frames \cup Updates)
      <4>1. Changed(c) \in SUBSET Slots
        BY DEF Changed
      <4>2. Cardinality(Changed(c)) \in Nat
        BY <4>1, SmallSets
      <4>3. \A k \in DOMAIN q :
              [kind |-> "channel", slot |-> q[k], ch |-> c[q[k]]] \in Frames \cup Updates
        BY <4>1, <2>1 DEF Updates
      <4> QED
        BY <4>2, <4>3, <3>2
    <3> QED
      BY <3>1, <3>2, <2>1 DEF Reconfigure
  <2> QED
    BY <2>1, <2>2, <1>a, <1>b DEF Reconfigure, TypeInv, TypeOK, SlotInv
<1>11. ASSUME NEW p \in Own, Announce(p) PROVE TypeInv'
  <2> DEFINE i == Resolve(MtName[By[p]])
  <2>1. i \in Slots
    BY <1>11, <1>a, <1>d, Resolved DEF Announce
  <2> HIDE DEF i
  <2>2. /\ tx' = [tx EXCEPT ![p].pc = "guard", ![p].sid = sid, ![p].slot = i]
        /\ seen' = seen \cup {<<i, p>>}
        /\ pending' = [pending EXCEPT ![i][TextOf[p]] = @ + 1]
        /\ UNCHANGED <<devVars, linkVars, content, logVars>>
    BY <1>11 DEF Announce, i
  <2> DEFINE sent == [tx[p] EXCEPT !.pc = "guard", !.sid = sid, !.slot = i]
  <2>3. tx' \in [Own -> Loc]
    <3>1. sent \in Loc
      BY <2>1, <1>b, <1>d
    <3>2. tx' = [tx EXCEPT ![p] = sent]
      BY <2>2
    <3> HIDE DEF sent
    <3> QED
      BY <3>1, <3>2, <1>b
  <2>4. SlotInv'
    BY <2>1, <2>2, <1>b, <1>d DEF SlotInv
  <2>5. pending' \in [Slots -> [Texts -> Nat]] /\ seen' \subseteq Slots \X Pkts
    BY <2>1, <2>2, <1>b, <1>d
  <2> QED
    BY <2>2, <2>3, <2>4, <2>5, <1>a, <1>b DEF TypeInv, TypeOK
<1>12. ASSUME NEW p \in Own, Drop(p) PROVE TypeInv'
  <2>1. tx' \in [Own -> Loc] /\ SlotInv'
    BY <1>12, <1>b, <1>d DEF Drop, SlotInv
  <2> QED
    BY <2>1, <1>12, <1>a, <1>b DEF Drop, TypeInv, TypeOK
<1>13. ASSUME NEW p \in Own, Send(p) PROVE TypeInv'
  <2>1. tx' \in [Own -> Loc] /\ SlotInv'
    BY <1>13, <1>b, <1>d DEF Send, SlotInv
  <2>2. wire' \in Seq(Frames \cup Updates)
    <3>1. [kind |-> "text", pkt |-> p, copy |-> 0, slot |-> tx[p].slot, loop |-> TRUE]
            \in Frames
      BY <1>13, <1>c, <1>d DEF Send, Frames
    <3>2. CASE wire' = wire
      BY <3>2, <1>b
    <3> DEFINE back == [kind |-> "text", pkt |-> p, copy |-> 0, slot |-> tx[p].slot,
                        loop |-> TRUE]
    <3>3. CASE wire' = Append(wire, back)
      <4>1. back \in Frames \cup Updates
        BY <3>1
      <4> HIDE DEF back
      <4> QED
        BY <4>1, <3>3, <1>b, AppendElements
    <3> QED
      BY <3>2, <3>3, <1>13 DEF Send
  <2> QED
    BY <2>1, <2>2, <1>13, <1>a, <1>b DEF Send, TypeInv, TypeOK
<1>14. ASSUME NEW p \in Own, SendFails(p) PROVE TypeInv'
  <2>1. tx' \in [Own -> Loc] /\ SlotInv'
    BY <1>14, <1>b, <1>d DEF SendFails, SlotInv
  <2>2. pending' \in [Slots -> [Texts -> Nat]]
    BY <1>14, <1>a, <1>d, GivenUp DEF SendFails
  <2>3. wire' \in Seq(Frames \cup Updates)
        /\ phase' \in {"down", "live", "over", "drain", "stopped"}
    BY <1>14, <1>b DEF SendFails
  <2> QED
    BY <2>1, <2>2, <2>3, <1>14, <1>a, <1>b DEF SendFails, TypeInv, TypeOK
<1>15. ASSUME NEW p \in Own, Check(p) PROVE TypeInv'
  <2> DEFINE again == [tx[p] EXCEPT !.pc = "new", !.attempt = 1]
             done == [tx[p] EXCEPT !.pc = "over", !.attempt = tx[p].attempt]
  <2>1. tx' = [tx EXCEPT ![p] = again] \/ tx' = [tx EXCEPT ![p] = done]
    BY <1>15, <1>b, <1>d DEF Check
  <2>a. tx[p] \in Loc /\ 1 \in 0..1 /\ tx[p].attempt \in 0..1
    BY <1>d
  <2>c. again \in Loc /\ again.pc = "new"
    BY <2>a
  <2>d. done \in Loc /\ done.pc = "over"
    BY <2>a
  <2>e. tx \in [Own -> Loc]
    BY <1>b
  <2> HIDE DEF again, done
  <2>f. tx' \in [Own -> Loc] /\ tx'[p] \in {again, done}
        /\ \A q \in Own : q # p => tx'[q] = tx[q]
    <3> HIDE DEF Loc
    <3> QED
      BY <2>1, <2>c, <2>d, <2>e
  <2>b. SlotInv'
    <3>0. tx'[p].pc \in {"new", "over"}
      BY <2>c, <2>d, <2>f
    <3>1. ASSUME NEW q \in Own, tx'[q].pc \in {"guard", "waiting"}
          PROVE  tx'[q].slot \in Slots
      <4>1. q # p
        BY <3>0, <3>1
      <4>2. tx'[q] = tx[q]
        BY <4>1, <2>f
      <4> QED
        BY <3>1, <4>2, <1>d
    <3> QED
      BY <3>1 DEF SlotInv
  <2>2. pending' \in [Slots -> [Texts -> Nat]]
    BY <1>15, <1>a, <1>d, GivenUp DEF Check
  <2> QED
    BY <2>f, <2>b, <2>2, <1>15, <1>a, <1>b DEF Check, TypeInv, TypeOK
<1> HIDE DEF TypeInv
<1> QED
  BY <1>1, <1>2, <1>3, <1>4, <1>5, <1>6, <1>7, <1>8, <1>9, <1>10, <1>11, <1>12, <1>13,
     <1>14, <1>15 DEF Next, Link, Transmit

\* The types hold throughout.
LEMMA TypesKept == Spec => []TypeInv
<1>1. TypeInv /\ UNCHANGED vars => TypeInv'
  BY TypesNext
<1> QED
  BY TypesInit, TypesNext, PTL DEF Spec

\* Whatever the device and the sessions do, the state has its types: slots are
\* the device's, textCh is never over its capacity, and what was handled or
\* relayed had been put into textCh.
THEOREM MtTypes == Spec => []TypeOK
<1>1. TypeInv => TypeOK
  BY DEF TypeInv
<1> QED
  BY <1>1, TypesKept, PTL

-----------------------------------------------------------------------------
(* What is ours.                                                           *)

\* What a handled text leaves behind.
LEMMA HandleEffect ==
    ASSUME TypeInv, Handle
    PROVE  LET f == Head(inbox) IN
           /\ f \in Frames /\ inbox[1] = f /\ 1 \in 1..Len(inbox) /\ f \in got
           /\ f.slot \in Slots /\ f.pkt \in Pkts /\ TextOf[f.pkt] \in Texts
           /\ seen \subseteq seen' /\ relays \subseteq relays' /\ handled \subseteq handled'
           /\ \A r \in relays' \ relays : r.frame = f /\ <<f.slot, f.pkt>> \notin seen
<1> DEFINE f == Head(inbox)
<1>1. inbox \in Seq(Frames) /\ inbox # <<>> /\ \A k \in 1..Len(inbox) : inbox[k] \in got
  BY DEF TypeInv, TypeOK, Handle
<1>2. f \in Frames /\ inbox[1] = f /\ 1 \in 1..Len(inbox)
  BY <1>1, TailElements
<1>3. f.slot \in Slots /\ f.pkt \in Pkts /\ TextOf[f.pkt] \in Texts
  BY <1>2, FrameFields DEF Texts
<1>4. seen \subseteq seen' /\ relays \subseteq relays' /\ handled \subseteq handled'
  BY DEF Handle, keyVars
<1>5. \A r \in relays' \ relays : r.frame = f /\ <<f.slot, f.pkt>> \notin seen
  <2>1. \/ relays' = relays
        \/ /\ <<f.slot, f.pkt>> \notin seen
           /\ \E s : relays' = relays \cup {[frame |-> f, by |-> m] : m \in s}
    BY DEF Handle, keyVars
  <2> QED
    BY <2>1
<1> QED
  BY <1>1, <1>2, <1>3, <1>4, <1>5

\* Nothing of ours is on the air at first.
LEMMA OwnInit == Init => OwnInv
BY DEF Init, OwnInv

\* What was aired stays known, through every step.
LEMMA OwnNext ==
    ASSUME TypeInv, OwnInv, [Next]_vars
    PROVE  OwnInv'
<1> USE DEF vars, devVars, linkVars, keyVars, logVars
<1>a. tx \in [Own -> [pc : {"new", "guard", "waiting", "over"}, sid : 0..MaxSessions,
                      slot : Slots \cup {NoSlot}, attempt : 0..1]]
  BY DEF TypeInv, TypeOK
<1>1. CASE UNCHANGED <<tx, seen, aired>>
  BY <1>1 DEF OwnInv
<1>2. CASE Handle
  <2>1. seen \subseteq seen'
    BY <1>2, HandleEffect
  <2> QED
    BY <2>1, <1>2 DEF Handle, OwnInv
<1>3. ASSUME NEW p \in Own, Announce(p) PROVE OwnInv'
  <2>1. PICK i : /\ tx' = [tx EXCEPT ![p].pc = "guard", ![p].sid = sid, ![p].slot = i]
                 /\ seen' = seen \cup {<<i, p>>}
    BY <1>3 DEF Announce
  <2>2. tx'[p].slot = i /\ \A q \in Own : q # p => tx'[q] = tx[q]
    BY <2>1, <1>a
  <2> QED
    BY <2>1, <2>2, <1>3 DEF Announce, OwnInv
<1>4. ASSUME NEW p \in Own, Drop(p) \/ SendFails(p) \/ Check(p) PROVE OwnInv'
  <2>1. tx'[p].pc \in {"new", "over"} /\ \A q \in Own : q # p => tx'[q] = tx[q]
    BY <1>4, <1>a DEF Drop, SendFails, Check
  <2>2. UNCHANGED <<seen, aired>>
    BY <1>4 DEF Drop, SendFails, Check
  <2> QED
    BY <2>1, <2>2 DEF OwnInv
<1>5. ASSUME NEW p \in Own, Send(p) PROVE OwnInv'
  <2>1. tx'[p].pc \in {"waiting", "over"} /\ \A q \in Own : q # p => tx'[q] = tx[q]
    BY <1>5, <1>a DEF Send
  <2>2. /\ UNCHANGED seen
        /\ \E m : aired' = aired \cup {[pkt |-> p, slot |-> tx[p].slot, meant |-> m]}
    BY <1>5 DEF Send
  <2>3. <<tx[p].slot, p>> \in seen
    BY <1>5 DEF Send, OwnInv
  <2> QED
    BY <2>1, <2>2, <2>3 DEF OwnInv
<1>6. CASE Link \/ (\E p \in Pkts : DeviceHears(p)) \/ (\E c \in Configs : Reconfigure(c))
  <2>1. UNCHANGED <<tx, seen, aired>>
    BY <1>6 DEF Link, Dial, ReadFrame, Lost, Done, Return, Stop, DeviceHears, Reconfigure
  <2> QED
    BY <2>1, <1>1
<1>7. CASE UNCHANGED vars
  BY <1>7, <1>1
<1> HIDE DEF OwnInv
<1> QED
  BY <1>2, <1>3, <1>4, <1>5, <1>6, <1>7 DEF Next, Transmit

\* What was aired is known throughout.
LEMMA OwnKept == Spec => [](TypeInv /\ OwnInv)
<1>1. Init => TypeInv /\ OwnInv
  BY TypesInit, OwnInit
<1>2. TypeInv /\ OwnInv /\ [Next]_vars => (TypeInv /\ OwnInv)'
  BY TypesNext, OwnNext
<1> QED
  BY <1>1, <1>2, PTL DEF Spec

\* No step relays what we aired on the channel it came back on.
LEMMA OwnStep ==
    ASSUME TypeInv, OwnInv, [Next]_vars, NEW r \in relays' \ relays, NEW a \in aired
    PROVE  ~ (r.frame.pkt = a.pkt /\ r.frame.slot = a.slot)
<1> USE DEF vars, devVars, linkVars, keyVars, logVars
<1>1. Handle
  <2>1. \/ UNCHANGED relays \/ Handle
    BY DEF Next, Link, Transmit, Dial, ReadFrame, Lost, Done, Return, Stop, DeviceHears,
           Reconfigure, Announce, Drop, Send, SendFails, Check
  <2> QED
    BY <2>1
<1>2. r.frame = Head(inbox) /\ <<Head(inbox).slot, Head(inbox).pkt>> \notin seen
  BY <1>1, HandleEffect
<1>3. <<a.slot, a.pkt>> \in seen
  BY DEF OwnInv
<1> QED
  BY <1>2, <1>3

\* A packet of ours is never relayed when it comes back in a slot it was sent
\* in, whatever became of its retry check or its pending echo: its key was
\* recorded before the device took it, and no step takes a key out.
THEOREM OwnIsLeftOut == Spec => OwnStaysOut
<1>1. TypeInv /\ OwnInv /\ [Next]_vars =>
        [\A r \in relays' \ relays, a \in aired :
            ~ (r.frame.pkt = a.pkt /\ r.frame.slot = a.slot)]_vars
  BY OwnStep
<1> QED
  BY <1>1, OwnKept, PTL DEF Spec, OwnStaysOut

-----------------------------------------------------------------------------
(* Names.                                                                  *)

\* With the table of a configuration a name gets the slot it stands for there.
LEMMA ResolvedAsMeant ==
    ASSUME NEW c \in Configs, table = Dumped(c), NEW n \in Names
    PROVE  /\ Resolve(n) # NoSlot => Resolve(n) \in Meant(c, n)
           /\ Meant(c, n) # {} => Meant(c, n) = {Resolve(n)} /\ Resolve(n) \in Slots
<1> DEFINE named == {i \in Enabled(c) : c[i].name = n}
           prim == {j \in Slots : c[j].role = "primary"}
<1>1. table.names[n] = LastOf(named)
  BY DEF Dumped
<1>2. PICK i \in Slots : prim = {i} /\ table.primary = i
  BY OnePrimary DEF Dumped
<1>3. Meant(c, n) = IF named = {} /\ n \in WellKnown THEN prim ELSE named
  BY DEF Meant
<1>4. NoSlot \notin Slots
  BY MtAssumption
<1>5. IF named = {} THEN LastOf(named) = NoSlot
      ELSE \E k \in Slots : named = {k} /\ LastOf(named) = k
  BY NamedOnce
<1> HIDE DEF named, prim
<1>6. CASE named = {}
  BY <1>6, <1>1, <1>2, <1>3, <1>4, <1>5 DEF Resolve
<1>7. CASE named # {}
  BY <1>7, <1>1, <1>3, <1>4, <1>5 DEF Resolve
<1> QED
  BY <1>6, <1>7

\* Two names that stand for one slot are the same, or both stand for the
\* primary channel.
LEMMA NamesOfSlot ==
    ASSUME PrimaryWellKnown, NEW c \in Configs, NEW n, NEW k,
           NEW i \in Meant(c, n), i \in Meant(c, k)
    PROVE  n = k \/ {n, k} \subseteq WellKnown
<1>1. i \in Slots
  BY MeantSlots
<1>2. ASSUME NEW m, i \in Meant(c, m)
      PROVE  c[i].name = m \/ {m, c[i].name} \subseteq WellKnown
  BY <1>1, <1>2 DEF Meant, Enabled, PrimaryWellKnown
<1>3. c[i].name = n \/ {n, c[i].name} \subseteq WellKnown
  BY <1>2
<1>4. c[i].name = k \/ {k, c[i].name} \subseteq WellKnown
  BY <1>2
<1> QED
  BY <1>3, <1>4

\* Nothing has been looked up at first.
LEMMA NamesInit == Init => NameInv
BY DEF Init, NameInv, LinkInv, NoLoops, GuardInv, Attached, NamesFollowed,
       RelaysFollowNames, SentOnNamedChannel

\* What does not depend on how the device is configured.
LEMMA NoLoopsNext ==
    ASSUME TypeInv, NoLoops, [Next]_vars
    PROVE  NoLoops'
<1> USE DEF vars, devVars, linkVars, keyVars, logVars
<1>a. inbox \in Seq(Frames) /\ wire \in Seq(Frames \cup Updates)
  BY DEF TypeInv, TypeOK
<1>1. CASE UNCHANGED inbox
  BY <1>1 DEF NoLoops
<1>2. CASE Dial
  BY <1>2 DEF Dial, NoLoops
<1>3. CASE ReadFrame
  <2>1. CASE UNCHANGED inbox
    BY <2>1, <1>1
  <2>2. CASE inbox' = Append(inbox, Head(wire)) /\ Head(wire).kind = "text" /\ ~Head(wire).loop
    <3>1. Head(wire) \in Frames
      BY <1>3, <1>a, <2>2, TailElements, FrameFields DEF ReadFrame
    <3> QED
      BY <3>1, <2>2, <1>a, AppendElements DEF NoLoops
  <2> QED
    BY <2>1, <2>2, <1>3 DEF ReadFrame, PassedUp
<1>4. CASE Handle
  BY <1>4, <1>a, TailElements DEF Handle, NoLoops
<1> HIDE DEF NoLoops
<1> QED
  BY <1>1, <1>2, <1>3, <1>4 DEF Next, Link, Transmit, Lost, Done, Return, Stop, DeviceHears,
     Reconfigure, Announce, Drop, Send, SendFails, Check

\* Without rewiring, the table stays that of the device's configuration.
LEMMA LinkNext ==
    ASSUME ~Rewires, TypeInv, LinkInv, [Next]_vars
    PROVE  LinkInv'
<1> USE DEF vars, devVars, linkVars, keyVars, logVars
<1>a. /\ config \in Configs /\ inbox \in Seq(Frames) /\ wire \in Seq(Frames \cup Updates)
      /\ \A p \in Own : p \in Pkts
  BY Owned DEF TypeInv, TypeOK
<1> DEFINE Linked(c) == /\ table = Dumped(c)
                        /\ \A k \in 1..Len(inbox) : Named(c, inbox[k])
                        /\ phase = "live" => /\ c = config
                                             /\ \A k \in 1..Len(wire) : Named(c, wire[k])
<1>b. Attached => \E c \in Configs : Linked(c)
  BY DEF LinkInv
<1>c. ASSUME NEW c \in Configs, Linked(c)' PROVE LinkInv'
  BY <1>c DEF LinkInv
<1>1. CASE UNCHANGED <<config, phase, table, wire, inbox>>
  BY <1>1 DEF LinkInv, Attached, Named
<1>2. CASE Dial
  <2>1. Linked(config)'
    BY <1>2 DEF Dial
  <2> QED
    BY <2>1, <1>2, <1>a DEF Dial, LinkInv
<1>3. CASE ReadFrame
  <2>1. PICK c \in Configs : Linked(c)
    BY <1>3, <1>b DEF ReadFrame, Attached
  <2>2. phase = "live" /\ wire # <<>>
    BY <1>3 DEF ReadFrame
  <2>3. Named(c, Head(wire)) /\ Head(wire).kind = "text"
    BY <2>1, <2>2, <1>a, TailElements DEF Named
  <2>4. Head(wire) \in Frames
    BY <2>2, <2>3, <1>a, TailElements, FrameFields
  <2>5. UNCHANGED <<config, table, phase>> /\ wire' = Tail(wire)
    BY <1>3, <2>3 DEF ReadFrame
  <2>6. \A k \in 1..Len(wire') : Named(c, wire'[k])
    BY <2>1, <2>2, <2>5, <1>a, TailElements
  <2>7. \A k \in 1..Len(inbox') : Named(c, inbox'[k])
    <3>1. CASE UNCHANGED inbox
      BY <3>1, <2>1
    <3>2. CASE inbox' = Append(inbox, Head(wire))
      BY <3>2, <2>1, <2>3, <2>4, <1>a, AppendElements
    <3> QED
      BY <3>1, <3>2, <1>3 DEF ReadFrame
  <2>8. Linked(c)'
    BY <2>1, <2>2, <2>5, <2>6, <2>7 DEF Named
  <2> QED
    BY <2>8, <1>c
<1>4. CASE Lost \/ Done \/ Return \/ Stop
  <2>1. UNCHANGED <<table, inbox>> /\ phase' # "live" /\ (Attached' => Attached)
    BY <1>4 DEF Lost, Done, Return, Stop, Attached
  <2> QED
    BY <2>1 DEF LinkInv, Named
<1>5. CASE Handle
  <2>1. PICK c \in Configs : Linked(c)
    BY <1>5, <1>b DEF Handle, Attached
  <2>2. \A k \in 1..Len(inbox') : Named(c, inbox'[k])
    BY <2>1, <1>5, <1>a, TailElements DEF Handle
  <2>3. UNCHANGED <<config, phase, table, wire>>
    BY <1>5 DEF Handle
  <2>4. Linked(c)'
    BY <2>1, <2>2, <2>3 DEF Named
  <2> QED
    BY <2>4, <1>c
<1>6. CASE \E p \in Pkts : DeviceHears(p)
  <2>1. PICK p \in Pkts : DeviceHears(p)
    BY <1>6
  <2>2. UNCHANGED <<config, phase, table, inbox>>
    BY <2>1 DEF DeviceHears
  <2>3. CASE phase # "live"
    BY <2>1, <2>2, <2>3, <1>1 DEF DeviceHears
  <2>4. CASE phase = "live"
    <3>1. Linked(config)
      BY <2>4, <1>b DEF Attached
    <3>2. PICK i \in Meant(config, On[p]) :
             wire' = Append(wire, [kind |-> "text", pkt |-> p, copy |-> heard[p],
                                   slot |-> i, loop |-> FALSE])
      BY <2>1, <2>4 DEF DeviceHears
    <3> DEFINE f == [kind |-> "text", pkt |-> p, copy |-> heard[p], slot |-> i, loop |-> FALSE]
    <3>3. f \in Frames /\ Named(config, f)
      <4>1. heard[p] \in 0..MaxHeard
        BY <2>1 DEF DeviceHears, TypeInv, TypeOK
      <4>2. i \in Slots
        BY MeantSlots
      <4> QED
        BY <4>1, <4>2 DEF Frames, Named
    <3> HIDE DEF f
    <3>4. \A k \in 1..Len(wire') : Named(config, wire'[k])
      BY <3>1, <3>2, <3>3, <2>4, <1>a, AppendElements DEF f
    <3>5. Linked(config)'
      BY <2>2, <3>1, <3>4, <2>4 DEF Named
    <3> QED
      BY <3>5, <1>a, <2>2 DEF LinkInv
  <2> QED
    BY <2>3, <2>4
<1>7. CASE \E c \in Configs : Reconfigure(c)
  <2>1. phase # "live" /\ UNCHANGED <<phase, table, wire, inbox>>
    BY <1>7 DEF Reconfigure
  <2> QED
    BY <2>1 DEF LinkInv, Attached, Named
<1>8. ASSUME NEW p \in Own, Send(p) PROVE LinkInv'
  <2> DEFINE f == [kind |-> "text", pkt |-> p, copy |-> 0, slot |-> tx[p].slot, loop |-> TRUE]
  <2>1. UNCHANGED <<config, phase, table, inbox>> /\ phase = "live"
    BY <1>8 DEF Send, Usable
  <2>2. CASE wire' = wire
    BY <2>1, <2>2, <1>1
  <2>3. CASE wire' = Append(wire, f)
    <3>1. Linked(config)
      BY <2>1, <1>b DEF Attached
    <3>2. f \in Frames /\ Named(config, f)
      <4>1. tx[p].slot \in Slots /\ MaxHeard \in Nat
        BY <1>8, MtAssumption DEF Send, TypeInv, SlotInv
      <4> QED
        BY <4>1, <1>a DEF Frames, Named
    <3> HIDE DEF f
    <3>3. \A k \in 1..Len(wire') : Named(config, wire'[k])
      BY <2>1, <2>3, <3>1, <3>2, <1>a, AppendElements
    <3>4. Linked(config)'
      BY <2>1, <3>1, <3>3 DEF Named
    <3> QED
      BY <3>4, <1>a, <2>1 DEF LinkInv
  <2> QED
    BY <2>2, <2>3, <1>8 DEF Send
<1>9. ASSUME NEW p \in Own, SendFails(p) PROVE LinkInv'
  <2>1. UNCHANGED <<config, table, inbox>>
    BY <1>9 DEF SendFails
  <2>2. CASE Usable(p)
    <3>1. Attached /\ phase' = "over"
      BY <2>2, <1>9 DEF Usable, Attached, SendFails
    <3> QED
      BY <2>1, <3>1 DEF LinkInv, Named
  <2>3. CASE ~Usable(p)
    BY <2>1, <2>3, <1>1, <1>9 DEF SendFails
  <2> QED
    BY <2>2, <2>3
<1>10. ASSUME NEW p \in Own, Announce(p) \/ Drop(p) \/ Check(p) PROVE LinkInv'
  BY <1>1, <1>10 DEF Announce, Drop, Check
<1> HIDE DEF LinkInv
<1> QED
  BY <1>1, <1>2, <1>3, <1>4, <1>5, <1>6, <1>7, <1>8, <1>9, <1>10 DEF Next, Link, Transmit

\* Without rewiring, a send that can still succeed keeps a right slot.
LEMMA GuardNext ==
    ASSUME ~Rewires, TypeInv, LinkInv, GuardInv, [Next]_vars
    PROVE  GuardInv'
<1> USE DEF vars, devVars, linkVars, keyVars, logVars
<1>a. /\ sid \in Nat /\ MaxSessions \in Nat
      /\ tx \in [Own -> [pc : {"new", "guard", "waiting", "over"}, sid : 0..MaxSessions,
                         slot : Slots \cup {NoSlot}, attempt : 0..1]]
  BY MtAssumption DEF TypeInv, TypeOK
<1>b. \A p \in Own : tx[p].sid \in Int /\ tx[p].sid <= sid /\ MtName[By[p]] \in Names
  BY <1>a, Owned DEF GuardInv, Names
<1>1. CASE /\ UNCHANGED <<sid, tx>>
           /\ phase' = "live" => phase = "live" /\ UNCHANGED config
  BY <1>1 DEF GuardInv, Usable
<1>2. CASE Dial
  <2>1. sid' = sid + 1 /\ UNCHANGED tx
    BY <1>2 DEF Dial
  <2>2. \A p \in Own : tx'[p].sid <= sid' /\ tx'[p].sid # sid'
    BY <2>1, <1>a, <1>b
  <2> QED
    BY <2>2 DEF GuardInv, Usable
<1>3. CASE ReadFrame \/ Lost \/ Done \/ Return \/ Stop \/ Handle
  <2>1. UNCHANGED <<sid, tx, config>> /\ (phase' = "live" => phase = "live")
    BY <1>3 DEF ReadFrame, Lost, Done, Return, Stop, Handle
  <2> QED
    BY <2>1, <1>1
<1>4. CASE \E p \in Pkts : DeviceHears(p)
  BY <1>4, <1>1 DEF DeviceHears
<1>5. CASE \E c \in Configs : Reconfigure(c)
  <2>1. UNCHANGED <<sid, tx, phase>> /\ phase # "live"
    BY <1>5 DEF Reconfigure
  <2> QED
    BY <2>1, <1>1
<1>6. ASSUME NEW p \in Own, Announce(p) PROVE GuardInv'
  <2> DEFINE i == Resolve(MtName[By[p]])
  <2>1. i # NoSlot /\ UNCHANGED <<sid, config, phase>> /\ Attached
    BY <1>6 DEF Announce
  <2>2. phase = "live" => i \in Meant(config, MtName[By[p]])
    <3>1. CASE phase = "live"
      <4>1. config \in Configs /\ table = Dumped(config)
        BY <3>1 DEF LinkInv, Attached
      <4> QED
        BY <4>1, <2>1, <1>b, ResolvedAsMeant
    <3> QED
      BY <3>1
  <2>3. tx' = [tx EXCEPT ![p].pc = "guard", ![p].sid = sid, ![p].slot = i]
    BY <1>6 DEF Announce
  <2> HIDE DEF i
  <2>4. /\ tx'[p].sid = sid /\ tx'[p].slot = i
        /\ \A q \in Own : q # p => tx'[q] = tx[q]
    BY <2>3, <1>a
  <2> QED
    BY <2>1, <2>2, <2>4, <1>a DEF GuardInv, Usable
<1>7. ASSUME NEW p \in Own, Drop(p) \/ Send(p) \/ SendFails(p) \/ Check(p)
      PROVE  GuardInv'
  <2>1. /\ tx'[p].pc # "guard" /\ tx'[p].sid = tx[p].sid
        /\ \A q \in Own : q # p => tx'[q] = tx[q]
    BY <1>7, <1>a DEF Drop, Send, SendFails, Check
  <2>2. UNCHANGED <<sid, config>> /\ (phase' = "live" => phase = "live")
    BY <1>7 DEF Drop, Send, SendFails, Check
  <2> QED
    BY <2>1, <2>2 DEF GuardInv, Usable
<1>8. CASE UNCHANGED vars
  BY <1>8, <1>1
<1> HIDE DEF GuardInv
<1> QED
  BY <1>2, <1>3, <1>4, <1>5, <1>6, <1>7, <1>8 DEF Next, Link, Transmit

\* No step takes a text to a channel its name does not mean.
LEMMA FollowedNext ==
    ASSUME ~Rewires, PrimaryWellKnown, TypeInv, NameInv, [Next]_vars
    PROVE  NamesFollowed'
<1> USE DEF vars, devVars, linkVars, keyVars, logVars
<1>1. CASE UNCHANGED <<relays, aired>>
  BY <1>1 DEF NameInv, NamesFollowed, RelaysFollowNames, SentOnNamedChannel
<1>2. CASE Handle
  <2> DEFINE f == Head(inbox)
  <2>1. f \in Frames /\ inbox[1] = f /\ 1 \in 1..Len(inbox) /\ f.slot \in Slots
    BY <1>2, HandleEffect
  <2>2. PICK c \in Configs : table = Dumped(c) /\ Named(c, f)
    BY <1>2, <2>1 DEF NameInv, LinkInv, Attached, Handle
  <2>3. f.slot \in Meant(c, On[f.pkt])
    BY <2>1, <2>2 DEF NameInv, NoLoops, Named
  <2>4. ASSUME NEW m \in Mappings, Resolve(MtName[m]) = f.slot
        PROVE  MtName[m] = On[f.pkt] \/ {MtName[m], On[f.pkt]} \subseteq WellKnown
    <3>1. MtName[m] \in Names /\ f.slot # NoSlot
      BY <2>1, MtAssumption DEF Names
    <3>2. f.slot \in Meant(c, MtName[m])
      BY <3>1, <2>2, <2>4, ResolvedAsMeant
    <3> QED
      BY <3>2, <2>3, NamesOfSlot
  <2>5. \/ relays' = relays
        \/ \E s : /\ \A m \in s : m \in Mappings /\ Resolve(MtName[m]) = f.slot
                  /\ relays' = relays \cup {[frame |-> f, by |-> m] : m \in s}
    BY <1>2 DEF Handle, Claims
  <2>6. RelaysFollowNames'
    BY <2>4, <2>5 DEF NameInv, NamesFollowed, RelaysFollowNames
  <2> QED
    BY <2>6, <1>2 DEF Handle, NameInv, NamesFollowed, SentOnNamedChannel
<1>3. ASSUME NEW p \in Own, Send(p) PROVE NamesFollowed'
  <2>1. tx[p].slot \in Meant(config, MtName[By[p]])
    BY <1>3 DEF Send, NameInv, GuardInv
  <2> DEFINE a == [pkt |-> p, slot |-> tx[p].slot,
                   meant |-> tx[p].slot \in Meant(config, MtName[By[p]])]
  <2>2. aired' = aired \cup {a} /\ UNCHANGED relays
    BY <1>3 DEF Send
  <2>3. a.meant
    BY <2>1
  <2> HIDE DEF a
  <2> QED
    BY <2>2, <2>3 DEF NameInv, NamesFollowed, RelaysFollowNames, SentOnNamedChannel
<1> HIDE DEF NamesFollowed
<1> QED
  BY <1>1, <1>2, <1>3 DEF Next, Link, Transmit, Dial, ReadFrame, Lost, Done, Return, Stop,
     DeviceHears, Reconfigure, Announce, Drop, SendFails, Check

\* Without rewiring, texts go to the channels that names mean, throughout.
LEMMA NamesKept ==
    ASSUME ~Rewires, PrimaryWellKnown
    PROVE  Spec => [](TypeInv /\ NameInv)
<1>1. Init => TypeInv /\ NameInv
  BY TypesInit, NamesInit
<1>2. TypeInv /\ NameInv /\ [Next]_vars => (TypeInv /\ NameInv)'
  BY TypesNext, LinkNext, NoLoopsNext, GuardNext, FollowedNext DEF NameInv
<1> QED
  BY <1>1, <1>2, PTL DEF Spec

\* While the device is not reconfigured under a live session, every relay goes
\* to a bridge of the channel its text was sent on, and every text we send to
\* the channel its mapping names, also across a reconnect, for a text that is
\* drained, for a send that waited for the guard and for a retry.  A primary
\* channel has to have a well-known name: "longfast" resolves to the primary
\* channel whatever it is called.
THEOREM NamesAreFollowed ==
    ASSUME ~Rewires, PrimaryWellKnown
    PROVE  Spec => []NamesFollowed
<1>1. NameInv => NamesFollowed
  BY DEF NameInv
<1> QED
  BY <1>1, NamesKept, PTL

-----------------------------------------------------------------------------
(* Every bridge is served once.                                            *)

\* Without rewiring, the table is that of the device, throughout.
LEMMA LinkKept ==
    ASSUME ~Rewires
    PROVE  Spec => [](TypeInv /\ LinkInv /\ NoLoops)
<1>1. Init => TypeInv /\ LinkInv /\ NoLoops
  BY TypesInit, NamesInit DEF NameInv
<1>2. TypeInv /\ LinkInv /\ NoLoops /\ [Next]_vars => (TypeInv /\ LinkInv /\ NoLoops)'
  BY TypesNext, LinkNext, NoLoopsNext
<1> QED
  BY <1>1, <1>2, PTL DEF Spec

\* Of the mappings that share a MeshCore channel exactly one claims the text.
LEMMA ClaimedOnce ==
    ASSUME NEW ms \in SUBSET Mappings, NEW s \in Claims(ms)
    PROVE  /\ s \subseteq ms \cap Writable
           /\ \A m \in ms \cap Writable : \E k \in s : Channel[k] = Channel[m]
           /\ \A k, m \in s : Channel[k] = Channel[m] => k = m
<1>1. s \in SUBSET (ms \cap Writable)
  BY DEF Claims
<1>2. IsFiniteSet(Mappings) /\ s \in SUBSET Mappings
  BY <1>1, MtAssumption
<1>3. IsFiniteSet(s)
  BY <1>2, FS_Subset
<1>4. ASSUME NEW m \in ms \cap Writable
      PROVE  \E x : {k \in s : Channel[k] = Channel[m]} = {x}
  <2> DEFINE sharing == {k \in s : Channel[k] = Channel[m]}
  <2>1. Cardinality(sharing) = 1 /\ sharing \in SUBSET s
    BY DEF Claims
  <2> HIDE DEF sharing
  <2>2. IsFiniteSet(sharing)
    BY <2>1, <1>3, FS_Subset
  <2>3. \E x : sharing = {x}
    BY <2>1, <2>2, FS_Singleton
  <2> QED
    BY <2>3 DEF sharing
<1>5. \A m \in ms \cap Writable : \E k \in s : Channel[k] = Channel[m]
  <2> TAKE m \in ms \cap Writable
  <2>1. PICK x : {k \in s : Channel[k] = Channel[m]} = {x}
    BY <1>4
  <2> QED
    BY <2>1
<1>6. \A k, m \in s : Channel[k] = Channel[m] => k = m
  <2> TAKE k, m \in s
  <2>1. PICK x : {j \in s : Channel[j] = Channel[m]} = {x}
    BY <1>1, <1>4
  <2> QED
    BY <2>1
<1> QED
  BY <1>1, <1>5, <1>6

\* Nothing has been served at first.
LEMMA ServeInit == Init => ServeInv
BY DEF Init, ServeInv, SeenInv, EachServedOnce, EveryBridgeServed, RelayedOnce

\* Every case of Handle: how the text is handled, and what that adds.
LEMMA HandleCases ==
    ASSUME TypeInv, Handle
    PROVE  LET f == Head(inbox)
               key == <<f.slot, f.pkt>>
               matches == {m \in Mappings : Resolve(MtName[m]) = f.slot}
           IN  \E o : /\ handled' = handled \cup {[frame |-> f, out |-> o]}
                      /\ \/ o = "unmatched" /\ matches = {} /\ UNCHANGED <<seen, relays>>
                         \/ o = "duplicate" /\ key \in seen /\ UNCHANGED <<seen, relays>>
                         \/ /\ o \in {"echo", "merged"}
                            /\ seen' = seen \cup {key} /\ UNCHANGED relays
                         \/ /\ o = "relayed" /\ key \notin seen
                            /\ seen' = seen \cup {key}
                            /\ \E s \in Claims(matches) :
                                  relays' = relays \cup {[frame |-> f, by |-> m] : m \in s}
BY DEF Handle, keyVars

\* A key is recorded only for a text that was handled, or for one of ours.
LEMMA SeenNext ==
    ASSUME TypeInv, SeenInv, [Next]_vars
    PROVE  SeenInv'
<1> USE DEF vars, devVars, linkVars, keyVars, logVars
<1>1. CASE UNCHANGED <<seen, handled, relays>>
  BY <1>1 DEF SeenInv
<1>2. CASE Handle
  <2> DEFINE f == Head(inbox)
             matches == {m \in Mappings : Resolve(MtName[m]) = f.slot}
  <2>1. PICK o : /\ handled' = handled \cup {[frame |-> f, out |-> o]}
                 /\ \/ UNCHANGED <<seen, relays>>
                    \/ /\ o \in {"echo", "merged"}
                       /\ seen' = seen \cup {<<f.slot, f.pkt>>} /\ UNCHANGED relays
                    \/ /\ o = "relayed" /\ seen' = seen \cup {<<f.slot, f.pkt>>}
                       /\ \E s : relays' = relays \cup {[frame |-> f, by |-> m] : m \in s}
    BY <1>2, HandleCases
  <2> DEFINE new == [frame |-> f, out |-> o]
  <2>a. handled' = handled \cup {new} /\ new.frame = f /\ new.out = o
    BY <2>1
  <2> HIDE DEF f, new
  <2>2. CASE UNCHANGED <<seen, relays>>
    BY <2>1, <2>2 DEF SeenInv
  <2>3. CASE /\ o \in {"echo", "merged", "relayed"}
             /\ seen' = seen \cup {<<f.slot, f.pkt>>}
    <3>1. \A i \in Slots, p \in Pkts : <<i, p>> \in seen' =>
            \/ p \in Own
            \/ \E h \in handled' : /\ h.frame.pkt = p /\ h.frame.slot = i
                                   /\ h.out \in {"echo", "merged", "relayed"}
      <4> TAKE i \in Slots, p \in Pkts
      <4>1. CASE <<i, p>> \in seen
        BY <2>1, <4>1 DEF SeenInv
      <4>2. CASE i = f.slot /\ p = f.pkt
        BY <2>a, <2>3, <4>2
      <4> QED
        BY <2>3, <4>1, <4>2
    <3>2. \A r \in relays' : r \in relays \/ r.frame = f
      BY <2>1
    <3> QED
      BY <2>3, <3>1, <3>2 DEF SeenInv
  <2> QED
    BY <2>1, <2>2, <2>3
<1>3. ASSUME NEW p \in Own, Announce(p) PROVE SeenInv'
  <2>1. (\E i : seen' = seen \cup {<<i, p>>}) /\ UNCHANGED <<handled, relays>>
    BY <1>3 DEF Announce
  <2> QED
    BY <2>1 DEF SeenInv
<1> HIDE DEF SeenInv
<1> QED
  BY <1>1, <1>2, <1>3 DEF Next, Link, Transmit, Dial, ReadFrame, Lost, Done, Return, Stop,
     DeviceHears, Reconfigure, Drop, Send, SendFails, Check

\* No step serves a packet to a bridge twice, or leaves one out.
LEMMA ServedNext ==
    ASSUME TypeInv, LinkInv, NoLoops, ServeInv, [Next]_vars
    PROVE  EachServedOnce'
<1> USE DEF vars, devVars, linkVars, keyVars, logVars
<1>1. CASE UNCHANGED <<handled, relays>>
  BY <1>1 DEF ServeInv, EachServedOnce, EveryBridgeServed, RelayedOnce, Row
<1>2. CASE Handle
  <2> DEFINE f == Head(inbox)
             key == <<f.slot, f.pkt>>
             matches == {m \in Mappings : Resolve(MtName[m]) = f.slot}
  <2>1. /\ f \in Frames /\ inbox[1] = f /\ 1 \in 1..Len(inbox)
        /\ f.slot \in Slots /\ f.pkt \in Pkts
    BY <1>2, HandleEffect
  <2>2. PICK c \in Configs : table = Dumped(c) /\ Named(c, f)
    BY <1>2, <2>1 DEF LinkInv, Attached, Handle
  <2>3. f.slot \in Meant(c, On[f.pkt])
    BY <2>1, <2>2 DEF NoLoops, Named
  <2>4. \A m \in Writable : MtName[m] = On[f.pkt] => m \in matches
    <3> SUFFICES ASSUME NEW m \in Writable, MtName[m] = On[f.pkt] PROVE m \in matches
      OBVIOUS
    <3>1. m \in Mappings /\ MtName[m] \in Names
      BY MtAssumption DEF Names
    <3>2. Meant(c, MtName[m]) = {Resolve(MtName[m])}
      BY <2>2, <2>3, <3>1, ResolvedAsMeant
    <3> QED
      BY <2>3, <3>1, <3>2
  <2>5. PICK o : /\ handled' = handled \cup {[frame |-> f, out |-> o]}
                 /\ \/ o = "unmatched" /\ matches = {} /\ UNCHANGED <<seen, relays>>
                    \/ o = "duplicate" /\ key \in seen /\ UNCHANGED <<seen, relays>>
                    \/ /\ o \in {"echo", "merged"}
                       /\ seen' = seen \cup {key} /\ UNCHANGED relays
                    \/ /\ o = "relayed" /\ key \notin seen
                       /\ \E s \in Claims(matches) :
                             relays' = relays \cup {[frame |-> f, by |-> m] : m \in s}
    BY <1>2, HandleCases
  <2>6. matches \in SUBSET Mappings
    OBVIOUS
  <2>7. relays \subseteq relays' /\ handled \subseteq handled'
    BY <2>5
  <2> HIDE DEF f, matches
  <2> DEFINE new == [frame |-> f, out |-> o]
  <2>8. new.frame = f /\ new.out = o
    OBVIOUS
  <2>9. RelayedOnce'
    <3>1. CASE UNCHANGED relays
      BY <3>1 DEF ServeInv, EachServedOnce, RelayedOnce
    <3>2. ASSUME NEW s \in Claims(matches), key \notin seen,
                 relays' = relays \cup {[frame |-> f, by |-> m] : m \in s}
          PROVE  RelayedOnce'
      <4>1. \A k, m \in s : Channel[k] = Channel[m] => k = m
        BY <2>6, ClaimedOnce
      <4>2. \A r \in relays : r.frame.pkt # f.pkt \/ r.frame.slot # f.slot
        BY <3>2 DEF ServeInv, SeenInv
      <4> QED
        BY <3>2, <4>1, <4>2 DEF ServeInv, EachServedOnce, RelayedOnce
    <3> QED
      BY <2>5, <3>1, <3>2
  <2>10. ASSUME NEW m \in Writable, MtName[m] = On[f.pkt]
         PROVE  \/ \E e \in handled' : /\ e.frame.pkt = f.pkt /\ e.frame.slot = f.slot
                                        /\ e.out \in {"echo", "merged"}
                \/ f.pkt \in Own
                \/ \E r \in relays' : r.frame.pkt = f.pkt /\ Channel[r.by] = Channel[m]
    <3>1. m \in matches
      BY <2>4, <2>10
    <3>2. CASE o \in {"echo", "merged"}
      <4>1. new \in handled'
        BY <2>5
      <4> QED
        BY <4>1, <2>8, <3>2
    <3>3. CASE o = "duplicate" /\ key \in seen
      <4>1. CASE f.pkt \in Own
        BY <4>1
      <4>2. CASE f.pkt \notin Own
        <5>1. PICK h \in handled : /\ h.frame.pkt = f.pkt /\ h.frame.slot = f.slot
                                   /\ h.out \in {"echo", "merged", "relayed"}
          BY <4>2, <3>3, <2>1 DEF ServeInv, SeenInv
        <5>2. \/ \E e \in Row(h.frame) : e.out \in {"echo", "merged"}
              \/ \E r \in relays : r.frame.pkt = f.pkt /\ Channel[r.by] = Channel[m]
          BY <5>1, <4>2, <2>10 DEF ServeInv, EachServedOnce, EveryBridgeServed
        <5>3. \A e \in Row(h.frame) :
                 e \in handled' /\ e.frame.pkt = f.pkt /\ e.frame.slot = f.slot
          BY <5>1, <2>7 DEF Row
        <5> QED
          BY <5>2, <5>3, <2>7
      <4> QED
        BY <4>1, <4>2
    <3>4. ASSUME NEW s \in Claims(matches),
                 relays' = relays \cup {[frame |-> f, by |-> k] : k \in s}
          PROVE  \E r \in relays' : r.frame.pkt = f.pkt /\ Channel[r.by] = Channel[m]
      <4>1. PICK k \in s : Channel[k] = Channel[m]
        BY <3>1, <2>6, ClaimedOnce
      <4>2. [frame |-> f, by |-> k] \in relays'
        BY <4>1, <3>4
      <4> QED
        BY <4>1, <4>2
    <3> QED
      BY <2>5, <3>1, <3>2, <3>3, <3>4
  <2>11. EveryBridgeServed'
    <3>1. \A h \in handled, m \in Writable :
            MtName[m] = On[h.frame.pkt] =>
              \/ \E e \in Row(h.frame)' : e.out \in {"echo", "merged"}
              \/ h.frame.pkt \in Own
              \/ \E r \in relays' : r.frame.pkt = h.frame.pkt /\ Channel[r.by] = Channel[m]
      <4>1. \A h \in handled : Row(h.frame) \subseteq Row(h.frame)'
        BY <2>7 DEF Row
      <4> QED
        BY <4>1, <2>7 DEF ServeInv, EachServedOnce, EveryBridgeServed
    <3>2. \A h \in handled' : h \in handled \/ h.frame = f
      BY <2>5, <2>8
    <3>3. \A h \in handled', m \in Writable :
            h.frame = f /\ MtName[m] = On[h.frame.pkt] =>
              \/ \E e \in Row(h.frame)' : e.out \in {"echo", "merged"}
              \/ h.frame.pkt \in Own
              \/ \E r \in relays' : r.frame.pkt = h.frame.pkt /\ Channel[r.by] = Channel[m]
      BY <2>10 DEF Row
    <3> QED
      BY <3>1, <3>2, <3>3 DEF EveryBridgeServed
  <2> QED
    BY <2>9, <2>11 DEF EachServedOnce
<1> HIDE DEF EachServedOnce
<1> QED
  BY <1>1, <1>2 DEF Next, Link, Transmit, Dial, ReadFrame, Lost, Done, Return, Stop,
     DeviceHears, Reconfigure, Announce, Drop, Send, SendFails, Check

\* While the device is not reconfigured under a live session, a text that was
\* handled has reached the MeshCore channel of every bridge of its channel, and
\* no MeshCore channel twice, whatever copies of it come from whichever session.
THEOREM EveryBridgeOnce ==
    ASSUME ~Rewires
    PROVE  Spec => []EachServedOnce
<1>1. Init => ServeInv
  BY ServeInit
<1>2. TypeInv /\ LinkInv /\ NoLoops /\ ServeInv /\ [Next]_vars => ServeInv'
  BY SeenNext, ServedNext DEF ServeInv
<1>3. ServeInv => EachServedOnce
  BY DEF ServeInv
<1> QED
  BY <1>1, <1>2, <1>3, LinkKept, PTL DEF Spec

-----------------------------------------------------------------------------
(* The retry.                                                              *)

\* How many sends await an echo, with one more or one less.
LEMMA AwaitingFinite ==
    ASSUME NEW i, NEW t, NEW p
    PROVE  LET A == Awaiting(i, t) IN
           /\ IsFiniteSet(A) /\ Cardinality(A) \in Nat
           /\ p \in A => Cardinality(A \ {p}) = Cardinality(A) - 1 /\ Cardinality(A) >= 1
           /\ p \notin A => A \ {p} = A /\ Cardinality(A \cup {p}) = Cardinality(A) + 1
<1> DEFINE A == Awaiting(i, t)
<1>1. A \in SUBSET Own /\ IsFiniteSet(Own)
  BY MtAssumption DEF Awaiting
<1> HIDE DEF A
<1>2. IsFiniteSet(A)
  BY <1>1, FS_Subset
<1>3. Cardinality(A) \in Nat
  BY <1>2, FS_CardinalityType
<1>4. /\ Cardinality(A \ {p}) = IF p \in A THEN Cardinality(A) - 1 ELSE Cardinality(A)
      /\ IsFiniteSet(A \ {p})
  BY <1>2, FS_RemoveElement
<1>5. Cardinality(A \ {p}) \in Nat
  BY <1>4, FS_CardinalityType
<1>6. Cardinality(A \cup {p}) = IF p \in A THEN Cardinality(A) ELSE Cardinality(A) + 1
  BY <1>2, FS_AddElement
<1>7. p \in A => Cardinality(A \ {p}) = Cardinality(A) - 1 /\ Cardinality(A) >= 1
  BY <1>3, <1>4, <1>5
<1>8. p \notin A => A \ {p} = A /\ Cardinality(A \cup {p}) = Cardinality(A) + 1
  BY <1>6
<1> QED
  BY <1>2, <1>3, <1>7, <1>8 DEF A

\* An echo that was heard stays heard.
LEMMA EchoedStays ==
    ASSUME TypeInv, [Next]_vars, NEW i, NEW t, Echoed(i, t)
    PROVE  Echoed(i, t)'
<1> USE DEF vars, devVars, linkVars, keyVars, logVars
<1>1. handled \subseteq handled'
  <2>1. UNCHANGED handled \/ Handle
    BY DEF Next, Link, Transmit, Dial, ReadFrame, Lost, Done, Return, Stop, DeviceHears,
           Reconfigure, Announce, Drop, Send, SendFails, Check
  <2> QED
    BY <2>1, HandleEffect
<1> QED
  BY <1>1 DEF Echoed

\* A send that ends takes its pending echo along.
LEMMA EndOfSend ==
    ASSUME TypeInv, CountInv, NEW p \in Own, tx[p].pc \in {"guard", "waiting"},
           tx'[p].pc \notin {"guard", "waiting"},
           \A q \in Own : q # p => tx'[q] = tx[q],
           UNCHANGED handled, pending' = GiveUp(tx[p].slot, TextOf[p])
    PROVE  CountInv'
<1> DEFINE s == tx[p].slot
           u == TextOf[p]
<1>1. s \in Slots /\ u \in Texts
  BY Owned DEF TypeInv, SlotInv
<1>2. TypeOK /\ \A i \in Slots, t \in Texts : pending[i][t] \in Nat
  BY DEF TypeInv, TypeOK
<1>3. \A i \in Slots, t \in Texts : Awaiting(i, t)' = Awaiting(i, t) \ {p}
  BY DEF Awaiting
<1>4. \A i, t : p \in Awaiting(i, t) <=> i = s /\ t = u
  BY DEF Awaiting
<1> HIDE DEF s, u
<1> SUFFICES ASSUME NEW i \in Slots, NEW t \in Texts
             PROVE  Echoed(i, t)' \/ Cardinality(Awaiting(i, t)') <= pending'[i][t]
  BY DEF CountInv
<1>5. CASE Echoed(i, t)
  BY <1>5 DEF Echoed
<1>6. CASE ~Echoed(i, t)
  <2>1. Cardinality(Awaiting(i, t)) <= pending[i][t]
    BY <1>6 DEF CountInv
  <2>2. pending'[i][t] = IF i = s /\ t = u
                         THEN IF pending[s][u] = 0 THEN 0 ELSE pending[s][u] - 1
                         ELSE pending[i][t]
    <3>1. pending' = GiveUp(s, u)
      BY DEF s, u
    <3> QED
      BY <3>1, <1>1, <1>2, GivenUp
  <2>3. CASE i = s /\ t = u
    <3>1. p \in Awaiting(i, t)
      BY <2>3, <1>4
    <3>2. /\ Cardinality(Awaiting(i, t) \ {p}) = Cardinality(Awaiting(i, t)) - 1
          /\ Cardinality(Awaiting(i, t)) >= 1 /\ Cardinality(Awaiting(i, t)) \in Nat
      BY <3>1, AwaitingFinite
    <3>3. Cardinality(Awaiting(i, t)') = Cardinality(Awaiting(i, t)) - 1
      BY <3>2, <1>3
    <3>4. pending[i][t] \in Nat
      BY <1>2
    <3>5. pending'[i][t] = IF pending[i][t] = 0 THEN 0 ELSE pending[i][t] - 1
      BY <2>2, <2>3
    <3> QED
      BY <3>2, <3>3, <3>4, <3>5, <2>1
  <2>4. CASE ~ (i = s /\ t = u)
    <3>1. Awaiting(i, t) \ {p} = Awaiting(i, t)
      BY <2>4, <1>4, AwaitingFinite
    <3> QED
      BY <3>1, <2>1, <2>2, <2>4, <1>3
  <2> QED
    BY <2>3, <2>4
<1> QED
  BY <1>5, <1>6

\* No send awaits an echo at first.
LEMMA CountInit == Init => CountInv
<1> SUFFICES ASSUME Init, NEW i \in Slots, NEW t \in Texts
             PROVE  Cardinality(Awaiting(i, t)) <= pending[i][t]
  BY DEF CountInv
<1>1. Awaiting(i, t) = {} /\ pending[i][t] = 0
  BY DEF Init, Awaiting
<1> QED
  BY <1>1, FS_EmptySet

\* Until an echo is heard, no pending echo is taken but by its own send.
LEMMA CountNext ==
    ASSUME TypeInv, NoLoops, CountInv, [Next]_vars
    PROVE  CountInv'
<1> USE DEF vars, devVars, linkVars, keyVars, logVars
<1>a. /\ tx \in [Own -> [pc : {"new", "guard", "waiting", "over"}, sid : 0..MaxSessions,
                         slot : Slots \cup {NoSlot}, attempt : 0..1]]
      /\ pending \in [Slots -> [Texts -> Nat]] /\ TypeOK
      /\ \A i \in Slots, t \in Texts : pending[i][t] \in Nat
  BY DEF TypeInv, TypeOK
<1>b. \A i \in Slots, t \in Texts : Echoed(i, t) => Echoed(i, t)'
  BY EchoedStays
<1>1. CASE UNCHANGED <<tx, pending>>
  <2>1. \A i \in Slots, t \in Texts : Awaiting(i, t)' = Awaiting(i, t)
    BY <1>1 DEF Awaiting
  <2> QED
    BY <2>1, <1>1, <1>b DEF CountInv
<1>2. CASE Handle
  <2> DEFINE f == Head(inbox)
             u == TextOf[f.pkt]
  <2>1. f \in Frames /\ inbox[1] = f /\ 1 \in 1..Len(inbox) /\ f.slot \in Slots /\ u \in Texts
    BY <1>2, HandleEffect
  <2>2. f.loop = FALSE
    BY <2>1, FrameFields DEF NoLoops
  <2>3. UNCHANGED tx
    BY <1>2 DEF Handle
  <2>4. CASE UNCHANGED pending
    BY <2>3, <2>4, <1>1
  <2>5. CASE /\ pending' = GiveUp(f.slot, u)
             /\ handled' = handled \cup {[frame |-> f, out |-> "echo"]}
    <3> DEFINE new == [frame |-> f, out |-> "echo"]
    <3>1. new \in handled' /\ new.frame = f /\ new.out = "echo"
      BY <2>5
    <3>2. \A i \in Slots, t \in Texts : i = f.slot /\ t = u => Echoed(i, t)'
      <4> HIDE DEF f, new
      <4> QED
        BY <3>1, <2>2 DEF Echoed
    <3>3. \A i \in Slots, t \in Texts :
             ~ (i = f.slot /\ t = u) => pending'[i][t] = pending[i][t]
      BY <2>1, <2>5, <1>a, GivenUp
    <3>4. \A i \in Slots, t \in Texts : Awaiting(i, t)' = Awaiting(i, t)
      BY <2>3 DEF Awaiting
    <3> QED
      BY <3>2, <3>3, <3>4, <1>b DEF CountInv
  <2> QED
    BY <2>4, <2>5, <1>2 DEF Handle
<1>3. ASSUME NEW p \in Own, Announce(p) PROVE CountInv'
  <2> DEFINE s == Resolve(MtName[By[p]])
             u == TextOf[p]
  <2>1. s \in Slots /\ u \in Texts /\ tx[p].pc = "new"
    <3>1. MtName[By[p]] \in Names /\ u \in Texts
      BY Owned DEF Names
    <3> QED
      BY <3>1, <1>3, <1>a, Resolved DEF Announce
  <2>2. /\ tx' = [tx EXCEPT ![p].pc = "guard", ![p].sid = sid, ![p].slot = s]
        /\ pending' = [pending EXCEPT ![s][u] = @ + 1] /\ UNCHANGED handled
    BY <1>3 DEF Announce
  <2> HIDE DEF s
  <2>3. /\ tx'[p].pc = "guard" /\ tx'[p].slot = s
        /\ \A q \in Own : q # p => tx'[q] = tx[q]
    BY <2>2, <1>a
  <2>4. \A i \in Slots, t \in Texts :
          /\ p \notin Awaiting(i, t)
          /\ Awaiting(i, t)' = IF i = s /\ t = u THEN Awaiting(i, t) \cup {p}
                               ELSE Awaiting(i, t)
    BY <2>1, <2>3 DEF Awaiting
  <2> HIDE DEF u
  <2>5. \A i \in Slots, t \in Texts :
          pending'[i][t] = IF i = s /\ t = u THEN pending[i][t] + 1 ELSE pending[i][t]
    BY <2>1, <2>2, <1>a
  <2> SUFFICES ASSUME NEW i \in Slots, NEW t \in Texts, ~Echoed(i, t)
               PROVE  Cardinality(Awaiting(i, t)') <= pending'[i][t]
    BY <1>b DEF CountInv
  <2>6. Cardinality(Awaiting(i, t)) <= pending[i][t]
    BY DEF CountInv
  <2>7. /\ Cardinality(Awaiting(i, t)) \in Nat
        /\ Cardinality(Awaiting(i, t) \cup {p}) = Cardinality(Awaiting(i, t)) + 1
    BY <2>4, AwaitingFinite
  <2>8. CASE i = s /\ t = u
    <3>1. Cardinality(Awaiting(i, t)') = Cardinality(Awaiting(i, t)) + 1
      BY <2>4, <2>7, <2>8
    <3>2. pending'[i][t] = pending[i][t] + 1 /\ pending[i][t] \in Nat
      BY <2>5, <2>8, <1>a
    <3> QED
      BY <3>1, <3>2, <2>6, <2>7
  <2>9. CASE ~ (i = s /\ t = u)
    <3>1. Awaiting(i, t)' = Awaiting(i, t) /\ pending'[i][t] = pending[i][t]
      BY <2>4, <2>5, <2>9
    <3> QED
      BY <3>1, <2>6
  <2> QED
    BY <2>8, <2>9
<1>4. ASSUME NEW p \in Own, Drop(p) PROVE CountInv'
  <2>1. /\ tx[p].pc = "new" /\ tx'[p].pc = "over" /\ UNCHANGED pending
        /\ \A q \in Own : q # p => tx'[q] = tx[q]
    BY <1>4, <1>a DEF Drop
  <2>2. \A i \in Slots, t \in Texts : Awaiting(i, t)' = Awaiting(i, t)
    BY <2>1 DEF Awaiting
  <2> QED
    BY <2>1, <2>2, <1>b DEF CountInv
<1>5. ASSUME NEW p \in Own, Send(p) PROVE CountInv'
  <2>1. /\ tx[p].pc = "guard" /\ tx'[p].slot = tx[p].slot /\ tx'[p].pc \in {"waiting", "over"}
        /\ UNCHANGED pending /\ \A q \in Own : q # p => tx'[q] = tx[q]
    BY <1>5, <1>a DEF Send
  <2>2. ASSUME NEW i \in Slots, NEW t \in Texts, ~Echoed(i, t)
        PROVE  Cardinality(Awaiting(i, t)') <= pending'[i][t]
    <3>1. Cardinality(Awaiting(i, t)) <= pending[i][t]
      BY <2>2 DEF CountInv
    <3>2. \/ Awaiting(i, t)' = Awaiting(i, t)
          \/ p \in Awaiting(i, t) /\ Awaiting(i, t)' = Awaiting(i, t) \ {p}
      BY <2>1 DEF Awaiting
    <3>3. /\ Cardinality(Awaiting(i, t)) \in Nat
          /\ p \in Awaiting(i, t) =>
               Cardinality(Awaiting(i, t) \ {p}) = Cardinality(Awaiting(i, t)) - 1
      BY AwaitingFinite
    <3>4. Cardinality(Awaiting(i, t)') = Cardinality(Awaiting(i, t))
          \/ Cardinality(Awaiting(i, t)') = Cardinality(Awaiting(i, t)) - 1
      BY <3>2, <3>3
    <3>5. pending'[i][t] = pending[i][t] /\ pending[i][t] \in Nat
      BY <2>1, <2>2, <1>a
    <3> QED
      BY <3>1, <3>3, <3>4, <3>5
  <2> QED
    BY <2>2, <1>b DEF CountInv
<1>6. ASSUME NEW p \in Own, SendFails(p) \/ Check(p) PROVE CountInv'
  <2>1. /\ tx[p].pc \in {"guard", "waiting"} /\ tx'[p].pc \notin {"guard", "waiting"}
        /\ pending' = GiveUp(tx[p].slot, TextOf[p]) /\ UNCHANGED handled
        /\ \A q \in Own : q # p => tx'[q] = tx[q]
    BY <1>6, <1>a DEF SendFails, Check
  <2> QED
    BY <2>1, EndOfSend
<1> HIDE DEF CountInv
<1> QED
  BY <1>1, <1>2, <1>3, <1>4, <1>5, <1>6 DEF Next, Link, Transmit, Dial, ReadFrame, Lost,
     Done, Return, Stop, DeviceHears, Reconfigure

\* The count of awaited echoes is right throughout.
LEMMA CountKept == Spec => [](TypeInv /\ CountInv)
<1>1. Init => TypeInv /\ NoLoops /\ CountInv
  BY TypesInit, NamesInit, CountInit DEF NameInv
<1>2. TypeInv /\ NoLoops /\ CountInv /\ [Next]_vars => (TypeInv /\ NoLoops /\ CountInv)'
  BY TypesNext, NoLoopsNext, CountNext
<1> QED
  BY <1>1, <1>2, PTL DEF Spec

\* A send is over without a retry only once an echo of its text was handled.
LEMMA RetryStep ==
    ASSUME TypeInv, CountInv, [Next]_vars,
           NEW p \in Own, tx[p].pc = "waiting", tx'[p].pc = "over"
    PROVE  \E h \in handled : /\ h.out = "echo" /\ ~h.frame.loop
                              /\ h.frame.slot = tx[p].slot
                              /\ TextOf[h.frame.pkt] = TextOf[p]
<1> USE DEF vars, devVars, linkVars, keyVars, logVars
<1>a. tx \in [Own -> [pc : {"new", "guard", "waiting", "over"}, sid : 0..MaxSessions,
                      slot : Slots \cup {NoSlot}, attempt : 0..1]]
  BY DEF TypeInv, TypeOK
<1>1. PICK q \in Own : Transmit(q)
  BY DEF Next, Link, Dial, ReadFrame, Lost, Done, Return, Stop, Handle, DeviceHears,
         Reconfigure
<1>2. q = p /\ Check(q)
  BY <1>1, <1>a DEF Transmit, Announce, Drop, Send, SendFails, Check
<1> DEFINE s == tx[p].slot
           u == TextOf[p]
<1>3. s \in Slots /\ u \in Texts /\ pending[s][u] \in Nat
  BY Owned DEF TypeInv, TypeOK, SlotInv
<1>4. ~ (pending[s][u] > 0)
  BY <1>2, <1>a DEF Check
<1>5. p \in Awaiting(s, u)
  BY DEF Awaiting
<1> HIDE DEF s, u
<1>6. Cardinality(Awaiting(s, u)) >= 1 /\ Cardinality(Awaiting(s, u)) \in Nat
  BY <1>5, AwaitingFinite
<1>7. Echoed(s, u)
  BY <1>3, <1>4, <1>6 DEF CountInv
<1> QED
  BY <1>7 DEF Echoed, s, u

\* A text of ours goes without its retry only if a repeat that came over the
\* air, of it or of an identical text in its slot, was heard: the echoes still
\* counted are at least the sends that wait for one, until one was heard.
THEOREM RepeatWasHeard == Spec => RetriedUnlessRepeated
<1>1. TypeInv /\ CountInv /\ [Next]_vars =>
        [\A p \in Own : tx[p].pc = "waiting" /\ tx'[p].pc = "over" =>
            \E h \in handled : /\ h.out = "echo" /\ ~h.frame.loop
                               /\ h.frame.slot = tx[p].slot
                               /\ TextOf[h.frame.pkt] = TextOf[p]]_vars
  BY RetryStep
<1> QED
  BY <1>1, CountKept, PTL DEF Spec, RetriedUnlessRepeated
=============================================================================
