------------------------------ MODULE MtBridge ------------------------------
(***************************************************************************)
(* The Meshtastic side: a session's channel table, the texts it hands to   *)
(* the bridge, and the texts the bridge sends through it.                  *)
(*                                                                         *)
(* A mapping names its Meshtastic channel, packets carry a slot index, and *)
(* the device may give a channel another slot while it is unreachable.     *)
(* So everything hangs on which table a name is resolved with: a text that *)
(* was buffered when its session broke, a send that waited for the TX      *)
(* guard and a retry timer all outlive the session they started on.        *)
(*                                                                         *)
(* Dial is one action: nobody reads the table before the dump is complete, *)
(* and a text that comes in the middle of it is only handled afterwards.   *)
(* handleMeshtasticMessage is one action too: of the keys it checks one by *)
(* one, a concurrent send only touches those of its own packet.  Copies of *)
(* a packet, and identical texts, come within the TTL of the dedup maps.   *)
(***************************************************************************)
EXTENDS Integers, Sequences, FiniteSets

CONSTANTS
    Mappings,    \* bridges with a Meshtastic side
    MtName,      \* MtName[m]: meshtastic.channel_name, normalized
    WellKnown,   \* wellKnownPrimaryNames
    Channel,     \* Channel[m]: MeshCore channel hash of m
    Writable,    \* mappings with a MeshCore side that is not read-only
    Pkts,        \* packet IDs
    Own,         \* those of the texts the bridge sends
    By,          \* By[p]: the mapping own packet p is sent for
    TextOf,      \* TextOf[p]: sender and text of p
    On,          \* On[p]: name of the channel packet p is sent on
    MaxSlot,     \* the device's slots are 0..MaxSlot
    Configs,     \* channel configurations the device may have
    NoSlot,      \* no slot
    TextCap,     \* capacity of textCh
    Retries,     \* retry_on_no_repeat
    Merges,      \* dedup_window_s > 0
    Rewires,     \* may the device be reconfigured while connected?
    MaxHeard,    \* bound: times the device hears a packet
    MaxSessions  \* bound: sessions

Slots == 0..MaxSlot
Names == {MtName[m] : m \in Mappings} \cup {On[p] : p \in Pkts}
            \cup UNION {{c[i].name : i \in Slots} : c \in Configs}
Texts == {TextOf[p] : p \in Pkts}
Enabled(c) == {i \in Slots : c[i].role # "disabled"}

\* The slots name n stands for on a device configured as c.
Meant(c, n) ==
    LET named == {i \in Enabled(c) : c[i].name = n}
    IN  IF named = {} /\ n \in WellKnown
        THEN {i \in Slots : c[i].role = "primary"}
        ELSE named

ASSUME MtAssumption ==
    /\ Own \subseteq Pkts /\ Writable \subseteq Mappings /\ NoSlot \notin Slots
    /\ MaxSlot \in Nat /\ TextCap \in Nat /\ MaxHeard \in Nat /\ MaxSessions \in Nat
    /\ IsFiniteSet(Mappings) /\ IsFiniteSet(Own) /\ \A p \in Own : By[p] \in Mappings
    /\ \A c \in Configs :
          /\ Cardinality({i \in Slots : c[i].role = "primary"}) = 1
          /\ \A n \in Names : Cardinality(Meant(c, n)) <= 1

VARIABLES
    config,   \* the device's channels
    sid,      \* number of the session last dialled
    phase,    \* "down", "live", "over" (Done is closed), "drain", "stopped"
    table,    \* the session's name -> slot table and its primary slot
    wire,     \* frames the device has sent and readLoop has not read
    inbox,    \* textCh
    heard,    \* heard[p]: times the device heard p
    pending,  \* recentOutbound[slot][text].count
    seen,     \* recentInbound: keys <<slot, packet>>
    content,  \* recentContent: keys <<slot, text>>
    tx,       \* tx[p]: where the send of own packet p stands
    got,      \* texts put into textCh
    handled,  \* texts handled, and how
    relays,   \* relays to MeshCore channels, queued or dropped at a full queue
    aired     \* own packets the device took, with the slot

devVars == <<config, heard>>
linkVars == <<sid, phase, table, wire, inbox, got>>
keyVars == <<pending, seen, content>>
logVars == <<handled, relays, aired>>
vars == <<devVars, linkVars, keyVars, tx, logVars>>

NoTable == [names |-> [n \in Names |-> NoSlot], primary |-> NoSlot]

Init ==
    /\ config \in Configs
    /\ heard = [p \in Pkts |-> 0]
    /\ sid = 0 /\ phase = "down" /\ table = NoTable
    /\ wire = <<>> /\ inbox = <<>> /\ got = {}
    /\ pending = [i \in Slots |-> [t \in Texts |-> 0]]
    /\ seen = {} /\ content = {}
    /\ tx = [p \in Own |-> [pc |-> "new", sid |-> 0, slot |-> NoSlot, attempt |-> 0]]
    /\ handled = {} /\ relays = {} /\ aired = {}

-----------------------------------------------------------------------------
(* The session.                                                            *)

\* recordChannel: an entry is added or replaced, none is removed.
RecordChannel(t, i, ch) ==
    IF ch.role = "disabled" THEN t
    ELSE [names |-> [t.names EXCEPT ![ch.name] = i],
          primary |-> IF ch.role = "primary" THEN i ELSE t.primary]

\* recordChannel for slot after slot: a later one replaces what an earlier
\* one has left.
LastOf(is) == IF is = {} THEN NoSlot ELSE CHOOSE i \in is : \A j \in is : j <= i
Dumped(c) ==
    [names |-> [n \in Names |-> LastOf({i \in Enabled(c) : c[i].name = n})],
     primary |-> LastOf({i \in Enabled(c) : c[i].role = "primary"})]

\* Dial, with its handshake, and RunMeshtastic attaches the session.
Dial ==
    /\ phase = "down" /\ sid < MaxSessions
    /\ sid' = sid + 1
    /\ phase' = "live"
    /\ table' = Dumped(config)
    /\ wire' = <<>> /\ inbox' = <<>>
    /\ UNCHANGED <<devVars, got, keyVars, tx, logVars>>

\* A mutant of PassedUp: the device's loopback is taken for a repeat.
PassedUpAlways(f) == Len(inbox) < TextCap

\* handlePacket drops what the device loops back, and what finds textCh full.
PassedUp(f) == ~f.loop /\ Len(inbox) < TextCap

\* A frame of readLoop: a channel update, or a text for textCh.
ReadFrame ==
    /\ phase = "live" /\ wire # <<>>
    /\ LET f == Head(wire) IN
       \/ /\ f.kind = "channel"
          /\ table' = RecordChannel(table, f.slot, f.ch)
          /\ UNCHANGED <<inbox, got>>
       \/ /\ f.kind = "text" /\ PassedUp(f)
          /\ inbox' = Append(inbox, f) /\ got' = got \cup {f}
          /\ UNCHANGED table
       \/ /\ f.kind = "text" /\ ~PassedUp(f)
          /\ UNCHANGED <<table, inbox, got>>
    /\ wire' = Tail(wire)
    /\ UNCHANGED <<devVars, sid, phase, keyVars, tx, logVars>>

\* readLoop ends on a connection error; what it has not read is lost.
Lost ==
    /\ phase = "live"
    /\ phase' = "over" /\ wire' = <<>>
    /\ UNCHANGED <<devVars, sid, table, inbox, got, keyVars, tx, logVars>>

\* A mutant of Done: nothing is drained.
DoneUndrained ==
    /\ phase = "over"
    /\ phase' = "down"
    /\ UNCHANGED <<devVars, sid, table, wire, inbox, got, keyVars, tx, logVars>>

\* RunMeshtastic notices Done and drains what is buffered.
Done ==
    /\ phase = "over"
    /\ phase' = "drain"
    /\ UNCHANGED <<devVars, sid, table, wire, inbox, got, keyVars, tx, logVars>>

\* RunMeshtastic returns and detaches the session.
Return ==
    /\ phase = "drain" /\ inbox = <<>>
    /\ phase' = "down"
    /\ UNCHANGED <<devVars, sid, table, wire, inbox, got, keyVars, tx, logVars>>

\* The process is told to stop: RunMeshtastic leaves the buffer as it is.
Stop ==
    /\ phase \in {"live", "over"}
    /\ phase' = "stopped"
    /\ UNCHANGED <<devVars, sid, table, wire, inbox, got, keyVars, tx, logVars>>

-----------------------------------------------------------------------------
(* The device.                                                             *)

\* It hears a copy of p, decodes it, and passes it on if it has a client.
DeviceHears(p) ==
    /\ heard[p] < MaxHeard
    /\ p \in Own => \E a \in aired : a.pkt = p
    /\ heard' = [heard EXCEPT ![p] = @ + 1]
    /\ \E i \in Meant(config, On[p]) :
          wire' = IF phase = "live"
                  THEN Append(wire, [kind |-> "text", pkt |-> p, copy |-> heard[p],
                                        slot |-> i, loop |-> FALSE])
                  ELSE wire
    /\ UNCHANGED <<config, sid, phase, table, inbox, got, keyVars, tx, logVars>>

Changed(c) == {i \in Slots : config[i] # c[i]}

\* It is reconfigured, out of reach or, if Rewires, under a live session that
\* has read everything so far (a bound).
Reconfigure(c) ==
    /\ c # config
    /\ phase # "live" \/ (Rewires /\ wire = <<>>)
    /\ config' = c
    /\ IF phase # "live" THEN UNCHANGED wire
       ELSE \E q \in [1..Cardinality(Changed(c)) -> Changed(c)] :
                /\ \A j, k \in DOMAIN q : j < k => q[j] < q[k]
                /\ wire' = [k \in DOMAIN q |->
                              [kind |-> "channel", slot |-> q[k], ch |-> c[q[k]]]]
    /\ UNCHANGED <<heard, sid, phase, table, inbox, got, keyVars, tx, logVars>>

-----------------------------------------------------------------------------
(* The bridge.                                                             *)

\* ResolveChannelIndex
Resolve(n) ==
    IF table.names[n] # NoSlot THEN table.names[n]
    ELSE IF n \notin WellKnown THEN NoSlot
    ELSE IF table.primary # NoSlot THEN table.primary ELSE 0

\* One pending echo less.
GiveUp(i, t) == [pending EXCEPT ![i][t] = IF @ = 0 THEN 0 ELSE @ - 1]

\* A mutant of Claims: every writable mapping relays.
ClaimsEach(ms) == {ms \cap Writable}

\* The relay loop: of the writable mappings that share a MeshCore channel the
\* one the configuration lists first relays.  Its order is left open.
Claims(ms) ==
    {s \in SUBSET (ms \cap Writable) :
        \A m \in ms \cap Writable : Cardinality({k \in s : Channel[k] = Channel[m]}) = 1}

\* handleMeshtasticMessage
Handle ==
    /\ phase \in {"live", "over", "drain"} /\ inbox # <<>>
    /\ inbox' = Tail(inbox)
    /\ LET f == Head(inbox)
           key == <<f.slot, f.pkt>>
           text == <<f.slot, TextOf[f.pkt]>>
           matches == {m \in Mappings : Resolve(MtName[m]) = f.slot}
           Outcome(o) == handled' = handled \cup {[frame |-> f, out |-> o]}
       IN  \/ /\ matches = {}
              /\ Outcome("unmatched")
              /\ UNCHANGED <<keyVars, relays>>
           \/ /\ matches # {} /\ pending[f.slot][TextOf[f.pkt]] > 0
              /\ pending' = GiveUp(f.slot, TextOf[f.pkt])
              /\ seen' = seen \cup {key}
              /\ Outcome("echo")
              /\ UNCHANGED <<content, relays>>
           \/ /\ matches # {} /\ pending[f.slot][TextOf[f.pkt]] = 0
              /\ key \in seen
              /\ Outcome("duplicate")
              /\ UNCHANGED <<keyVars, relays>>
           \/ /\ matches # {} /\ pending[f.slot][TextOf[f.pkt]] = 0
              /\ key \notin seen
              /\ seen' = seen \cup {key}
              /\ UNCHANGED pending
              /\ IF Merges /\ text \in content
                 THEN Outcome("merged") /\ UNCHANGED <<content, relays>>
                 ELSE /\ content' = IF Merges THEN content \cup {text} ELSE content
                      /\ Outcome("relayed")
                      /\ \E s \in Claims(matches) :
                            relays' = relays \cup {[frame |-> f, by |-> m] : m \in s}
    /\ UNCHANGED <<devVars, sid, phase, table, wire, got, tx, aired>>

Attached == phase \in {"live", "over", "drain"}

\* A mutant of Announce: the dedup key is not recorded.
AnnounceEchoOnly(p) ==
    /\ tx[p].pc = "new" /\ Attached
    /\ LET i == Resolve(MtName[By[p]]) IN
       /\ i # NoSlot
       /\ tx' = [tx EXCEPT ![p].pc = "guard", ![p].sid = sid, ![p].slot = i]
       /\ pending' = [pending EXCEPT ![i][TextOf[p]] = @ + 1]
    /\ UNCHANGED <<devVars, linkVars, seen, content, logVars>>

\* transmitMeshtastic up to the TX guard: the slot is looked up in the table
\* of the session that will send.
Announce(p) ==
    /\ tx[p].pc = "new" /\ Attached
    /\ LET i == Resolve(MtName[By[p]]) IN
       /\ i # NoSlot
       /\ tx' = [tx EXCEPT ![p].pc = "guard", ![p].sid = sid, ![p].slot = i]
       /\ seen' = seen \cup {<<i, p>>}
       /\ pending' = [pending EXCEPT ![i][TextOf[p]] = @ + 1]
    /\ UNCHANGED <<devVars, linkVars, content, logVars>>

\* No session, or no such channel: the text is dropped.
Drop(p) ==
    /\ tx[p].pc = "new"
    /\ Attached => Resolve(MtName[By[p]]) = NoSlot
    /\ tx' = [tx EXCEPT ![p].pc = "over"]
    /\ UNCHANGED <<devVars, linkVars, keyVars, logVars>>

\* A mutant of Usable: whatever session is attached by now.
UsableNow(p) == phase = "live"

\* Is the connection of the session that p was announced for still up?
Usable(p) == phase = "live" /\ tx[p].sid = sid

\* SendTextOnChannel succeeds, and a retry is scheduled if one is left.  The
\* device may loop the packet back to its client.
Send(p) ==
    /\ tx[p].pc = "guard" /\ Usable(p)
    /\ aired' = aired \cup {[pkt |-> p, slot |-> tx[p].slot,
                            meant |-> tx[p].slot \in Meant(config, MtName[By[p]])]}
    /\ tx' = [tx EXCEPT ![p].pc = IF Retries /\ tx[p].attempt = 0 THEN "waiting" ELSE "over"]
    /\ wire' \in {wire, Append(wire, [kind |-> "text", pkt |-> p, copy |-> 0,
                                      slot |-> tx[p].slot, loop |-> TRUE])}
    /\ UNCHANGED <<devVars, sid, phase, table, inbox, got, keyVars, handled, relays>>

\* It fails: the connection is gone, or is closed on the write error.
SendFails(p) ==
    /\ tx[p].pc = "guard"
    /\ pending' = GiveUp(tx[p].slot, TextOf[p])
    /\ tx' = [tx EXCEPT ![p].pc = "over"]
    /\ phase' = IF Usable(p) THEN "over" ELSE phase
    /\ wire' = IF Usable(p) THEN <<>> ELSE wire
    /\ UNCHANGED <<devVars, sid, table, inbox, got, seen, content, logVars>>

\* retry_wait_ms later: echoUnheard, and the retry on whatever session is
\* attached by then.
Check(p) ==
    /\ tx[p].pc = "waiting"
    /\ LET unheard == pending[tx[p].slot][TextOf[p]] > 0 IN
       tx' = [tx EXCEPT ![p].pc = IF unheard THEN "new" ELSE "over",
                        ![p].attempt = IF unheard THEN 1 ELSE @]
    /\ pending' = GiveUp(tx[p].slot, TextOf[p])
    /\ UNCHANGED <<devVars, linkVars, seen, content, logVars>>

-----------------------------------------------------------------------------

Link == Dial \/ ReadFrame \/ Lost \/ Done \/ Return \/ Stop
Transmit(p) == Announce(p) \/ Drop(p) \/ Send(p) \/ SendFails(p) \/ Check(p)

Next ==
    \/ Link \/ Handle
    \/ \E p \in Pkts : DeviceHears(p)
    \/ \E c \in Configs : Reconfigure(c)
    \/ \E p \in Own : Transmit(p)

Spec == Init /\ [][Next]_vars

\* The RunMeshtastic goroutine gets on.
FairSpec == Spec /\ WF_vars(Handle) /\ WF_vars(Done) /\ WF_vars(Return)

-----------------------------------------------------------------------------

Frames == [kind : {"text"}, pkt : Pkts, copy : 0..MaxHeard, slot : Slots, loop : BOOLEAN]
Updates == [kind : {"channel"}, slot : Slots,
            ch : UNION {{c[i] : i \in Slots} : c \in Configs}]

TypeOK ==
    /\ config \in Configs /\ heard \in [Pkts -> 0..MaxHeard]
    /\ sid \in 0..MaxSessions
    /\ phase \in {"down", "live", "over", "drain", "stopped"}
    /\ table.names \in [Names -> Slots \cup {NoSlot}]
    /\ table.primary \in Slots \cup {NoSlot}
    /\ wire \in Seq(Frames \cup Updates)
    /\ inbox \in Seq(Frames) /\ Len(inbox) <= TextCap /\ got \subseteq Frames
    /\ pending \in [Slots -> [Texts -> Nat]]
    /\ seen \subseteq Slots \X Pkts /\ content \subseteq Slots \X Texts
    /\ tx \in [Own -> [pc : {"new", "guard", "waiting", "over"}, sid : 0..MaxSessions,
                       slot : Slots \cup {NoSlot}, attempt : 0..1]]
    /\ \A h \in handled : h.frame \in got
    /\ \A r \in relays : r.frame \in got /\ r.by \in Writable

\* handleMeshtasticMessage resolves every mapping's channel_name with the
\* session the text came from ("session *meshtastic.Session" is a parameter):
\* a text reaches a bridge only if it was sent on the channel that bridge
\* names, also one that is drained from a broken session after the device
\* gave the channel another slot.
RelaysFollowNames ==
    \A r \in relays :
        LET p == r.frame.pkt IN
        MtName[r.by] = On[p] \/ {MtName[r.by], On[p]} \subseteq WellKnown

\* The whole way from the name to the air, transmitMeshtastic: "the live
\* session and channel index are re-resolved on every attempt", so whatever
\* happened to the session between the lookup and the send, and before a
\* retry, a text goes out on the channel the mapping names.
SentOnNamedChannel == \A a \in aired : a.meant

\* Both hold: names decide on the way in and on the way out.
NamesFollowed == RelaysFollowNames /\ SentOnNamedChannel

Row(f) == {h \in handled : h.frame.pkt = f.pkt /\ h.frame.slot = f.slot}

\* handleMeshtasticMessage relays "to every matching bridge's MeshCore
\* channel": once a text on a bridge's channel has been handled, its packet
\* was relayed to the bridge's MeshCore channel, was merged or was taken for
\* our own echo, by this copy or an earlier one.
EveryBridgeServed ==
    \A h \in handled, m \in Writable :
        MtName[m] = On[h.frame.pkt] =>
            \/ \E e \in Row(h.frame) : e.out \in {"echo", "merged"}
            \/ h.frame.pkt \in Own
            \/ \E r \in relays : r.frame.pkt = h.frame.pkt /\ Channel[r.by] = Channel[m]

\* "each distinct MeshCore channel is only sent to once" for a packet heard
\* in a slot, whatever copies of it come, from whichever session.
RelayedOnce ==
    \A r, s \in relays :
        /\ r.frame.pkt = s.frame.pkt /\ r.frame.slot = s.frame.slot
        /\ Channel[r.by] = Channel[s.by]
        => r = s

\* Both hold: every bridge is served, and no channel twice.
EachServedOnce == EveryBridgeServed /\ RelayedOnce

\* markOwnPacket: a packet of ours that comes back in the slot it was sent in
\* is not relayed, even after the retry check, a failed send or an identical
\* text of another node took the pending echo.
OwnStaysOut ==
    [][\A r \in relays' \ relays, a \in aired :
          ~ (r.frame.pkt = a.pkt /\ r.frame.slot = a.slot)]_vars

\* inboundDedupTTL is "how long a late echo of something we sent is still
\* recognised as ours": no packet of ours that is heard within it is relayed.
\* Refuted: the key holds the slot, and the copy comes in another one if the
\* channel was moved meanwhile.
OwnNeverRelayed == \A r \in relays : r.frame.pkt \notin Own

\* The retry check is satisfied only by a copy heard over the air - "passing a
\* loopback up would falsely satisfy retry_on_no_repeat's repeat check" - that
\* came in the slot the text was sent in: of this text, or an identical one.
RetriedUnlessRepeated ==
    [][\A p \in Own : tx[p].pc = "waiting" /\ tx'[p].pc = "over" =>
          \E h \in handled : /\ h.out = "echo" /\ ~h.frame.loop
                             /\ h.frame.slot = tx[p].slot
                             /\ TextOf[h.frame.pkt] = TextOf[p]]_vars

\* RunMeshtastic: "don't discard already-buffered messages" - a text that
\* readLoop put into textCh is handled in the end, across the loss of its
\* session, unless the process is stopped.
EventuallyHandled ==
    \A p \in Pkts, k \in 0..MaxHeard - 1 :
        (\E f \in got : f.pkt = p /\ f.copy = k)
            ~> (phase = "stopped" \/ \E h \in handled : h.frame.pkt = p /\ h.frame.copy = k)

\* ResolveChannelIndex: the channel table is "collected during the handshake
\* and kept live afterwards".  Once all updates have been read it gives names
\* the slots they have on the device.  Refuted: a rename or a disabled
\* channel leaves the old entry.
TableKeptLive ==
    phase = "live" /\ wire = <<>> =>
        \A n \in Names : table.names[n] # NoSlot => table.names[n] \in Meant(config, n)
=============================================================================
