------------------------------- MODULE Config -------------------------------
(***************************************************************************)
(* What config.Load accepts (Validate, config/config.go) and what is built *)
(* from it: the mappings of bridge.New and the connections main starts.    *)
(*                                                                         *)
(* A bridge is a record of choices:                                        *)
(*   enabled    the whole entry is on                                      *)
(*   mc         MeshCore side: "off", "ok", or "broken" when no key, two   *)
(*              keys or a bad one is given                                 *)
(*   mt         Meshtastic side: "off", "named", or "blank" without a      *)
(*              channel_name                                               *)
(*   id         discord_channel_id                                         *)
(*   url        discord_webhook_url: "none", "bad", "ok" or "padded", with *)
(*              spaces around a good one                                   *)
(*   readOnly   meshcore.read_only                                         *)
(*   rx         meshcore.rx_scopes                                         *)
(*   notice     there is a scope_notice; complain: its scopes              *)
(* beside the top-level settings mcHost, mtHost, token and rx.             *)
(***************************************************************************)
EXTENDS Integers, Sequences, FiniteSets

\* A discord_channel_id as written, with or without spaces around it.
Blank == [id |-> "", padded |-> FALSE]
Spaces == [id |-> "", padded |-> TRUE]

\* A bridge's own rx_scopes take the place of the global ones.
ResolvedRxScopes(b, cfg) == IF b.rx # {} THEN b.rx ELSE cfg.rx

Enabled(cfg) == {i \in 1..Len(cfg.bridges) : cfg.bridges[i].enabled}
On(cfg, i) == cfg.bridges[i]

HasChannel(b) == b.id.id # ""
HasWebhook(b) == b.url # "none"

\* validScopeNotice: there is something to reject, the reply can be sent, and no
\* scope is both accepted and complained about.
ValidScopeNotice(b, rx) ==
    b.notice => rx # {} /\ ~b.readOnly /\ b.complain # {} /\ b.complain \cap rx = {}

\* The checks of one enabled bridge in Validate.
ValidBridge(b, cfg) ==
    /\ b.mc # "off" \/ b.mt # "off"
    /\ b.mc # "off" => b.mc = "ok" /\ ValidScopeNotice(b, ResolvedRxScopes(b, cfg))
    /\ b.mt # "blank"
    /\ HasChannel(b) <=> HasWebhook(b)
    /\ HasWebhook(b) => b.url \in {"ok", "padded"} \* looked at without its spaces
    /\ HasChannel(b) \/ (b.mc # "off" /\ b.mt # "off")

\* A mutant of Distinct: only names are compared.
DistinctNames(cfg) ==
    \A i, j \in 1..Len(cfg.bridges) : i # j => On(cfg, i).name # On(cfg, j).name

\* Every entry has a name of its own, and no two enabled ones share a Discord channel.
Distinct(cfg) ==
    /\ \A i \in 1..Len(cfg.bridges) : On(cfg, i).name # ""
    /\ \A i, j \in 1..Len(cfg.bridges) : i # j => On(cfg, i).name # On(cfg, j).name
    /\ \A i, j \in Enabled(cfg) :
           i # j /\ HasChannel(On(cfg, i)) => On(cfg, i).id.id # On(cfg, j).id.id

\* Validate's checks of what the bridges need from the top level.
ValidGlobals(cfg) ==
    /\ (\E i \in Enabled(cfg) : On(cfg, i).mc # "off") => cfg.mcHost
    /\ (\E i \in Enabled(cfg) : On(cfg, i).mt # "off") => cfg.mtHost
    /\ (\E i \in Enabled(cfg) : HasChannel(On(cfg, i))) => cfg.token
    /\ cfg.bridges # <<>>

\* Load succeeds.
Accepted(cfg) ==
    ValidGlobals(cfg) /\ Distinct(cfg) /\ \A i \in Enabled(cfg) : ValidBridge(On(cfg, i), cfg)

-----------------------------------------------------------------------------

\* New: a mapping has a Discord side if the id is not empty as it is written.
DiscordEnabled(b) == b.id # Blank

\* New: the mapping a Discord channel leads to - the last of them.
ByChan(cfg, id) ==
    LET with == {i \in Enabled(cfg) : DiscordEnabled(On(cfg, i)) /\ On(cfg, i).id = id}
    IN  IF with = {} THEN 0 ELSE CHOOSE i \in with : \A j \in with : j <= i

\* main: the gateway and the backends that are started.
Started(cfg) ==
    {s \in {"discord", "meshcore", "meshtastic"} :
        CASE s = "discord" -> \E i \in Enabled(cfg) : HasChannel(On(cfg, i))
          [] s = "meshcore" -> cfg.mcHost
          [] s = "meshtastic" -> cfg.mtHost}

\* The sides of a bridge that New builds and main connects.
Sides(b, cfg) ==
    {s \in Started(cfg) :
        CASE s = "discord" -> DiscordEnabled(b)
          [] s = "meshcore" -> b.mc # "off"
          [] s = "meshtastic" -> b.mt # "off"}

-----------------------------------------------------------------------------

\* Load, New, main: every bridge of an accepted configuration works.  It is built,
\* it connects two sides at least, each of them started, what is written in its Discord
\* channel comes to it, its webhook - called by the URL as it is written - takes its
\* posts there, and a scope it sends notices for is one it rejects, on a channel it may
\* send on.
Serves(cfg) ==
    Accepted(cfg) => \A i \in Enabled(cfg) :
        LET b == On(cfg, i) IN
        /\ b.mc # "broken"
        /\ Cardinality(Sides(b, cfg)) >= 2
        /\ \A s \in {"meshcore", "meshtastic"} : b[IF s = "meshcore" THEN "mc" ELSE "mt"] # "off"
                                                   => s \in Started(cfg)
        /\ HasChannel(b) => ByChan(cfg, [id |-> b.id.id, padded |-> FALSE]) = i
        /\ DiscordEnabled(b) => b.url = "ok"
        /\ b.mc # "off" /\ b.notice =>
               ~b.readOnly /\ ResolvedRxScopes(b, cfg) # {}
                           /\ \A s \in b.complain : s \notin ResolvedRxScopes(b, cfg)
=============================================================================
