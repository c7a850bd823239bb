------------------------------ MODULE Lifecycle ------------------------------
(***************************************************************************)
(* The process (cmd/hoplink/main.go): each backend is dialled, served and  *)
(* dialled again with growing waits, beside the housekeeping, until a      *)
(* signal cancels the context.  main waits for all of them, closes the     *)
(* bridge and with it the webhook, and exits, which takes the webhook's    *)
(* worker along.                                                           *)
(*                                                                         *)
(* One webhook is modelled.  The loops that serve a mesh post to it, and   *)
(* so do the goroutines of the Discord gateway, which main closes last:    *)
(* they may find the webhook closed.  Dialling heeds no signal, and a      *)
(* backend that was dialled is served, the channels being registered,      *)
(* whatever has come in the meantime.                                      *)
(***************************************************************************)
EXTENDS Webhook

CONSTANTS
    Loops,     \* reconnect loops: MeshCore, Meshtastic, CoreScope
    Meshes,    \* those that post what a mesh brings
    MaxBackoff \* maxReconnectBackoff, maxBackoff

Housekeeping == "housekeeping"
Goroutines == Loops \cup {Housekeeping}
Posters == {"mesh", "discord"}

ASSUME LifecycleAssumption ==
    /\ Meshes \subseteq Loops /\ Housekeeping \notin Loops
    /\ MaxBackoff \in Nat \ {0}

VARIABLES
    cancelled, \* ctx.Err() # nil
    at,        \* at[l]: what goroutine l is about
    backoff,   \* backoff[l]
    main,      \* what main is about
    refused    \* those who have had a post refused by a closed webhook

processVars == <<cancelled, at, backoff, main, refused>>
allVars == <<vars, processVars>>

ProcessInit ==
    /\ Init
    /\ cancelled = FALSE /\ main = "waiting" /\ refused = {}
    /\ at = [l \in Goroutines |-> IF l = Housekeeping THEN "serving" ELSE "starting"]
    /\ backoff = [l \in Loops |-> 1]

-----------------------------------------------------------------------------

\* SIGINT or SIGTERM.
Signal ==
    /\ ~cancelled /\ cancelled' = TRUE
    /\ UNCHANGED <<vars, at, backoff, main, refused>>

Goes(l, where) == at' = [at EXCEPT ![l] = where]

\* The head of the loop.
Start(l) ==
    /\ at[l] = "starting"
    /\ Goes(l, IF cancelled THEN "done" ELSE "dialling")
    /\ UNCHANGED <<vars, cancelled, backoff, main, refused>>

\* The backend answers and is served.
Connected(l) ==
    /\ at[l] = "dialling"
    /\ Goes(l, "serving") /\ backoff' = [backoff EXCEPT ![l] = 1]
    /\ UNCHANGED <<vars, cancelled, main, refused>>

\* A mutant of Broken: what is served is not told of the cancelled context.
BrokenUntold(l) ==
    /\ at[l] = "dialling" \/ (at[l] = "serving" /\ ~cancelled)
    /\ Goes(l, IF cancelled THEN "done" ELSE "sleeping")
    /\ UNCHANGED <<vars, cancelled, backoff, main, refused>>

\* Dialling failed, or what was served is over: the connection broke, or RunMeshcore,
\* RunMeshtastic or runOnce saw the context cancelled.
Broken(l) ==
    /\ at[l] \in {"dialling", "serving"}
    /\ Goes(l, IF cancelled THEN "done" ELSE "sleeping")
    /\ UNCHANGED <<vars, cancelled, backoff, main, refused>>

\* A mutant of Sleep: a wait that has grown to its limit gives the backend up.
SleepBelowLimit(l) ==
    /\ at[l] = "sleeping"
    /\ \/ /\ backoff[l] < MaxBackoff /\ Goes(l, "starting")
          /\ backoff' = [backoff EXCEPT ![l] = IF 2 * @ > MaxBackoff THEN MaxBackoff ELSE 2 * @]
       \/ cancelled /\ Goes(l, "done") /\ UNCHANGED backoff
    /\ UNCHANGED <<vars, cancelled, main, refused>>

\* sleepOrDone and nextBackoff.
Sleep(l) ==
    /\ at[l] = "sleeping"
    /\ \/ /\ Goes(l, "starting")
          /\ backoff' = [backoff EXCEPT ![l] = IF 2 * @ > MaxBackoff THEN MaxBackoff ELSE 2 * @]
       \/ cancelled /\ Goes(l, "done") /\ UNCHANGED backoff
    /\ UNCHANGED <<vars, cancelled, main, refused>>

\* RunHousekeeping sees the context cancelled.
Housekept ==
    /\ cancelled /\ at[Housekeeping] = "serving"
    /\ Goes(Housekeeping, "done")
    /\ UNCHANGED <<vars, cancelled, backoff, main, refused>>

\* postToWebhook: a loop posts what its mesh brings while it serves it, and a gateway
\* goroutine a Discord message to the channel's other webhooks, as long as the process
\* lives.
Post(poster) ==
    /\ poster = "mesh" => \E l \in Meshes : at[l] = "serving"
    /\ poster = "discord" => main # "exited"
    /\ Enqueue
    /\ refused' = IF closed THEN refused \cup {poster} ELSE refused
    /\ UNCHANGED <<cancelled, at, backoff, main>>

Works == main # "exited" /\ Worker /\ UNCHANGED processVars

-----------------------------------------------------------------------------

\* A mutant of Waited: main waits for the housekeeping only.
WaitedLess ==
    /\ main = "waiting" /\ at[Housekeeping] = "done"
    /\ main' = "closing"
    /\ UNCHANGED <<vars, cancelled, at, backoff, refused>>

\* wg.Wait returns.
Waited ==
    /\ main = "waiting" /\ \A l \in Goroutines : at[l] = "done"
    /\ main' = "closing"
    /\ UNCHANGED <<vars, cancelled, at, backoff, refused>>

\* A mutant of CloseBridge: the webhook is closed and not waited for.
CloseBridgeAtOnce ==
    /\ main = "closing"
    /\ Close
    /\ main' = "closed"
    /\ UNCHANGED <<cancelled, at, backoff, refused>>

\* Bridge.Close closes the webhook, and waits for it at most five seconds.
CloseBridge ==
    /\ main = "closing"
    /\ Close \/ CloseReturns
    /\ main' = IF closer' \in {"drained", "expired"} THEN "closed" ELSE "closing"
    /\ UNCHANGED <<cancelled, at, backoff, refused>>

\* main returns.
ExitProcess ==
    /\ main = "closed"
    /\ main' = "exited"
    /\ UNCHANGED <<vars, cancelled, at, backoff, refused>>

LoopStep(l) == Start(l) \/ Connected(l) \/ Broken(l) \/ Sleep(l)
MainStep == Waited \/ CloseBridge \/ ExitProcess

ProcessNext ==
    \/ Signal \/ Housekept \/ Works \/ MainStep
    \/ \E poster \in Posters : Post(poster)
    \/ \E l \in Loops : LoopStep(l)

ProcessSpec == ProcessInit /\ [][ProcessNext]_allVars

\* Goroutines run, requests and waits end, dialling succeeds or fails, and a loop that
\* serves sees a cancelled context.  Nothing makes a connection break, or a signal come.
ProcessFairSpec ==
    /\ ProcessSpec
    /\ WF_allVars(Works) /\ WF_allVars(MainStep) /\ WF_allVars(Housekept)
    /\ \A l \in Loops :
           /\ WF_allVars(Start(l)) /\ WF_allVars(Sleep(l)) /\ SF_allVars(Connected(l))
           /\ WF_allVars((cancelled \/ at[l] = "dialling") /\ Broken(l))

-----------------------------------------------------------------------------

ProcessTypeOK ==
    /\ cancelled \in BOOLEAN
    /\ at \in [Goroutines -> {"starting", "dialling", "serving", "sleeping", "done"}]
    /\ backoff \in [Loops -> 1..MaxBackoff]
    /\ main \in {"waiting", "closing", "closed", "exited"}
    /\ refused \subseteq Posters

\* main, Bridge.Close ("call it after they have wound down"): a closed webhook never
\* refuses what a mesh brought, and nothing is refused before every loop has ended; the
\* posts that are refused are of Discord messages that come while hoplink shuts down.
OnlyDiscordRefused ==
    refused # {} => refused = {"discord"} /\ \A l \in Goroutines : at[l] = "done"

\* runMeshcoreWithReconnect, nextBackoff: a backend that is down is dialled again and
\* again, and served when it can be reached, until hoplink is told to stop.
EventuallyServed ==
    \A l \in Loops : at[l] # "serving" ~> at[l] = "serving" \/ cancelled

\* main: after a signal the process exits, whatever its loops were about and whatever
\* Discord answers.
EventuallyExits == cancelled ~> main = "exited"

\* Every job the webhook accepts is posted or given up before the process exits, if
\* Close does not run out of time.
EventuallyPosted ==
    \A n \in Jobs : n \in Elements(queue) ~>
        n \in Elements(posted) \cup failed \/ (main = "exited" /\ closer = "expired")

\* Meant to be refuted: whatever was accepted is posted or given up before the process
\* exits (Close gives up after five seconds).
NothingCutOff == main = "exited" => queue = <<>> /\ InHand = {}
=============================================================================
