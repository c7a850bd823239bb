------------------------------ MODULE MCTimers ------------------------------
(***************************************************************************)
(* Instances of the two models that set retries against the clock and the  *)
(* sweep: the chunk of RetryTiming and the texts of EchoRetry.  They share *)
(* nothing, so a behaviour is that of one of them.                         *)
(***************************************************************************)
EXTENDS RetryTiming, FiniteSets

CONSTANTS Sends, RetryWait, SelfEchoTTL, EchoMaxSend, Horizon

ASSUME EchoAssumption ==
    /\ IsFiniteSet(Sends)
    /\ RetryWait \in Nat /\ SelfEchoTTL \in Nat /\ EchoMaxSend \in Nat /\ Horizon \in Nat

VARIABLES part, clock, count, sentAt, pc, due, sendAttempt, echoed, taken, satisfied

E == INSTANCE EchoRetry WITH MaxSend <- EchoMaxSend, now <- clock, attempt <- sendAttempt

echoVars == <<clock, count, sentAt, pc, due, sendAttempt, echoed, taken, satisfied>>

TimersInit ==
    /\ Init /\ E!Init
    /\ part \in {"chunk", "texts"} /\ (part = "texts" => deadline = 0)

TimersNext ==
    \/ part = "chunk" /\ Next /\ UNCHANGED <<part, echoVars>>
    \/ part = "texts" /\ E!Next /\ UNCHANGED <<part, vars>>

TimersSpec == TimersInit /\ [][TimersNext]_<<vars, part, echoVars>>

\* EchoRetry's properties, of the texts sent here.
OneEchoOneSend == E!OneEchoOneSend
RetriedOnlyUnheard == E!RetriedOnlyUnheard
=============================================================================
