----------------------------- MODULE MCServices -----------------------------
(***************************************************************************)
(* Small instances of SyncLoop, OneTimeKeys, OlmSessions, InteractiveAuth  *)
(* and RealtimeCallbacks.  They share no state; a behaviour is about one   *)
(* of them, and part says which.                                           *)
(***************************************************************************)
EXTENDS SyncLoop, OneTimeKeys, OlmSessions, InteractiveAuth, RealtimeCallbacks

CONSTANT Parts

VARIABLE part

OlmPlan(tasks, width, faults, losses, incoming) ==
  [tasks |-> tasks, width |-> width, faults |-> faults, losses |-> losses, prekeys |-> incoming]

\* Three calls for single devices and two for pairs of them, with a peer that
\* loses its sessions or starts one, and with failures.
MCOlmPlans == {OlmPlan(3, 1, 0, 2, 0), OlmPlan(3, 1, 1, 1, 0), OlmPlan(2, 2, 0, 0, 0),
               OlmPlan(2, 2, 1, 1, 0), OlmPlan(2, 1, 0, 0, 2), OlmPlan(1, 1, 1, 1, 2)}

\* Three calls for pairs of devices, and nothing fails.
ThreeCalls == {OlmPlan(3, 2, 0, 0, 0)}

\* The application has an email address: the second flow is the one to take.
MCFlows == << <<Msisdn>>, <<Email, Dummy>>, <<"m.login.password">> >>
MCInputs == {Email}

allVars == <<part, vars, otkVars, olmVars, authVars, timerVars>>

PartInit ==
  /\ part \in Parts
  /\ Init /\ OneTimeKeysInit /\ OlmInit /\ AuthInit /\ CallbacksInit
  /\ part # "sync" => diskTok = None
  /\ part # "olm" => olmPlan = CHOOSE p \in OlmPlans : TRUE

PartNext ==
  \/ part = "sync" /\ Next /\ UNCHANGED <<part, otkVars, olmVars, authVars, timerVars>>
  \/ part = "keys" /\ OneTimeKeysNext /\ UNCHANGED <<part, vars, olmVars, authVars, timerVars>>
  \/ part = "olm" /\ OlmNext /\ UNCHANGED <<part, vars, otkVars, authVars, timerVars>>
  \/ part = "auth" /\ AuthNext /\ UNCHANGED <<part, vars, otkVars, olmVars, timerVars>>
  \/ part = "timers" /\ CallbacksNext /\ UNCHANGED <<part, vars, otkVars, olmVars, authVars>>

\* Requests are answered or time out, timers fire, promises are followed up.
SyncFairness ==
  /\ WF_vars(part = "sync" /\ getSavedSyncToken) /\ WF_vars(part = "sync" /\ syncFromCache)
  /\ WF_vars(part = "sync" /\ (getPushRules \/ checkLazyLoadStatus \/ getFilter \/ awaitSaved))
  /\ WF_vars(part = "sync" /\ recoverFromSyncStartupError)
  /\ WF_vars(part = "sync" /\ SyncAnswer) /\ WF_vars(part = "sync" /\ Loop)
  /\ WF_vars(part = "sync" /\ \E f \in BOOLEAN : PokeAnswered(f))
  /\ WF_vars(part = "sync" /\ \E t \in orphans \cup {timer} : TimerFires(t))

\* Requests and transactions end, the client goes on syncing, and a minute passes.
KeyFairness ==
  /\ WF_otkVars(part = "keys" /\ KeyLoop)
  /\ SF_otkVars(part = "keys" /\ syncAnswers)
  /\ SF_otkVars(part = "keys" /\ syncProcessed(TRUE) /\ upload.at = "idle")

\* Requests and transactions end, and promises are followed up.
OlmFairness ==
  /\ \A t \in Task : WF_olmVars(part = "olm" /\ EnsureSteps(t))
  /\ WF_olmVars(part = "olm" /\ Decryption)

\* Requests are answered, and the application submits the stage it was told of.
AuthFairness ==
  /\ WF_authVars(part = "auth" /\ attemptAuth) /\ WF_authVars(part = "auth" /\ AuthProgress)
  /\ SF_authVars(part = "auth" /\ \E c \in Call : submitAuthDict(c, FALSE))

FairSpec ==
  /\ PartInit /\ [][PartNext]_allVars
  /\ SyncFairness /\ KeyFairness /\ OlmFairness /\ AuthFairness
=============================================================================
