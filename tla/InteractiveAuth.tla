-------------------------- MODULE InteractiveAuth --------------------------
(***************************************************************************)
(* interactive-auth.ts: a request that has to be authenticated in stages.  *)
(* attemptAuth sends it, the server's 401 names the flows and the stages   *)
(* completed, and every further try, made by the application, by a poll or *)
(* for the dummy stage, waits for the one before it (submitPromise).  A    *)
(* call is a use of submitAuthDict, or the first request.                  *)
(***************************************************************************)
EXTENDS Naturals, Sequences, SequencesExt, FiniteSets

CONSTANTS Call,            \* calls of submitAuthDict
          Flows,           \* the flows of the server, in their order
          Inputs,          \* which of email and msisdn the application has
          MaxAuthFailures  \* bound: requests that fail for another reason

Email == "m.login.email.identity"
Msisdn == "m.login.msisdn"
Dummy == "m.login.dummy"

ASSUME InteractiveAuthAssumption ==
    /\ Inputs \subseteq {Email, Msisdn} /\ MaxAuthFailures \in Nat
    /\ "first" \notin Call /\ "none" \notin Call

VARIABLES
    attempt,     \* attemptAuthDeferred: none, open, resolved, rejected
    deferred,    \* whether the field still holds it
    knownFlows,  \* data: flows known, stages completed
    chosenFlow, currentStage, emailSid, requestingEmailToken,
    submission,  \* the calls: where each is, its stage, whether in the background
    submitting,  \* submitPromise: whose it is
    done,        \* the stages the server has seen completed
    successes,   \* how often the request was carried out
    authFailures

authVars == <<attempt, deferred, knownFlows, chosenFlow, currentStage, emailSid,
              requestingEmailToken, submission, submitting, done, successes, authFailures>>

Nothing == "none"
Calls == Call \cup {"first"}
NewCall == [at |-> "new", stage |-> Nothing, background |-> FALSE]

\* Every part of the state has its type.
AuthTypeOK ==
    /\ attempt \in {Nothing, "open", "resolved", "rejected"} /\ deferred \in BOOLEAN
    /\ \A c \in Calls : submission[c].at \in {"new", "waits", "sent", "token", "over"}
    /\ submitting \in Calls \cup {Nothing}

AuthInit ==
    /\ attempt = Nothing /\ deferred = FALSE
    /\ knownFlows = [flows |-> FALSE, completed |-> {}]
    /\ chosenFlow = <<>> /\ currentStage = Nothing
    /\ emailSid = FALSE /\ requestingEmailToken = FALSE
    /\ submission = [c \in Calls |-> NewCall] /\ submitting = Nothing
    /\ done = {} /\ successes = 0 /\ authFailures = 0

----------------------------------------------------------------------------
\* chooseFlow: the first flow that asks for an email, and for a phone number, exactly when
\* the application has one.  <<>> when there is none (NoAuthFlowFoundError).
suits(flow) ==
    \A s \in {Email, Msisdn} : s \in Range(flow) <=> s \in Inputs \/ (s = Email /\ emailSid)

chooseFlow ==
    IF chosenFlow # <<>> THEN chosenFlow
    ELSE LET fit == SelectSeq(Flows, LAMBDA f : suits(f)) IN IF fit = <<>> THEN <<>> ELSE Head(fit)

\* firstUncompletedStage.
nextStage(flow, completed) ==
    LET left == SelectSeq(flow, LAMBDA s : s \notin completed) IN
    IF left = <<>> THEN Nothing ELSE Head(left)

----------------------------------------------------------------------------
\* attemptAuth, on a fresh object: the first request finds out the flows.
attemptAuth ==
    /\ attempt = Nothing
    /\ attempt' = "open" /\ deferred' = TRUE
    /\ submission' = [submission EXCEPT !["first"] = [NewCall EXCEPT !.at = "sent"]]
    /\ UNCHANGED <<knownFlows, chosenFlow, currentStage, emailSid, requestingEmailToken,
                   submitting, done, successes, authFailures>>

\* A call begins: it waits while another is being submitted.
beginCall(calls, c, stage, background, s) ==
    [calls EXCEPT ![c] = [at |-> IF s = Nothing THEN "sent" ELSE "waits", stage |-> stage,
                          background |-> background]]

\* The application submits the current stage, or polls (the email stage needs its sid).
submitAuthDict(c, background) ==
    /\ submission[c].at = "new" /\ c # "first"
    /\ deferred /\ knownFlows.flows /\ currentStage \notin {Nothing, Dummy}
    /\ background => submitting = Nothing
    /\ background \/ currentStage = Email => emailSid
    /\ submission' = beginCall(submission, c, currentStage, background, submitting)
    /\ submitting' = IF submitting = Nothing THEN c ELSE submitting
    /\ UNCHANGED <<attempt, deferred, knownFlows, chosenFlow, currentStage, emailSid,
                   requestingEmailToken, done, successes, authFailures>>

\* Mutant: a call does not look whether another one took its turn.
waitOver_early(c) ==
    /\ submission[c].at = "waits"
    /\ submission' = [submission EXCEPT ![c].at = "sent"]
    /\ submitting' = c
    /\ UNCHANGED <<attempt, deferred, knownFlows, chosenFlow, currentStage, emailSid,
                   requestingEmailToken, done, successes, authFailures>>

\* The call waited for is over: the next one is sent, whatever came of the attempt.
waitOver(c) ==
    /\ submission[c].at = "waits" /\ submitting = Nothing
    /\ submission' = [submission EXCEPT ![c].at = "sent"]
    /\ submitting' = c
    /\ UNCHANGED <<attempt, deferred, knownFlows, chosenFlow, currentStage, emailSid,
                   requestingEmailToken, done, successes, authFailures>>

release(c) == IF submitting = c THEN Nothing ELSE submitting

\* The server carries the request out: all stages of some flow are completed.
seenStages(c) == done \cup (IF submission[c].stage = Nothing THEN {} ELSE {submission[c].stage})

authenticated(c) ==
    /\ submission[c].at = "sent"
    /\ \E i \in DOMAIN Flows : Range(Flows[i]) \subseteq seenStages(c)
    /\ done' = seenStages(c)
    /\ successes' = successes + 1
    /\ attempt' = IF deferred /\ attempt = "open" THEN "resolved" ELSE attempt
    /\ deferred' = FALSE
    /\ submission' = [submission EXCEPT ![c].at = "over"]
    /\ submitting' = release(c)
    /\ UNCHANGED <<knownFlows, chosenFlow, currentStage, emailSid, requestingEmailToken,
                   authFailures>>

\* 401: the next stage is found and started; a call of its own is made for the dummy stage.
\* With an email to verify, the token is asked for before the call is over.
unauthenticated(c, dummyCall) ==
    LET flow == chooseFlow
        stage == nextStage(flow, seenStages(c))
        token == flow # <<>> /\ Email \in Range(flow) /\ ~emailSid /\ ~requestingEmailToken
        after == [submission EXCEPT ![c].at = IF token THEN "token" ELSE "over"]
        held == IF token THEN submitting ELSE release(c) IN
    /\ submission[c].at = "sent"
    /\ ~\E i \in DOMAIN Flows : Range(Flows[i]) \subseteq seenStages(c)
    /\ done' = seenStages(c)
    /\ knownFlows' = [flows |-> TRUE, completed |-> seenStages(c)]
    /\ chosenFlow' = flow
    /\ requestingEmailToken' = (requestingEmailToken \/ token)
    /\ IF stage = Nothing
       THEN /\ attempt' = IF deferred /\ attempt = "open" THEN "rejected" ELSE attempt
            /\ deferred' = FALSE
            /\ currentStage' = currentStage
       ELSE /\ currentStage' = stage
            /\ UNCHANGED <<attempt, deferred>>
    /\ IF stage = Dummy /\ deferred
       THEN /\ submission[dummyCall].at = "new" /\ dummyCall # c
            /\ submission' = beginCall(after, dummyCall, Dummy, FALSE, submitting)
            /\ submitting' = IF submission'[dummyCall].at = "sent" THEN dummyCall ELSE held
       ELSE submission' = after /\ submitting' = held
    /\ UNCHANGED <<emailSid, successes, authFailures>>

\* Any other failure rejects the attempt, unless the call was a background one; the stage
\* is not started again when the error carries no data.
requestFailed(c) ==
    /\ submission[c].at = "sent" /\ authFailures < MaxAuthFailures
    /\ authFailures' = authFailures + 1
    /\ attempt' = IF ~submission[c].background /\ deferred /\ attempt = "open"
                  THEN "rejected" ELSE attempt
    /\ submission' = [submission EXCEPT ![c].at = "over"]
    /\ submitting' = release(c)
    /\ UNCHANGED <<deferred, knownFlows, chosenFlow, currentStage, emailSid, requestingEmailToken,
                   done, successes>>

\* requestEmailTokenCallback has answered: without a token the attempt fails.
emailTokenAnswered(c, good) ==
    /\ submission[c].at = "token"
    /\ ~good => authFailures < MaxAuthFailures
    /\ authFailures' = IF good THEN authFailures ELSE authFailures + 1
    /\ emailSid' = (emailSid \/ good) /\ requestingEmailToken' = FALSE
    /\ attempt' = IF ~good /\ deferred /\ attempt = "open" THEN "rejected" ELSE attempt
    /\ deferred' = (deferred /\ good)
    /\ submission' = [submission EXCEPT ![c].at = "over"]
    /\ submitting' = release(c)
    /\ UNCHANGED <<knownFlows, chosenFlow, currentStage, done, successes>>

----------------------------------------------------------------------------
AuthProgress ==
    \E c \in Calls :
      \/ waitOver(c) \/ authenticated(c) \/ emailTokenAnswered(c, TRUE)
      \/ \E d \in Call : unauthenticated(c, d)

AuthNext ==
    \/ attemptAuth
    \/ \E c \in Call, background \in BOOLEAN : submitAuthDict(c, background)
    \/ AuthProgress
    \/ \E c \in Calls : requestFailed(c) \/ emailTokenAnswered(c, FALSE)

AuthSpec == AuthInit /\ [][AuthNext]_authVars

----------------------------------------------------------------------------
(* Properties.                                                             *)

\* One call at a time is under way, and submitPromise is its promise.
OneSubmission ==
    /\ Cardinality({c \in Call : submission[c].at \in {"sent", "token"}}) <= 1
    /\ \A c \in Call : submission[c].at \in {"sent", "token"} => submitting = c

\* An attempt is resolved or rejected as long as the application submits the
\* stages it is told of (or the calls of the run are used up): no call waits
\* forever for another, and no two are under way at once.
AttemptSettles ==
    /\ [](AuthTypeOK /\ OneSubmission)
    /\ attempt = "open" ~>
         attempt \in {"resolved", "rejected"} \/ \A c \in Call : submission[c].at # "new"
=============================================================================
