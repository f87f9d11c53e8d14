----------------------------- MODULE AccessToken -----------------------------
(***************************************************************************)
(* The access token of src/alvis/sources/gdrive.py and sharepoint.py, one  *)
(* protocol in both: _ensure_token under a lock before every request,      *)
(* HttpClient repeating a request with whatever token is there by then.    *)
(* A task here is a coroutine with one request under way: between the      *)
(* return of _ensure_token and the sending nothing is awaited.  The token  *)
(* host grants tokens that live longer than the safety margin.             *)
(***************************************************************************)
EXTENDS Naturals, FiniteSets

CONSTANTS
  Tasks,
  Nobody,      \* not a task
  MaxLapses,   \* bound: how often time passes for the token
  MaxAttempts  \* max_retries + 1

ASSUME TokenAssumption ==
  /\ Nobody \notin Tasks
  /\ MaxLapses \in Nat
  /\ MaxAttempts \in Nat \ {0}

VARIABLES
  age,      \* of _access_token: good until _token_expiry, in the margin after it, or expired
  holder,   \* who has _token_lock and waits for the token host
  calls,    \* tokens asked for
  lapses,   \* how often time has passed
  denied,   \* how often the token host refused (history)
  stales,   \* how often a good token left its time (history)
  step,     \* where the request of each task is
  attempt,  \* how often it has been sent
  carried   \* the age of the token it carried when it was sent last

tokenVars == <<age, holder, calls, lapses, denied, stales, step, attempt, carried>>

Ages == {"none", "good", "margin", "expired"}
Steps == {"idle", "ensure", "ask", "sent", "sleep", "refused"}

TokenInit ==
  /\ age = "none"
  /\ holder = Nobody
  /\ calls = 0
  /\ lapses = 0
  /\ denied = 0
  /\ stales = 0
  /\ step = [t \in Tasks |-> "idle"]
  /\ attempt = [t \in Tasks |-> 0]
  /\ carried = [t \in Tasks |-> "none"]

\* Mutant of Usable: without the safety margin.
UsableNoMargin == age \in {"good", "margin"}
\* A token is used while its _token_expiry, a margin early, has not come.
Usable == age = "good"

\* HttpClient sends with the header as it is now; a server knows an expired token.
Send(t, a) ==
  /\ attempt' = [attempt EXCEPT ![t] = @ + 1]
  /\ carried' = [carried EXCEPT ![t] = a]
  /\ step' = [step EXCEPT ![t] = IF a \in {"good", "margin"} THEN "sent" ELSE "refused"]

Begin(t) ==
  /\ step[t] = "idle"
  /\ step' = [step EXCEPT ![t] = "ensure"]
  /\ UNCHANGED <<age, holder, calls, lapses, denied, stales, attempt, carried>>

\* Mutant of Ensure: no lock around the check and the call.
EnsureUnlocked(t) ==
  /\ step[t] = "ensure"
  /\ \/ /\ Usable
        /\ Send(t, age)
        /\ UNCHANGED <<holder, calls>>
     \/ /\ ~Usable
        /\ holder' = t
        /\ calls' = calls + 1
        /\ step' = [step EXCEPT ![t] = "ask"]
        /\ UNCHANGED <<attempt, carried>>
  /\ UNCHANGED <<age, lapses, denied, stales>>

\* The lock is free: use the token, or ask for one while others wait.
Ensure(t) ==
  /\ step[t] = "ensure"
  /\ holder = Nobody
  /\ \/ /\ Usable
        /\ Send(t, age)
        /\ UNCHANGED <<holder, calls>>
     \/ /\ ~Usable
        /\ holder' = t
        /\ calls' = calls + 1
        /\ step' = [step EXCEPT ![t] = "ask"]
        /\ UNCHANGED <<attempt, carried>>
  /\ UNCHANGED <<age, lapses, denied, stales>>

\* The token host answers, and the request goes out at once.
Granted(t) ==
  /\ holder = t
  /\ holder' = Nobody
  /\ age' = "good"
  /\ Send(t, "good")
  /\ UNCHANGED <<calls, lapses, denied, stales>>

\* A repeated request; what HttpClient.request knows of the token is its header hook.
Resend(t) ==
  /\ step[t] = "sleep"
  /\ Send(t, age)
  /\ UNCHANGED <<age, holder, calls, lapses, denied, stales>>

\* Mutant of Retry: one attempt too many.
RetryOnceMore(t) ==
  /\ step[t] = "sent"
  /\ attempt[t] <= MaxAttempts
  /\ step' = [step EXCEPT ![t] = "sleep"]
  /\ UNCHANGED <<age, holder, calls, lapses, denied, stales, attempt, carried>>

\* The answer is one that is retried.
Retry(t) ==
  /\ step[t] = "sent"
  /\ attempt[t] < MaxAttempts
  /\ step' = [step EXCEPT ![t] = "sleep"]
  /\ UNCHANGED <<age, holder, calls, lapses, denied, stales, attempt, carried>>

\* Time passes for the token.
Lapse ==
  /\ age \in {"good", "margin"}
  /\ lapses < MaxLapses
  /\ lapses' = lapses + 1
  /\ age' = IF age = "good" THEN "margin" ELSE "expired"
  /\ stales' = IF age = "good" THEN stales + 1 ELSE stales
  /\ UNCHANGED <<holder, calls, denied, step, attempt, carried>>

\* The token host refuses, or there is no secret: SourceError to the caller.
Denied(t) ==
  /\ holder = t
  /\ holder' = Nobody
  /\ step' = [step EXCEPT ![t] = "idle"]
  /\ denied' = denied + 1
  /\ UNCHANGED <<age, calls, lapses, stales, attempt, carried>>

\* The request ends, with its answer or with the error it raised.
Finish(t) ==
  /\ step[t] \in {"sent", "refused"}
  /\ step' = [step EXCEPT ![t] = "idle"]
  /\ attempt' = [attempt EXCEPT ![t] = 0]
  /\ carried' = [carried EXCEPT ![t] = "none"]
  /\ UNCHANGED <<age, holder, calls, lapses, denied, stales>>

TokenStep(t) == Ensure(t) \/ Granted(t) \/ Resend(t) \/ Retry(t)

TokenNext ==
  \/ Lapse
  \/ \E t \in Tasks : Begin(t) \/ TokenStep(t) \/ Denied(t) \/ Finish(t)

TokenSpec == TokenInit /\ [][TokenNext]_tokenVars

TokenTypeOK ==
  /\ age \in Ages
  /\ holder \in Tasks \cup {Nobody}
  /\ calls \in Nat
  /\ lapses \in 0..MaxLapses
  /\ denied \in Nat
  /\ stales \in 0..lapses
  /\ step \in [Tasks -> Steps]
  /\ attempt \in [Tasks -> 0..MaxAttempts]
  /\ carried \in [Tasks -> Ages]

(* A request is sent for the first time with a token well within its time,  *)
(* however many requests waited for it; so a server refuses only one that   *)
(* slept before a retry (the margin of 60 seconds is shorter than the       *)
(* retries of a slow server can take).                                      *)
RefusedOnlyOnRetry ==
  \A t \in Tasks :
    /\ attempt[t] = 1 => carried[t] = "good"
    /\ step[t] = "refused" => attempt[t] > 1

(* However many requests find the token stale at once, one new token is     *)
(* asked for: there is one call at the start and one each time it went      *)
(* stale or the token host refused.                                         *)
OneTokenPerLife == calls <= 1 + stales + denied
=============================================================================
