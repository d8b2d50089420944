---------------------------- MODULE HttpRequest ----------------------------
(***************************************************************************)
(* One HTTP request statement (src/src/runtime/http.rs): the options are   *)
(* checked, the client is built when there is none yet, and the request is *)
(* sent up to retries + 1 times.  The server is asynchronous: it may apply *)
(* an attempt long after the client has given that attempt up, and apply   *)
(* several attempts of the same request.  The client's own retries and its *)
(* redirects are switched off, so that an attempt is one message.          *)
(***************************************************************************)
EXTENDS Integers, FiniteSets

CONSTANTS
    Configs,    \* the configurations considered
    Statuses,   \* the statuses the server may answer with
    Faults      \* which of the environment's failures may happen

\* A configuration is what the checks see of it: the values given for `retry'
\* and `timeout', none or one each, whether the headers, the query and the JSON
\* value (if any) are acceptable and every key is known, and whether the URL is
\* an absolute HTTP(S) URL with a host.
Config == [retry : SUBSET Int, timeout : SUBSET Int,
           fieldsOK : BOOLEAN, urlOK : BOOLEAN]

ASSUME HttpAssumption ==
    /\ Configs \subseteq Config
    /\ \A c \in Configs : \A m, n \in c.retry : m = n
    /\ Statuses \subseteq 100..999
    /\ Faults \subseteq {"client", "connect", "other", "lost", "body"}

VARIABLES
    config,     \* the request's configuration
    retries,    \* Options::retries
    client,     \* whether HttpRuntime::client has been built
    pc,         \* where the request stands
    attempt,    \* the loop's variable
    status,     \* the status of the response at hand
    result,     \* how the request ended
    wire,       \* per attempt: how many copies are under way to the server
    answer,     \* per attempt: the server's answer, 0 while there is none
    applied,    \* per attempt: how often the server has applied it
    ended       \* history, per attempt: how it ended for the client

clientVars == <<config, retries, client, pc, attempt, status, result, ended>>
serverVars == <<wire, answer, applied>>
vars == <<clientVars, serverVars>>

MostRetries == 10
LongestTimeout == 86400000
Attempts == 0..MostRetries

Init ==
    /\ config \in Configs
    /\ retries = 0
    /\ client \in BOOLEAN
    /\ pc = "parse"
    /\ attempt = 0
    /\ status = 0
    /\ result = "none"
    /\ wire = [k \in Attempts |-> 0]
    /\ answer = [k \in Attempts |-> 0]
    /\ applied = [k \in Attempts |-> 0]
    /\ ended = [k \in Attempts |-> "none"]

\* Options::parse, and the checks of the URL.
Acceptable ==
    /\ config.retry \subseteq 0..MostRetries
    /\ config.timeout \subseteq 1..LongestTimeout
    /\ config.fieldsOK /\ config.urlOK

Finish(outcome) == pc' = "done" /\ result' = outcome

Reject ==
    /\ pc = "parse" /\ ~Acceptable
    /\ Finish("invalid")
    /\ UNCHANGED <<config, retries, client, attempt, status, ended, serverVars>>

ClientFails ==
    /\ pc = "parse" /\ Acceptable /\ ~client
    /\ "client" \in Faults
    /\ Finish("no client")
    /\ UNCHANGED <<config, retries, client, attempt, status, ended, serverVars>>

Begin ==
    /\ pc = "parse" /\ Acceptable
    /\ retries' = IF config.retry = {} THEN 0 ELSE CHOOSE n \in config.retry : TRUE
    /\ client' = TRUE
    /\ pc' = "send"
    /\ UNCHANGED <<config, attempt, status, result, ended, serverVars>>

-----------------------------------------------------------------------------
\* Mutant: one attempt too many, behind the last round of the loop.
MayRetryOnceMore == attempt <= retries

MayRetry == attempt < retries

\* `continue': the next round of the loop, or the code behind the loop.
Continue ==
    IF attempt < retries
    THEN pc' = "send" /\ attempt' = attempt + 1 /\ UNCHANGED result
    ELSE pc' = "unreachable" /\ UNCHANGED <<attempt, result>>

Ends(how) == ended' = [ended EXCEPT ![attempt] = how]

\* Mutant: the client library retries on its own.
SendTwice ==
    /\ pc = "send"
    /\ pc' = "wait"
    /\ wire' = [wire EXCEPT ![attempt] = 2]
    /\ UNCHANGED <<config, retries, client, attempt, status, result, ended,
                   answer, applied>>

Send ==
    /\ pc = "send"
    /\ pc' = "wait"
    /\ wire' = [wire EXCEPT ![attempt] = 1]
    /\ UNCHANGED <<config, retries, client, attempt, status, result, ended,
                   answer, applied>>

\* Mutant: a timeout is retried without regard to the number of attempts.
RetryOrFailForEver(how) ==
    /\ Ends(how)
    /\ pc' = "send"
    /\ attempt' = IF MayRetry THEN attempt + 1 ELSE attempt
    /\ UNCHANGED <<config, retries, client, status, result, serverVars>>

RetryOrFail(how) ==
    /\ Ends(how)
    /\ IF MayRetry THEN Continue ELSE Finish("failed") /\ UNCHANGED attempt
    /\ UNCHANGED <<config, retries, client, status, serverVars>>

\* No connection: error.is_connect().
ConnectFails ==
    /\ pc = "send"
    /\ "connect" \in Faults
    /\ RetryOrFail("connect")

\* error.is_timeout(): also when the server has already applied the attempt.
TimesOut ==
    /\ pc \in {"send", "wait"}
    /\ RetryOrFail("timeout")

\* Any other error, a broken connection for one, is not retried.
OtherError ==
    /\ pc \in {"send", "wait"}
    /\ "other" \in Faults
    /\ Ends("other")
    /\ Finish("failed")
    /\ UNCHANGED <<config, retries, client, attempt, status, serverVars>>

RetryStatuses == {429, 502, 503, 504}

\* Mutant: a status that calls for a retry is returned at once.
RespondWithoutRetry ==
    /\ pc = "wait"
    /\ answer[attempt] # 0
    /\ status' = answer[attempt]
    /\ Ends("answer")
    /\ pc' = "read"
    /\ UNCHANGED <<config, retries, client, attempt, result, serverVars>>

\* Mutant: the answer to an earlier attempt is taken for this one's.
RespondToEarlier ==
    /\ pc = "wait"
    /\ \E k \in 0..attempt : answer[k] # 0 /\ status' = answer[k]
    /\ Ends("answer")
    /\ IF MayRetry /\ status' \in RetryStatuses
       THEN Continue
       ELSE pc' = "read" /\ UNCHANGED <<attempt, result>>
    /\ UNCHANGED <<config, retries, client, serverVars>>

\* The response to this attempt is here; earlier attempts' are not read.
Respond ==
    /\ pc = "wait"
    /\ answer[attempt] # 0
    /\ status' = answer[attempt]
    /\ Ends("answer")
    /\ IF MayRetry /\ answer[attempt] \in RetryStatuses
       THEN Continue
       ELSE pc' = "read" /\ UNCHANGED <<attempt, result>>
    /\ UNCHANGED <<config, retries, client, serverVars>>

\* Mutant: an error while the body is read starts another attempt.
ReadFailsRetrying ==
    /\ pc = "read"
    /\ "body" \in Faults
    /\ RetryOrFail("answer")

\* A header that is not text, an error or timeout while the body is read, a
\* body of more than 8 MiB or one that is not UTF-8.
ReadFails ==
    /\ pc = "read"
    /\ "body" \in Faults
    /\ Finish("failed")
    /\ UNCHANGED <<config, retries, client, attempt, status, ended, serverVars>>

Read ==
    /\ pc = "read"
    /\ Finish("ok")
    /\ UNCHANGED <<config, retries, client, attempt, status, ended, serverVars>>

ClientStep ==
    \/ Reject \/ ClientFails \/ Begin
    \/ Send \/ ConnectFails \/ TimesOut \/ OtherError
    \/ Respond \/ ReadFails \/ Read

-----------------------------------------------------------------------------
\* The server applies an attempt, whenever it gets round to it.
Apply(k) ==
    /\ wire[k] > 0
    /\ wire' = [wire EXCEPT ![k] = @ - 1]
    /\ applied' = [applied EXCEPT ![k] = @ + 1]
    /\ \E s \in Statuses : answer' = [answer EXCEPT ![k] = s]
    /\ UNCHANGED clientVars

\* An attempt is lost on its way, or the server fails before it applies it.
Lose(k) ==
    /\ wire[k] > 0
    /\ "lost" \in Faults
    /\ wire' = [wire EXCEPT ![k] = @ - 1]
    /\ UNCHANGED <<clientVars, answer, applied>>

\* The statement is over; the server may still have attempts to apply.
Over == pc = "done" /\ UNCHANGED vars

Next ==
    \/ ClientStep
    \/ \E k \in Attempts : Apply(k) \/ Lose(k)
    \/ Over

\* The client's thread runs, and every wait ends with the option's timeout.
Spec == Init /\ [][Next]_vars /\ WF_vars(ClientStep)

-----------------------------------------------------------------------------
(***************************************************************************)
(* Properties.                                                             *)
(***************************************************************************)
Outcomes == {"none", "ok", "invalid", "no client", "failed"}

\* Every variable has its type; the loop is never left by its end.
TypeOK ==
    /\ config \in Configs
    /\ retries \in 0..MostRetries
    /\ client \in BOOLEAN
    /\ pc \in {"parse", "send", "wait", "read", "done"}
    /\ attempt \in 0..retries
    /\ status \in Statuses \cup {0}
    /\ result \in Outcomes
    /\ wire \in [Attempts -> 0..1]
    /\ answer \in [Attempts -> Statuses \cup {0}]
    /\ applied \in [Attempts -> Nat]
    /\ ended \in [Attempts -> {"none", "connect", "timeout", "other", "answer"}]

\* The server applies the request at most once per attempt, that is at most
\* retries + 1 times in all, however late the attempts arrive.
AppliedOncePerAttempt ==
    /\ \A k \in Attempts : applied[k] <= 1
    /\ Cardinality({k \in Attempts : applied[k] = 1}) <= retries + 1

\* A response that is reported is the server's answer to the last attempt; it
\* may be a status that calls for a retry only when all attempts are used up.
AnswerIsFinal ==
    result = "ok" =>
        /\ applied[attempt] = 1 /\ answer[attempt] = status
        /\ \A k \in Attempts : k > attempt => ended[k] = "none"
        /\ status \in RetryStatuses => attempt = retries

\* A request is repeated only when the attempt before was not answered, or was
\* answered with a status that calls for it; after any other answer, read well
\* or badly, the server is left alone.
RepeatedForCause ==
    \A k \in Attempts :
        k < attempt =>
            \/ ended[k] \in {"connect", "timeout"}
            \/ ended[k] = "answer" /\ answer[k] \in RetryStatuses

\* Once the request is over the server still applies it only if the client
\* gave up on an attempt that had been sent; an answered request is settled.
LateEffectsOnlyAfterGivingUp ==
    [][\A k \in Attempts :
          (pc = "done" /\ applied'[k] # applied[k])
              => ended[k] \in {"timeout", "other"}]_vars

\* Every request ends.
Termination == <>(pc = "done")
=============================================================================
