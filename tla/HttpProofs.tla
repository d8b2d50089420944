----------------------------- MODULE HttpProofs -----------------------------
(***************************************************************************)
(* Proofs about one HTTP request.  The properties follow from what each    *)
(* attempt has come to (Attempted) and from where the client stands        *)
(* (Standing): an attempt is sent once, and one that is still under way is *)
(* the current one or was given up.                                        *)
(***************************************************************************)
EXTENDS HttpRequest, FiniteSetTheorems, TLAPS

\* Copies, applications and answers of an attempt, and how it ended.
Attempted(k) ==
    /\ wire[k] + applied[k] <= 1
    /\ answer[k] # 0 <=> applied[k] = 1
    /\ k > attempt \/ (k = attempt /\ pc \in {"parse", "send"})
           => wire[k] = 0 /\ applied[k] = 0 /\ ended[k] = "none"
    /\ k = attempt /\ pc = "wait" => ended[k] = "none"
    /\ wire[k] = 1 => \/ k = attempt /\ pc = "wait"
                      \/ ended[k] \in {"timeout", "other"}

\* The response at hand, or returned.
Answered ==
    /\ applied[attempt] = 1 /\ answer[attempt] = status
    /\ status \in RetryStatuses => attempt = retries

Standing ==
    /\ pc = "parse" => attempt = 0 /\ retries = 0
    /\ pc = "read" => Answered
    /\ result = "ok" => Answered /\ pc = "done"

Inv == /\ TypeOK
       /\ \A k \in Attempts : Attempted(k)
       /\ Standing
       /\ RepeatedForCause

\* What TypeOK says of the actions' operands.
LEMMA Numbers == /\ Attempts = 0..10 /\ MostRetries = 10
                 /\ Statuses \subseteq 100..999
                 /\ RetryStatuses \subseteq 100..999
BY HttpAssumption DEF Attempts, MostRetries, RetryStatuses

\* The invariant holds before the options are parsed.
LEMMA InitInv == Init => Inv
<1> SUFFICES ASSUME Init PROVE Inv
  OBVIOUS
<1>1. TypeOK
  BY Numbers DEF Init, TypeOK, Outcomes
<1>2. \A k \in Attempts : Attempted(k)
  BY Numbers DEF Init, Attempted
<1>3. Standing /\ RepeatedForCause
  BY Numbers DEF Init, Standing, RepeatedForCause
<1> QED
  BY <1>1, <1>2, <1>3 DEF Inv

\* The steps before the first attempt.
LEMMA ParseStep ==
    ASSUME Inv, Reject \/ ClientFails \/ Begin
    PROVE  Inv'
<1>1. pc = "parse" /\ attempt = 0 /\ result # "ok"
  BY DEF Inv, Standing, Reject, ClientFails, Begin
<1>2. TypeOK'
  <2>1. CASE Reject \/ ClientFails
    BY <2>1 DEF Inv, TypeOK, Reject, ClientFails, Finish, serverVars, Outcomes
  <2>2. CASE Begin
    <3>1. config.retry \subseteq 0..MostRetries
      BY <2>2 DEF Begin, Acceptable
    <3>2. config.retry # {} =>
              (CHOOSE n \in config.retry : TRUE) \in config.retry
      OBVIOUS
    <3>3. 0 \in 0..MostRetries
      BY Numbers
    <3>4. retries' \in 0..MostRetries
      BY <2>2, <3>1, <3>2, <3>3 DEF Begin
    <3>5. attempt' = 0
      BY <1>1, <2>2 DEF Begin
    <3>6. UNCHANGED <<config, status, result, wire, answer, applied, ended>>
          /\ pc' = "send" /\ client' = TRUE
      BY <2>2 DEF Begin, serverVars
    <3> QED
      BY <3>4, <3>5, <3>6, Numbers DEF Inv, TypeOK
  <2> QED
    BY <2>1, <2>2
<1>3. pc' \in {"done", "send"} /\ result' # "ok"
      /\ UNCHANGED <<attempt, status, ended, wire, answer, applied>>
  BY <1>1 DEF Reject, ClientFails, Begin, Finish, serverVars
<1>4. \A k \in Attempts : Attempted(k)'
  BY <1>1, <1>3, Numbers DEF Inv, Attempted, TypeOK
<1>5. Standing' /\ RepeatedForCause'
  BY <1>1, <1>3 DEF Inv, Standing, RepeatedForCause
<1> QED
  BY <1>2, <1>4, <1>5 DEF Inv

\* An attempt that was not sent before goes out.
LEMMA SendStep ==
    ASSUME Inv, Send
    PROVE  Inv'
<1>1. TypeOK'
  BY Numbers DEF Inv, TypeOK, Send
<1>2. \A k \in Attempts : Attempted(k)'
  BY Numbers DEF Inv, Attempted, TypeOK, Send
<1>3. Standing' /\ RepeatedForCause'
  BY DEF Inv, Standing, RepeatedForCause, Send
<1> QED
  BY <1>1, <1>2, <1>3 DEF Inv

\* An attempt without an answer: the next one, or the end.
LEMMA RetryStep ==
    ASSUME Inv,
           \/ ConnectFails
           \/ TimesOut
           \/ OtherError
    PROVE  Inv'
<1>1. /\ pc \in {"send", "wait"}
      /\ attempt \in Attempts /\ retries \in Attempts /\ attempt <= retries
      /\ UNCHANGED <<config, retries, client, status, wire, answer, applied>>
  BY Numbers DEF Inv, TypeOK, ConnectFails, TimesOut, OtherError, RetryOrFail,
                 serverVars
<1>2. PICK how \in {"connect", "timeout", "other"} :
          /\ ended' = [ended EXCEPT ![attempt] = how]
          /\ how = "connect" => pc = "send"
          /\ \/ /\ pc' = "send" /\ attempt' = attempt + 1
                /\ attempt < retries /\ how # "other" /\ result' = result
             \/ pc' = "done" /\ attempt' = attempt /\ result' = "failed"
  <2>1. CASE ConnectFails
    BY <2>1 DEF ConnectFails, RetryOrFail, Ends, Finish, Continue, MayRetry
  <2>2. CASE TimesOut
    BY <2>2 DEF TimesOut, RetryOrFail, Ends, Finish, Continue, MayRetry
  <2>3. CASE OtherError
    BY <2>3 DEF OtherError, Ends, Finish
  <2> QED
    BY <2>1, <2>2, <2>3
<1>3. result # "ok"
  BY <1>1 DEF Inv, Standing
<1>4. TypeOK'
  <2>1. attempt' \in 0..retries'
    BY <1>1, <1>2, Numbers
  <2>2. pc' \in {"send", "done"} /\ result' \in Outcomes
    BY <1>2 DEF Inv, TypeOK, Outcomes
  <2>3. ended \in [Attempts -> {"none", "connect", "timeout", "other",
                               "answer"}]
    BY DEF Inv, TypeOK
  <2>4. ended' \in [Attempts -> {"none", "connect", "timeout", "other",
                                "answer"}]
    BY <1>2, <2>3
  <2> QED
    BY <1>1, <2>1, <2>2, <2>4 DEF Inv, TypeOK
<1>5. \A k \in Attempts : Attempted(k)'
  BY <1>1, <1>2, Numbers DEF Inv, Attempted, TypeOK
<1>6. Standing'
  BY <1>1, <1>2, <1>3 DEF Standing
<1>7. RepeatedForCause'
  BY <1>1, <1>2, Numbers DEF Inv, TypeOK, RepeatedForCause
<1> QED
  BY <1>4, <1>5, <1>6, <1>7 DEF Inv

\* The answer to the current attempt: it is read, or calls for the next one.
LEMMA RespondStep ==
    ASSUME Inv, Respond
    PROVE  Inv'
<1>1. /\ pc = "wait" /\ answer[attempt] # 0 /\ status' = answer[attempt]
      /\ attempt \in Attempts /\ retries \in Attempts /\ attempt <= retries
      /\ answer[attempt] \in Statuses /\ result # "ok"
      /\ UNCHANGED <<config, retries, client, wire, answer, applied, result>>
      /\ ended' = [ended EXCEPT ![attempt] = "answer"]
  BY Numbers DEF Inv, TypeOK, Standing, Respond, Ends, Continue, MayRetry,
                 serverVars
<1>2. applied[attempt] = 1 /\ wire[attempt] = 0
  BY <1>1, Numbers DEF Inv, Attempted, TypeOK
<1>3. \/ /\ pc' = "send" /\ attempt' = attempt + 1 /\ attempt < retries
         /\ answer[attempt] \in RetryStatuses
      \/ /\ pc' = "read" /\ attempt' = attempt
         /\ answer[attempt] \in RetryStatuses => attempt = retries
  BY <1>1, Numbers DEF Respond, Continue, MayRetry
<1>4. TypeOK'
  BY <1>1, <1>3, Numbers DEF Inv, TypeOK
<1>5. \A k \in Attempts : Attempted(k)'
  BY <1>1, <1>2, <1>3, Numbers DEF Inv, Attempted, TypeOK
<1>6. Standing'
  BY <1>1, <1>2, <1>3 DEF Standing, Answered
<1>7. RepeatedForCause'
  BY <1>1, <1>3, Numbers DEF Inv, TypeOK, RepeatedForCause
<1> QED
  BY <1>4, <1>5, <1>6, <1>7 DEF Inv

\* The body is read, well or badly.
LEMMA ReadStep ==
    ASSUME Inv, Read \/ ReadFails
    PROVE  Inv'
<1>1. /\ pc = "read" /\ pc' = "done" /\ result' \in {"ok", "failed"}
      /\ UNCHANGED <<config, retries, client, attempt, status, ended,
                     wire, answer, applied>>
  BY DEF Read, ReadFails, Finish, serverVars
<1>2. TypeOK'
  BY <1>1 DEF Inv, TypeOK, Outcomes
<1>3. \A k \in Attempts : Attempted(k)'
  BY <1>1 DEF Inv, Attempted
<1>4. Standing' /\ RepeatedForCause'
  BY <1>1 DEF Inv, Standing, Answered, RepeatedForCause
<1> QED
  BY <1>2, <1>3, <1>4 DEF Inv

\* The server applies or loses an attempt: one that was sent and not answered.
LEMMA ServerStep ==
    ASSUME Inv, NEW j \in Attempts, Apply(j) \/ Lose(j)
    PROVE  Inv'
<1>1. /\ wire[j] = 1 /\ applied[j] = 0 /\ answer[j] = 0
      /\ wire' = [wire EXCEPT ![j] = 0]
      /\ UNCHANGED <<config, retries, client, pc, attempt, status, result,
                     ended>>
  BY Numbers DEF Inv, TypeOK, Attempted, Apply, Lose, clientVars
<1>2. \/ /\ applied' = [applied EXCEPT ![j] = 1]
         /\ \E s \in Statuses : answer' = [answer EXCEPT ![j] = s]
      \/ UNCHANGED <<applied, answer>>
  BY <1>1 DEF Inv, TypeOK, Apply, Lose
<1>3. TypeOK'
  BY <1>1, <1>2, Numbers DEF Inv, TypeOK
<1>4. \A k \in Attempts : Attempted(k)'
  BY <1>1, <1>2, Numbers DEF Inv, Attempted, TypeOK
<1>5. Standing'
  BY <1>1, <1>2, Numbers DEF Inv, TypeOK, Standing, Answered
<1>6. RepeatedForCause'
  <2> SUFFICES ASSUME NEW k \in Attempts, k < attempt
               PROVE  \/ ended[k] \in {"connect", "timeout"}
                      \/ ended[k] = "answer" /\ answer'[k] \in RetryStatuses
    BY <1>1 DEF RepeatedForCause
  <2>1. CASE k = j
    BY <1>1, <2>1, Numbers DEF Inv, RepeatedForCause
  <2>2. CASE k # j
    BY <1>2, <2>2 DEF Inv, TypeOK, RepeatedForCause
  <2> QED
    BY <2>1, <2>2
<1> QED
  BY <1>3, <1>4, <1>5, <1>6 DEF Inv

\* Every step keeps the invariant.
LEMMA NextInv == Inv /\ [Next]_vars => Inv'
<1> SUFFICES ASSUME Inv, [Next]_vars PROVE Inv'
  OBVIOUS
<1>1. CASE Reject \/ ClientFails \/ Begin
  BY <1>1, ParseStep
<1>2. CASE Send
  BY <1>2, SendStep
<1>3. CASE ConnectFails \/ TimesOut \/ OtherError
  BY <1>3, RetryStep
<1>4. CASE Respond
  BY <1>4, RespondStep
<1>5. CASE ReadFails \/ Read
  BY <1>5, ReadStep
<1>6. CASE \E k \in Attempts : Apply(k) \/ Lose(k)
  BY <1>6, ServerStep
<1>7. CASE UNCHANGED vars
  <2>1. UNCHANGED <<config, retries, client, pc, attempt, status, result,
                    wire, answer, applied, ended>>
    BY <1>7 DEF vars, clientVars, serverVars
  <2> QED
    BY <2>1 DEF Inv, TypeOK, Attempted, Standing, Answered, RepeatedForCause
<1> QED
  BY <1>1, <1>2, <1>3, <1>4, <1>5, <1>6, <1>7 DEF Next, ClientStep, Over

\* The inductive invariant of a request, whatever the server and the network
\* do with its attempts.
THEOREM Invariance == Spec => []Inv
BY InitInv, NextInv, PTL DEF Spec

\* Every variable keeps its type: the loop over the attempts is never left by
\* its end, for any number of retries.
THEOREM TypeCorrect == Spec => []TypeOK
<1>1. Inv => TypeOK
  BY DEF Inv
<1> QED
  BY <1>1, Invariance, PTL

\* A request is repeated only after an attempt without an answer, or whose
\* answer calls for it.
THEOREM CauseTheorem == Spec => []RepeatedForCause
<1>1. Inv => RepeatedForCause
  BY DEF Inv
<1> QED
  BY <1>1, Invariance, PTL

\* The server applies the request at most once per attempt, at most retries + 1
\* times in all.
THEOREM OnceTheorem == Spec => []AppliedOncePerAttempt
<1>1. ASSUME Inv PROVE AppliedOncePerAttempt
  <2> DEFINE Applied == {k \in Attempts : applied[k] = 1}
  <2>1. \A k \in Attempts : applied[k] <= 1
    BY <1>1, Numbers DEF Inv, TypeOK, Attempted
  <2>2. retries \in Nat /\ attempt \in 0..retries
    BY <1>1, Numbers DEF Inv, TypeOK
  <2>3. Applied \subseteq 0..retries
    BY <1>1, <2>2, Numbers DEF Inv, Attempted
  <2>4. IsFiniteSet(0..retries) /\ Cardinality(0..retries) = retries + 1
    BY <2>2, FS_Interval
  <2>5. Cardinality(Applied) <= retries + 1
    BY <2>3, <2>4, FS_Subset
  <2> QED
    BY <2>1, <2>5 DEF AppliedOncePerAttempt
<1> QED
  BY <1>1, Invariance, PTL

\* A response that is returned is the server's answer to the last attempt.
THEOREM FinalTheorem == Spec => []AnswerIsFinal
<1>1. ASSUME Inv PROVE AnswerIsFinal
  BY <1>1 DEF Inv, Standing, Answered, Attempted, AnswerIsFinal
<1> QED
  BY <1>1, Invariance, PTL

\* After the request has ended, only attempts that the client gave up on still
\* take effect.
THEOREM LateTheorem == Spec => LateEffectsOnlyAfterGivingUp
<1> DEFINE Late == \A k \in Attempts :
               (pc = "done" /\ applied'[k] # applied[k])
                   => ended[k] \in {"timeout", "other"}
<1>1. Inv /\ [Next]_vars => [Late]_vars
  <2> SUFFICES ASSUME Inv, Next, NEW k \in Attempts, pc = "done",
                      applied'[k] # applied[k]
               PROVE  ended[k] \in {"timeout", "other"}
    OBVIOUS
  <2>1. wire[k] = 1
    <3>1. ~ClientStep
      BY DEF ClientStep, Reject, ClientFails, Begin, Send, ConnectFails,
             TimesOut, OtherError, Respond, ReadFails, Read
    <3>2. ~Over
      BY DEF Over, vars, serverVars
    <3>3. PICK j \in Attempts : Apply(j) \/ Lose(j)
      BY <3>1, <3>2 DEF Next
    <3>4. j = k /\ wire[j] > 0
      BY <3>3 DEF Apply, Lose, Inv, TypeOK
    <3> QED
      BY <3>4 DEF Inv, TypeOK
  <2> QED
    BY <2>1 DEF Inv, Attempted
<1> QED
  BY <1>1, Invariance, PTL DEF Spec, LateEffectsOnlyAfterGivingUp
=============================================================================
