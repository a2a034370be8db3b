-------------------------- MODULE ProviderFailover --------------------------
(***************************************************************************)
(* A request to the model: the retry loop (openpawlet/providers/base.py,   *)
(* _run_with_retry) around the failover wrapper and the key rotation       *)
(* (openpawlet/providers/failover.py), as factory.py builds them, and the  *)
(* time limit of the runner (agent/runner.py).                             *)
(*                                                                         *)
(* One attempt of the loop is a round of the wrapper: the instances of the *)
(* chain are called one after the other until one returns an answer or an  *)
(* error that is no trigger.                                               *)
(***************************************************************************)
EXTENDS Integers, SequencesExt, FiniteSetsExt

CONSTANTS
  Instances,  \* provider instances
  Primary,    \* the one the wrapper was built for
  NoInstance, \* no instance
  Setups,     \* configurations of the workspace: see Setup
  Outcomes,   \* what a call may end with: see Outcome
  Texts,      \* error texts that differ, e.g. by a request id
  Retries,    \* number of _CHAT_RETRY_DELAYS
  SameLimit,  \* _PERSISTENT_IDENTICAL_ERROR_LIMIT
  MaxHops     \* _MAX_INSTANCE_HOPS

\* An answer, errors of a provider, and an exception of its code.
Outcome == {"ok", "timeout", "limit", "server", "quota", "bad", "raise"}
Trigger == {"timeout", "connection", "rate_limit", "server_5xx"}

\* failover_instance_ids, failover_on, the number of keys, and the instances
\* that are enabled and have what their backend needs.
Setup == [failover : [Instances -> Seq(Instances)],
          on : [Instances -> SUBSET Trigger],
          keys : [Instances -> Nat \ {0}],
          usable : SUBSET Instances]

\* The factory refuses a primary instance that cannot serve.
ASSUME ProviderAssumption ==
  /\ IsFiniteSet(Instances) /\ Primary \in Instances /\ NoInstance \notin Instances
  /\ \A s \in Setups : s \in Setup /\ Primary \in s.usable
  /\ Outcomes \subseteq Outcome /\ "ok" \in Outcomes
  /\ Texts # {}
  /\ Retries \in Nat /\ SameLimit \in Nat \ {0} /\ MaxHops \in Nat \ {0}

VARIABLES
  setup,      \* the configuration
  mode,       \* retry_mode: "standard" or "persistent"
  phase,      \* "idle", "call", "wait" (between two attempts) or "done"
  attempt,    \* number of attempts; it stops counting at Retries + 1
  chain,      \* the chain of this round
  pos,        \* the place in it of the instance that is called
  plain,      \* this round is the retry without images
  images,     \* the messages hold images
  lastError,  \* last_error_key
  same,       \* identical_error_count
  result,     \* what the request returned
  rotation,   \* [Instances -> _idx of the key rotation]
  asked,      \* history: the instances called in this round
  calls,      \* history: number of calls of this request, in standard mode
  failedKey   \* history: [Instances -> the key that failed last, or 0]

loop == <<attempt, plain, images, lastError, same>>
requestVars == <<setup, mode, phase, chain, pos, loop, result, rotation, asked, calls, failedKey>>

NoError == <<"none">>
Unanswered == {"none", "abandoned"}

RequestTypeOK ==
  /\ setup \in Setups
  /\ mode \in {"standard", "persistent"}
  /\ phase \in {"idle", "call", "wait", "done"}
  /\ attempt \in 0..Retries + 1 /\ chain \in Seq(Instances) /\ pos \in DOMAIN chain
  /\ same \in Nat
  /\ {plain, images} \subseteq BOOLEAN
  /\ lastError \in (Outcomes \X Texts) \cup {NoError}
  /\ result \in Outcomes \cup Unanswered
  /\ rotation \in [Instances -> Nat] /\ asked \subseteq Instances
  /\ calls \in Nat /\ failedKey \in [Instances -> Nat]

RequestInit ==
  /\ setup \in Setups /\ mode \in {"standard", "persistent"} /\ images \in BOOLEAN
  /\ phase = "idle" /\ attempt = 0 /\ chain = <<Primary>> /\ pos = 1 /\ plain = FALSE
  /\ lastError = NoError /\ same = 0 /\ result = "none"
  /\ rotation = [i \in Instances |-> 0]
  /\ asked = {} /\ calls = 0 /\ failedKey = [i \in Instances |-> 0]

(***************************************************************************)
(* Errors                                                                  *)
(***************************************************************************)

\* An exception is made a "connection" error; a spent quota is a 429 too.
TriggerOf(o) ==
  CASE o = "timeout" -> {"timeout"}
    [] o = "raise" -> {"connection"}
    [] o \in {"limit", "quota"} -> {"rate_limit"}
    [] o = "server" -> {"server_5xx"}
    [] OTHER -> {}

\* _matches_trigger
MatchesTrigger(i, o) == TriggerOf(o) \cap setup.on[i] # {}

\* _is_transient_response: all but a spent quota and what is malformed.
IsTransient(o) == o \in {"timeout", "limit", "server", "raise"}

(***************************************************************************)
(* The chain                                                               *)
(***************************************************************************)

FailoverOf(i) == IF setup.failover[i] = <<>> THEN NoInstance ELSE setup.failover[i][1]

\* A chain and the first failover instance of its last, unless that repeats.
Longer(ids) ==
  LET follower == FailoverOf(Last(ids)) IN
  IF follower \in Range(ids) \cup {NoInstance} THEN ids ELSE Append(ids, follower)

ChainOf[n \in 1..MaxHops] == IF n = 1 THEN <<Primary>> ELSE Longer(ChainOf[n - 1])

\* It starts with the primary one and has at most MaxHops instances.
FailoverChain == ChainOf[MaxHops]

\* Fault: an instance that is not usable ends the chain.
LaterUsableGap ==
  {p \in {pos + 1} \cap DOMAIN chain : chain[p] \in setup.usable}

\* The places in the chain still to be tried: _dispatch skips an instance
\* whose provider cannot be built.
LaterUsable ==
  {p \in DOMAIN chain : p > pos /\ chain[p] \in setup.usable}

Current == chain[pos]

\* KeyRotatingProvider sets the attribute api_key of the inner provider, which
\* gave its first key to its HTTP client when it was built.
ClientKey(i) == 1

\* The call of the current instance is over. An exception passes the rotation.
CallEnds(o) ==
  /\ rotation' =
       IF MatchesTrigger(Current, o) /\ o # "raise"
       THEN [rotation EXCEPT ![Current] = (@ + 1) % setup.keys[Current]]
       ELSE rotation
  /\ failedKey' = [failedKey EXCEPT ![Current] =
                     IF MatchesTrigger(Current, o) THEN ClientKey(Current) ELSE 0]
  /\ calls' = IF mode = "standard" THEN calls + 1 ELSE calls

\* The wrapper calls the next instance.
FailOver(o) ==
  /\ phase = "call"
  /\ MatchesTrigger(Current, o) /\ LaterUsable # {}
  /\ CallEnds(o)
  /\ pos' = Min(LaterUsable) /\ asked' = asked \cup {Current}
  /\ UNCHANGED <<setup, mode, phase, chain, loop, result>>

\* The wrapper returns.
Returns(o) ==
  /\ phase = "call"
  /\ ~(MatchesTrigger(Current, o) /\ LaterUsable # {})
  /\ CallEnds(o)

(***************************************************************************)
(* The retry loop                                                          *)
(***************************************************************************)

StartRound == phase' = "call" /\ chain' = FailoverChain /\ pos' = 1 /\ asked' = {}
Return(o) == phase' = "done" /\ result' = o /\ asked' = asked \cup {Current}
             /\ UNCHANGED <<chain, pos>>

Ask ==
  /\ phase = "idle" /\ StartRound
  /\ attempt' = 1
  /\ UNCHANGED <<setup, mode, plain, images, lastError, same, result, rotation,
                 calls, failedKey>>

\* An answer. When it came without the images, they are removed for good.
Succeed ==
  /\ Returns("ok") /\ Return("ok")
  /\ images' = (images /\ ~plain)
  /\ UNCHANGED <<setup, mode, attempt, plain, lastError, same>>

\* An error that waiting does not cure: once more without the images.
RetryWithoutImages(o) ==
  /\ o # "ok" /\ ~IsTransient(o) /\ Returns(o)
  /\ images /\ ~plain
  /\ StartRound /\ plain' = TRUE
  /\ UNCHANGED <<setup, mode, attempt, images, lastError, same, result>>

\* Without images, or without them already, it is returned.
Fail(o) ==
  /\ o # "ok" /\ Returns(o) /\ Return(o)
  /\ plain \/ (~IsTransient(o) /\ ~images)
  /\ UNCHANGED <<setup, mode, loop>>

\* Fault: the first of a row of errors is not kept.
SameCountForgets(e) == 1

SameCount(e) == IF e = lastError THEN same + 1 ELSE 1

\* Fault: one attempt more.
GivesUpLate(e) ==
  IF mode = "persistent" THEN SameCount(e) >= SameLimit ELSE attempt > Retries + 1

\* The last attempt, or the same error once too often.
GivesUp(e) ==
  IF mode = "persistent" THEN SameCount(e) >= SameLimit ELSE attempt > Retries

\* An error that may pass.
TransientError(o, t) ==
  /\ o # "ok" /\ IsTransient(o) /\ ~plain /\ Returns(o)
  /\ lastError' = <<o, t>> /\ same' = SameCount(<<o, t>>)
  /\ IF GivesUp(<<o, t>>)
     THEN Return(o)
     ELSE phase' = "wait" /\ UNCHANGED <<chain, pos, result, asked>>
  /\ UNCHANGED <<setup, mode, attempt, plain, images>>

\* The delay is over.
Retry ==
  /\ phase = "wait" /\ StartRound
  /\ attempt' = IF mode = "persistent" /\ attempt > Retries THEN attempt ELSE attempt + 1
  /\ UNCHANGED <<setup, mode, plain, images, lastError, same, result, rotation,
                 calls, failedKey>>

\* The runner's time limit: it cancels the loop wherever it is.
TimeLimit ==
  /\ phase \in {"call", "wait"}
  /\ phase' = "done" /\ result' = "abandoned"
  /\ UNCHANGED <<setup, mode, chain, pos, loop, rotation, asked, calls, failedKey>>

\* The next request of the same messages.
AskAgain ==
  /\ phase = "done" /\ phase' = "idle"
  /\ attempt' = 0 /\ pos' = 1 /\ plain' = FALSE /\ lastError' = NoError /\ same' = 0
  /\ result' = "none" /\ asked' = {} /\ calls' = 0 /\ chain' = <<Primary>>
  /\ UNCHANGED <<setup, mode, images, rotation, failedKey>>

RequestNext ==
  \/ Ask \/ Succeed \/ Retry \/ TimeLimit \/ AskAgain
  \/ \E o \in Outcomes : \/ FailOver(o) \/ RetryWithoutImages(o) \/ Fail(o)
                         \/ \E t \in Texts : TransientError(o, t)

RequestSpec == RequestInit /\ [][RequestNext]_requestVars

\* Every call returns or is cancelled, and every delay ends.
CallReturns == Succeed \/ \E o \in Outcomes : \/ FailOver(o) \/ RetryWithoutImages(o) \/ Fail(o)
                                              \/ \E t \in Texts : TransientError(o, t)
RequestFairSpec == RequestSpec /\ WF_requestVars(CallReturns) /\ WF_requestVars(Retry)

(***************************************************************************)
(* Properties                                                              *)
(***************************************************************************)

\* A standard request makes a bounded number of calls, although instances may
\* fail over to each other in a circle: every attempt and the retry without
\* images call each instance at most once.
CallsBounded ==
  mode = "standard" => calls <= (Retries + 2) * Cardinality(setup.usable)

\* An error that is a trigger is returned only when every instance of the chain
\* that can serve was called in that round, an instance behind one that cannot
\* serve included.
WholeChainAsked ==
  phase = "done" /\ result \notin Unanswered /\ MatchesTrigger(Current, result)
    => Range(chain) \cap setup.usable \subseteq asked

ErrorChanges == same' = 1 /\ lastError # NoError /\ lastError' # lastError

\* A request ends, in persistent mode too, unless its errors change for ever.
EndsUnlessErrorsChange ==
  []<>(phase \in {"done", "idle"}) \/ []<><<ErrorChanges>>_requestVars

\* "trigger errors rotate to the next one before the next attempt"
\* (failover.py): an instance with several keys is not called again with the
\* key that has just failed.
KeyRotates ==
  [][phase' = "call" /\ (phase # "call" \/ pos' # pos)
       => \/ setup.keys[Current'] = 1
          \/ ClientKey(Current') # failedKey[Current']]_requestVars

\* "Ordered chain of other instance ids to try when this one keeps failing"
\* (instances.py): all of them are tried before the request fails.
AlternativesTried ==
  phase = "done" /\ result \notin Unanswered /\ MatchesTrigger(Current, result)
    => Range(setup.failover[Primary]) \cap setup.usable \subseteq asked

=============================================================================
