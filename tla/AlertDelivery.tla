--------------------------- MODULE AlertDelivery ---------------------------
(***************************************************************************)
(* What dispatch (src/guardian/alerter/router.py) does with its batch: the *)
(* AI enrichment of src/guardian/alerter/ai.py, a pool of calls behind a   *)
(* cache, and then one alert after the other through a pool with a thread  *)
(* per channel, with each channel's own idea of a retry.                   *)
(*                                                                         *)
(* The pools' with-blocks wait for every thread: no alert is sent before   *)
(* the last call is answered, and none before every channel is done with   *)
(* the alert before it.                                                    *)
(***************************************************************************)
EXTENDS AlertSeverity, Sequences, FiniteSets

CONSTANTS
    Channels,       \* the alerters of the router: the enabled channels
    Kind,           \* how each sends: "webhook" (also Slack), "telegram", "email"
    MinSeverity,    \* its min_severity
    Batches,        \* the batches dispatch may have to send, sequences of alerts
    AIEnabled,      \* ai.enabled, with a key
    AIMinSeverity,  \* ai.min_severity
    Ttl,            \* ai.cache_ttl_seconds, in units of time
    CacheLimit,     \* the entries the cache holds before it is pruned (500)
    Workers,        \* threads of the enrichment's pool (4)
    Attempts        \* max_attempts of @retry, and of Telegram's loop (3)

(* What may come of a post.  "refused" is an error status and "limited"    *)
(* status 429; "lost" and "late" raise, and "late" was received before.    *)
Outcomes == {"accepted", "refused", "limited", "lost", "late"}

Alerts == UNION {{b[i] : i \in DOMAIN b} : b \in Batches}
Fingerprints == {a.fp : a \in Alerts}

ASSUME ChannelsAssumption ==
    /\ Kind \in [Channels -> {"webhook", "telegram", "email"}]
    /\ MinSeverity \in [Channels -> Severity]
ASSUME BatchesAssumption ==
    /\ Batches \subseteq Seq(Alerts) \ {<<>>}
    /\ \A a \in Alerts : a.severity \in Severity /\ a.recovery \in BOOLEAN
ASSUME LimitsAssumption ==
    /\ AIEnabled \in BOOLEAN /\ AIMinSeverity \in Severity
    /\ Ttl \in Nat /\ CacheLimit \in Nat
    /\ Workers \in Nat \ {0} /\ Attempts \in Nat \ {0}

VARIABLES
    phase,      \* "idle", "enrich" or "send"
    batch,      \* the batch of the current or last dispatch
    advice,     \* enrich of each of its alerts: "none", "asking", "failed", "given"
    cache,      \* _cache: the ages of its entries, up to Ttl + 1
    position,   \* the alert that is being sent
    status,     \* of its thread on each channel
    attempt,    \* the posts the thread has made
    received,   \* the alerts each receiver got in this dispatch, by position
    outcome,    \* what has come of its last post of the current alert
    faulty,     \* the channels whose receiver failed them in this dispatch
    answered    \* age of the last answer for each fingerprint, up to Ttl

enrichVars == <<advice, cache, answered>>
sendVars == <<position, status, attempt, received, outcome, faulty>>
vars == <<phase, batch, enrichVars, sendVars>>

DeliveryTypeOK ==
    /\ phase \in {"idle", "enrich", "send"}
    /\ batch \in Batches \cup {<<>>}
    /\ advice \in [DOMAIN batch -> {"none", "asking", "failed", "given"}]
    /\ DOMAIN cache \subseteq Fingerprints /\ \A f \in DOMAIN cache : cache[f] \in 0..(Ttl + 1)
    /\ position \in 1..(Len(batch) + 1)
    /\ status \in [Channels -> {"ready", "waiting", "sent", "failed"}]
    /\ attempt \in [Channels -> 0..Attempts]
    /\ \A c \in Channels : Len(received[c]) <= Attempts * Len(batch)
    /\ outcome \in [Channels -> Outcomes \cup {"none"}] /\ faulty \subseteq Channels
    /\ answered \in [Fingerprints -> 0..Ttl]

Init ==
    /\ phase = "idle"
    /\ batch = <<>> /\ advice = <<>> /\ cache = <<>>
    /\ position = 1
    /\ status = [c \in Channels |-> "ready"]
    /\ attempt = [c \in Channels |-> 0]
    /\ received = [c \in Channels |-> <<>>]
    /\ outcome = [c \in Channels |-> "none"] /\ faulty = {}
    /\ answered = [f \in Fingerprints |-> Ttl]

MeetsAbove(c, alert) ==     \* mutant: min_severity itself is left out
    alert.severity > MinSeverity[c]

Meets(c, alert) == alert.severity >= MinSeverity[c]

-----------------------------------------------------------------------------
(* Enrichment *)

Eligible(alert) == ~alert.recovery /\ alert.severity >= AIMinSeverity

Start ==
    /\ phase = "idle"
    /\ batch' \in Batches
    /\ phase' = IF AIEnabled THEN "enrich" ELSE "send"
    /\ advice' = [i \in DOMAIN batch' |-> IF Eligible(batch'[i]) THEN "none" ELSE "failed"]
    /\ position' = 1
    /\ status' = [c \in Channels |-> "ready"]
    /\ attempt' = [c \in Channels |-> 0]
    /\ received' = [c \in Channels |-> <<>>]
    /\ outcome' = [c \in Channels |-> "none"] /\ faulty' = {}
    /\ UNCHANGED <<cache, answered>>

Fresh(fp) == fp \in DOMAIN cache /\ cache[fp] < Ttl

Asking == {i \in DOMAIN advice : advice[i] = "asking"}

Lookup(i) ==
    /\ phase = "enrich" /\ advice[i] = "none" /\ Cardinality(Asking) < Workers
    /\ advice' = [advice EXCEPT ![i] = IF Fresh(batch[i].fp) THEN "given" ELSE "asking"]
    /\ UNCHANGED <<phase, batch, cache, answered, sendVars>>

With(fp) == [f \in DOMAIN cache \cup {fp} |-> IF f = fp THEN 0 ELSE cache[f]]

PutEvicts(fp) ==        \* mutant: a full cache is emptied
    IF Cardinality(DOMAIN With(fp)) > CacheLimit THEN [f \in {fp} |-> 0] ELSE With(fp)

Put(fp) ==
    LET kept == {f \in DOMAIN With(fp) : With(fp)[f] <= Ttl}
    IN  IF Cardinality(DOMAIN With(fp)) > CacheLimit
        THEN [f \in kept |-> With(fp)[f]] ELSE With(fp)

Answer(i) ==
    /\ phase = "enrich" /\ advice[i] = "asking"
    /\ \/ /\ advice' = [advice EXCEPT ![i] = "given"]
          /\ cache' = Put(batch[i].fp)
          /\ answered' = [answered EXCEPT ![batch[i].fp] = 0]
       \/ /\ advice' = [advice EXCEPT ![i] = "failed"]
          /\ UNCHANGED <<cache, answered>>
    /\ UNCHANGED <<phase, batch, sendVars>>

Enriched ==
    /\ phase = "enrich"
    /\ \A i \in DOMAIN batch : advice[i] \in {"given", "failed"}
    /\ phase' = "send"
    /\ UNCHANGED <<batch, enrichVars, sendVars>>

(* Time passes.  What passes while alerts are sent counts after them: no   *)
(* step of theirs looks at the cache.                                      *)
Tick ==
    /\ phase \in {"idle", "enrich"}
    /\ \/ \E f \in DOMAIN cache : cache[f] <= Ttl
       \/ \E f \in Fingerprints : answered[f] < Ttl
    /\ cache' = [f \in DOMAIN cache |-> IF cache[f] <= Ttl THEN cache[f] + 1 ELSE cache[f]]
    /\ answered' = [f \in Fingerprints |-> IF answered[f] < Ttl THEN answered[f] + 1 ELSE Ttl]
    /\ UNCHANGED <<phase, batch, advice, sendVars>>

(* A reload builds a new router with a new enricher.  A dispatch it        *)
(* interrupts goes on with the old ones, so it is as good as after it.     *)
Reload ==
    /\ phase = "idle" /\ DOMAIN cache # {}
    /\ cache' = <<>>
    /\ answered' = [f \in Fingerprints |-> Ttl]
    /\ UNCHANGED <<phase, batch, advice, sendVars>>

-----------------------------------------------------------------------------
(* Sending: each channel's thread posts the alert until it gives up or is  *)
(* told that it was accepted                                               *)

Raises(o) == o \in {"lost", "late"}

(* @retry tries again when the post raised, Telegram when it was told to.  *)
RetriesAll(c, o) ==         \* mutant: Telegram's loop goes on after an exception
    Kind[c] # "email" /\ (Raises(o) \/ o = "limited")

RetriesTelegram(c, o) ==    \* mutant: a post that raised is not tried again
    Kind[c] = "telegram" /\ o = "limited"

Retries(c, o) ==
    \/ Kind[c] = "webhook" /\ Raises(o)
    \/ Kind[c] = "telegram" /\ o = "limited"

AfterPostEndless(c, o) ==   \* mutant: Telegram's loop does not count
    CASE o = "accepted" -> "sent"
      [] Retries(c, o) /\ Kind[c] = "telegram" -> "waiting"
      [] Retries(c, o) /\ attempt[c] + 1 < Attempts -> "waiting"
      [] OTHER -> "failed"

AfterPostOneMore(c, o) ==   \* mutant: the attempt being made is not counted
    CASE o = "accepted" -> "sent"
      [] Retries(c, o) /\ attempt[c] < Attempts -> "waiting"
      [] OTHER -> "failed"

AfterPost(c, o) ==
    CASE o = "accepted" -> "sent"
      [] Retries(c, o) /\ attempt[c] + 1 < Attempts -> "waiting"
      [] OTHER -> "failed"

Skip(c) ==
    /\ phase = "send" /\ status[c] = "ready" /\ ~Meets(c, batch[position])
    /\ status' = [status EXCEPT ![c] = "failed"]
    /\ UNCHANGED <<phase, batch, enrichVars, position, attempt, received, outcome, faulty>>

Post(c) ==
    /\ phase = "send" /\ status[c] = "ready" /\ Meets(c, batch[position])
    /\ \E o \in Outcomes :
        /\ status' = [status EXCEPT ![c] = AfterPost(c, o)]
        /\ received' = IF o \in {"accepted", "late"}
                       THEN [received EXCEPT ![c] = Append(@, position)] ELSE received
        /\ outcome' = [outcome EXCEPT ![c] = o]
        /\ faulty' = IF o = "accepted" THEN faulty ELSE faulty \cup {c}
    /\ attempt' = [attempt EXCEPT ![c] = IF @ <= Attempts THEN @ + 1 ELSE @]
    /\ UNCHANGED <<phase, batch, enrichVars, position>>

(* The sleep before the next attempt.                                      *)
Wake(c) ==
    /\ phase = "send" /\ status[c] = "waiting"
    /\ status' = [status EXCEPT ![c] = "ready"]
    /\ UNCHANGED <<phase, batch, enrichVars, position, attempt, received, outcome, faulty>>

AllDone == \A c \in Channels : status[c] \in {"sent", "failed"}

(* The pool of an alert ends with its last thread; dispatch reports the    *)
(* batch as sent, whatever came of it.                                     *)
NextAlert ==
    /\ phase = "send" /\ AllDone
    /\ position' = position + 1
    /\ phase' = IF position < Len(batch) THEN "send" ELSE "idle"
    /\ status' = [c \in Channels |-> IF phase' = "send" THEN "ready" ELSE status[c]]
    /\ attempt' = [c \in Channels |-> IF phase' = "send" THEN 0 ELSE attempt[c]]
    /\ outcome' = [c \in Channels |-> IF phase' = "send" THEN "none" ELSE outcome[c]]
    /\ UNCHANGED <<batch, enrichVars, received, faulty>>

EnrichStep == Enriched \/ \E i \in DOMAIN batch : Lookup(i) \/ Answer(i)
SlackOrWebhookSend(c) == Kind[c] = "webhook" /\ (Skip(c) \/ Post(c) \/ Wake(c))
TelegramSend(c) == Kind[c] = "telegram" /\ (Skip(c) \/ Post(c) \/ Wake(c))
EmailSend(c) == Kind[c] = "email" /\ (Skip(c) \/ Post(c))

SendStep ==
    NextAlert \/ \E c \in Channels : SlackOrWebhookSend(c) \/ TelegramSend(c) \/ EmailSend(c)

Next == Start \/ EnrichStep \/ SendStep \/ Tick \/ Reload

(* Every call and every post has a timeout, and every sleep ends. *)
DeliverySpec == Init /\ [][Next]_vars /\ WF_vars(EnrichStep) /\ WF_vars(SendStep)

-----------------------------------------------------------------------------
(* The first n alerts of a batch, without those below c's severity.       *)
DueUpTo(b, c, n) ==
    LET due[i \in 0..Len(b)] ==
            IF i = 0 THEN <<>>
            ELSE IF b[i].severity >= MinSeverity[c] THEN Append(due[i - 1], i) ELSE due[i - 1]
    IN  due[n]

(* What c should have by now.                                              *)
Due(c) ==
    IF phase = "send" /\ status[c] = "sent"
    THEN DueUpTo(batch, c, position) ELSE DueUpTo(batch, c, position - 1)

(***************************************************************************)
(* A channel whose receiver accepts every post gets each alert at or above *)
(* its min_severity exactly once and in the batch's order, however the     *)
(* other channels fail and the AI answers (_send_single, _safe_send).      *)
(***************************************************************************)
HealthyChannelInformed == \A c \in Channels \ faulty : received[c] = Due(c)

(***************************************************************************)
(* On no channel does an alert overtake the one before it, and only the    *)
(* channels that retry after an exception deliver one twice.               *)
(***************************************************************************)
NothingOvertakes ==
    \A c \in Channels : \A i, j \in DOMAIN received[c] :
        i < j => \/ received[c][i] < received[c][j]
                 \/ received[c][i] = received[c][j] /\ Kind[c] = "webhook"

(***************************************************************************)
(* A fault that the channel retries costs it the alert only when it lasts  *)
(* for all of the attempts: exceptions of Slack and webhook (@retry), rate *)
(* limits of Telegram.                                                     *)
(***************************************************************************)
Retried(c) == IF Kind[c] = "webhook" THEN {"lost", "late"}
              ELSE IF Kind[c] = "telegram" THEN {"limited"} ELSE {}

TransientFaultsRiddenOut ==
    \A c \in Channels :
        phase = "send" /\ status[c] = "failed" /\ Meets(c, batch[position])
            => outcome[c] \notin Retried(c) \/ attempt[c] = Attempts

(***************************************************************************)
(* The API is not asked about a fingerprint it has answered within the     *)
(* TTL, not even when the cache is at its limit (enrich, _cache_put).      *)
(***************************************************************************)
OneCallPerTtl ==
    [][phase = "enrich" =>
         \A i \in DOMAIN batch :
             advice[i] = "none" /\ advice'[i] = "asking" => answered[batch[i].fp] = Ttl]_vars

(* Every dispatch comes to its end, whatever receivers and API answer.     *)
DispatchEnds == phase # "idle" ~> phase = "idle"

(***************************************************************************)
(* When every receiver accepts what it is sent, a recovery reaches one of  *)
(* them: README.md:77 says "GuardianD routes the alert to your channels    *)
(* [...] with [...] recovery ("Recovered") notes".                         *)
(***************************************************************************)
RecoveriesHeard ==
    phase = "idle" /\ faulty = {} =>
        \A i \in DOMAIN batch : batch[i].recovery =>
            \E c \in Channels : \E j \in DOMAIN received[c] : received[c][j] = i
=============================================================================
