------------------------ MODULE AlertDeliveryProofs ------------------------
(***************************************************************************)
(* Proofs about enrichment and delivery for any channels, thresholds,      *)
(* batches, sizes of the cache and numbers of attempts.                    *)
(***************************************************************************)
EXTENDS AlertDelivery, SequenceTheorems, RecursionTheorems

(***************************************************************************)
(* The cache: an answer younger than the TTL is in it, and as young there. *)
(***************************************************************************)
CacheInvariant ==
    /\ batch \in Batches \cup {<<>>}
    /\ advice \in [DOMAIN batch -> {"none", "asking", "failed", "given"}]
    /\ answered \in [Fingerprints -> 0..Ttl]
    /\ \A f \in DOMAIN cache : cache[f] \in Nat
    /\ \A f \in Fingerprints : answered[f] < Ttl => f \in DOMAIN cache /\ cache[f] <= answered[f]

LEMMA FingerprintOfBatch ==
    ASSUME CacheInvariant, NEW i \in DOMAIN batch
    PROVE  batch[i].fp \in Fingerprints
BY DEF CacheInvariant, Fingerprints, Alerts

LEMMA CacheInitially == Init => CacheInvariant
<1> SUFFICES ASSUME Init PROVE CacheInvariant
    OBVIOUS
<1>1. batch = <<>> /\ advice = <<>> /\ cache = <<>> /\ answered = [f \in Fingerprints |-> Ttl]
    BY DEF Init
<1>2. Ttl \in 0..Ttl /\ ~(Ttl < Ttl)
    BY LimitsAssumption
<1> QED BY <1>1, <1>2 DEF CacheInvariant

(* What Put removes is older than the TTL. *)
LEMMA PutKeepsFresh ==
    ASSUME CacheInvariant, NEW fp \in Fingerprints, cache' = Put(fp),
           answered' = [answered EXCEPT ![fp] = 0]
    PROVE  /\ \A f \in DOMAIN cache' : cache'[f] \in Nat
           /\ \A f \in Fingerprints :
                answered'[f] < Ttl => f \in DOMAIN cache' /\ cache'[f] <= answered'[f]
<1>1. /\ DOMAIN With(fp) = DOMAIN cache \cup {fp}
      /\ With(fp)[fp] = 0
      /\ \A f \in DOMAIN cache : f # fp => With(fp)[f] = cache[f]
    BY DEF With
<1>2. \A f \in DOMAIN cache' : f \in DOMAIN With(fp) /\ cache'[f] = With(fp)[f]
    BY DEF Put
<1>3. \A f \in DOMAIN With(fp) : With(fp)[f] <= Ttl => f \in DOMAIN cache'
    BY DEF Put
<1>4. \A f \in DOMAIN With(fp) : With(fp)[f] \in Nat
    BY <1>1 DEF CacheInvariant
<1>5. ASSUME NEW f \in Fingerprints, answered'[f] < Ttl
      PROVE  f \in DOMAIN With(fp) /\ With(fp)[f] <= answered'[f] /\ With(fp)[f] <= Ttl
    <2>1. CASE f = fp
        BY <1>1, <2>1, LimitsAssumption DEF CacheInvariant
    <2>2. CASE f # fp
        <3>1. answered'[f] = answered[f] /\ answered[f] \in 0..Ttl
            BY <2>2 DEF CacheInvariant
        <3>2. f \in DOMAIN cache /\ cache[f] <= answered[f] /\ cache[f] \in Nat
            BY <1>5, <3>1 DEF CacheInvariant
        <3> QED BY <1>1, <2>2, <3>1, <3>2, LimitsAssumption
    <2> QED BY <2>1, <2>2
<1> QED BY <1>2, <1>3, <1>4, <1>5

LEMMA CachePreserved == CacheInvariant /\ [Next]_vars => CacheInvariant'
<1> SUFFICES ASSUME CacheInvariant, [Next]_vars PROVE CacheInvariant'
    OBVIOUS
<1>1. CASE Start
    BY <1>1 DEF Start, CacheInvariant
<1>2. CASE Enriched
    BY <1>2 DEF Enriched, enrichVars, CacheInvariant
<1>3. ASSUME NEW i \in DOMAIN batch, Lookup(i) PROVE CacheInvariant'
    BY <1>3 DEF Lookup, CacheInvariant
<1>4. ASSUME NEW i \in DOMAIN batch, Answer(i) PROVE CacheInvariant'
    <2>1. batch' = batch /\ advice' \in [DOMAIN batch -> {"none", "asking", "failed", "given"}]
        BY <1>4 DEF Answer, CacheInvariant
    <2>2. CASE cache' = Put(batch[i].fp) /\ answered' = [answered EXCEPT ![batch[i].fp] = 0]
        <3>1. answered' \in [Fingerprints -> 0..Ttl]
            BY <2>2, LimitsAssumption, FingerprintOfBatch DEF CacheInvariant
        <3> QED BY <2>1, <2>2, <3>1, PutKeepsFresh, FingerprintOfBatch DEF CacheInvariant
    <2>3. CASE UNCHANGED <<cache, answered>>
        BY <2>1, <2>3 DEF CacheInvariant
    <2> QED BY <1>4, <2>2, <2>3 DEF Answer
<1>5. CASE Tick
    <2>1. /\ batch' = batch /\ advice' = advice
          /\ DOMAIN cache' = DOMAIN cache
          /\ \A f \in DOMAIN cache : cache'[f] = IF cache[f] <= Ttl THEN cache[f] + 1 ELSE cache[f]
          /\ answered' = [f \in Fingerprints |-> IF answered[f] < Ttl THEN answered[f] + 1 ELSE Ttl]
        BY <1>5 DEF Tick
    <2>2. answered' \in [Fingerprints -> 0..Ttl]
        BY <2>1, LimitsAssumption DEF CacheInvariant
    <2>3. \A f \in Fingerprints : answered'[f] < Ttl =>
            answered[f] < Ttl /\ answered'[f] = answered[f] + 1 /\ answered[f] \in 0..Ttl
        BY <2>1, LimitsAssumption DEF CacheInvariant
    <2>4. \A f \in Fingerprints :
            answered'[f] < Ttl => f \in DOMAIN cache' /\ cache'[f] <= answered'[f]
        BY <2>1, <2>3, LimitsAssumption DEF CacheInvariant
    <2>5. \A f \in DOMAIN cache' : cache'[f] \in Nat
        BY <2>1 DEF CacheInvariant
    <2> QED BY <2>1, <2>2, <2>4, <2>5 DEF CacheInvariant
<1>6. CASE Reload
    <2>1. /\ batch' = batch /\ advice' = advice /\ cache' = <<>>
          /\ answered' = [f \in Fingerprints |-> Ttl]
        BY <1>6 DEF Reload
    <2>2. Ttl \in 0..Ttl /\ ~(Ttl < Ttl)
        BY LimitsAssumption
    <2> QED BY <2>1, <2>2 DEF CacheInvariant
<1>7. CASE SendStep
    BY <1>7 DEF SendStep, NextAlert, SlackOrWebhookSend, TelegramSend, EmailSend, Skip, Post, Wake,
                enrichVars, CacheInvariant
<1>8. CASE UNCHANGED vars
    BY <1>8 DEF vars, enrichVars, CacheInvariant
<1> QED BY <1>1, <1>2, <1>3, <1>4, <1>5, <1>6, <1>7, <1>8 DEF Next, EnrichStep

(***************************************************************************)
(* Whatever the cache's limit: the API is not asked about what it answered *)
(* within the TTL.                                                         *)
(***************************************************************************)
THEOREM OneCall == DeliverySpec => OneCallPerTtl
<1>1. CacheInvariant /\ [Next]_vars =>
        [phase = "enrich" =>
            \A i \in DOMAIN batch :
                advice[i] = "none" /\ advice'[i] = "asking" => answered[batch[i].fp] = Ttl]_vars
    <2> SUFFICES ASSUME CacheInvariant, Next, phase = "enrich", NEW i \in DOMAIN batch,
                        advice[i] = "none", advice'[i] = "asking"
                 PROVE  answered[batch[i].fp] = Ttl
        OBVIOUS
    <2>1. ~Start /\ ~Reload /\ ~SendStep
        BY DEF Start, Reload, SendStep, NextAlert, SlackOrWebhookSend, TelegramSend, EmailSend,
               Skip, Post, Wake
    <2>2. ~(advice' = advice)
        OBVIOUS
    <2>3. PICK j \in DOMAIN batch : Lookup(j) \/ Answer(j)
        BY <2>1, <2>2 DEF Next, EnrichStep, Enriched, Tick, enrichVars
    <2>4. Lookup(j) /\ j = i
        BY <2>3 DEF Lookup, Answer, CacheInvariant
    <2>5. ~Fresh(batch[i].fp)
        BY <2>4 DEF Lookup, CacheInvariant
    <2>6. answered[batch[i].fp] \in 0..Ttl
        BY FingerprintOfBatch DEF CacheInvariant
    <2>7. ~(answered[batch[i].fp] < Ttl)
        <3> SUFFICES ASSUME answered[batch[i].fp] < Ttl PROVE FALSE
            OBVIOUS
        <3>1. /\ batch[i].fp \in DOMAIN cache /\ cache[batch[i].fp] \in Nat
              /\ cache[batch[i].fp] <= answered[batch[i].fp]
            BY FingerprintOfBatch DEF CacheInvariant
        <3> QED BY <2>5, <2>6, <3>1, LimitsAssumption DEF Fresh
    <2> QED BY <2>6, <2>7, LimitsAssumption
<1> QED BY <1>1, CacheInitially, CachePreserved, PTL DEF DeliverySpec, OneCallPerTtl

-----------------------------------------------------------------------------
(* Sending *)

Statuses == {"ready", "waiting", "sent", "failed"}

(* A thread that is not done has attempts left; one that gave up had none, *)
(* or nothing its channel retries was the matter.                          *)
AttemptsInvariant ==
    /\ status \in [Channels -> Statuses]
    /\ attempt \in [Channels -> Nat]
    /\ outcome \in [Channels -> Outcomes \cup {"none"}]
    /\ phase = "enrich" => \A c \in Channels : status[c] = "ready"
    /\ \A c \in Channels : status[c] \in {"ready", "waiting"} => attempt[c] < Attempts
    /\ TransientFaultsRiddenOut

LEMMA AttemptsInitially == Init => AttemptsInvariant
<1> SUFFICES ASSUME Init PROVE AttemptsInvariant
    OBVIOUS
<1>1. /\ status = [c \in Channels |-> "ready"] /\ attempt = [c \in Channels |-> 0]
      /\ outcome = [c \in Channels |-> "none"] /\ phase = "idle"
    BY DEF Init
<1>2. 0 \in Nat /\ 0 < Attempts
    BY LimitsAssumption
<1> QED BY <1>1, <1>2 DEF AttemptsInvariant, Statuses, TransientFaultsRiddenOut

(* Every step of a channel's thread, by what it does to the thread.        *)
LEMMA SendSteps ==
    ASSUME SendStep
    PROVE  NextAlert \/ \E c \in Channels : Skip(c) \/ Post(c) \/ Wake(c)
BY DEF SendStep, SlackOrWebhookSend, TelegramSend, EmailSend

LEMMA PostKeepsAttempts ==
    ASSUME AttemptsInvariant, NEW c \in Channels, Post(c)
    PROVE  AttemptsInvariant'
<1>1. PICK o \in Outcomes : status' = [status EXCEPT ![c] = AfterPost(c, o)] /\ outcome' = [outcome EXCEPT ![c] = o]
    BY DEF Post
<1>2. phase' = phase /\ phase = "send" /\ position' = position /\ batch' = batch
    BY DEF Post
<1>3. attempt[c] \in Nat /\ attempt[c] < Attempts /\ Attempts \in Nat
    BY LimitsAssumption DEF Post, AttemptsInvariant
<1>4. attempt' = [attempt EXCEPT ![c] = attempt[c] + 1]
    <2>1. attempt' = [attempt EXCEPT ![c] = IF attempt[c] <= Attempts THEN attempt[c] + 1 ELSE attempt[c]]
        BY DEF Post
    <2>2. attempt[c] <= Attempts
        BY <1>3
    <2> QED BY <2>1, <2>2
<1>5. AfterPost(c, o) \in {"sent", "waiting", "failed"}
    BY DEF AfterPost
<1>6. AfterPost(c, o) = "waiting" => attempt[c] + 1 < Attempts
    BY DEF AfterPost
<1>7. AfterPost(c, o) = "failed" => o \notin Retried(c) \/ attempt[c] + 1 = Attempts
    <2> SUFFICES ASSUME AfterPost(c, o) = "failed", o \in Retried(c) PROVE attempt[c] + 1 = Attempts
        OBVIOUS
    <2>1. Retries(c, o) /\ o # "accepted"
        BY DEF Retried, Retries, Raises
    <2>2. ~(attempt[c] + 1 < Attempts)
        BY <2>1 DEF AfterPost
    <2> QED BY <2>2, <1>3
<1>8. \A d \in Channels : d # c => status'[d] = status[d] /\ attempt'[d] = attempt[d] /\ outcome'[d] = outcome[d]
    BY <1>1, <1>4 DEF AttemptsInvariant
<1>9. status'[c] = AfterPost(c, o) /\ attempt'[c] = attempt[c] + 1 /\ outcome'[c] = o
    BY <1>1, <1>4 DEF AttemptsInvariant
<1>10. /\ status' \in [Channels -> Statuses] /\ attempt' \in [Channels -> Nat]
       /\ outcome' \in [Channels -> Outcomes \cup {"none"}]
    BY <1>1, <1>3, <1>4, <1>5 DEF AttemptsInvariant, Statuses
<1>11. \A d \in Channels : status'[d] \in {"ready", "waiting"} => attempt'[d] < Attempts
    BY <1>5, <1>6, <1>8, <1>9 DEF AttemptsInvariant
<1>12. TransientFaultsRiddenOut'
    <2> SUFFICES ASSUME NEW d \in Channels, status'[d] = "failed", Meets(d, batch[position])
                 PROVE  outcome'[d] \notin Retried(d) \/ attempt'[d] = Attempts
        BY <1>2 DEF TransientFaultsRiddenOut, Meets, Retried
    <2>1. CASE d = c
        BY <1>7, <1>9, <2>1
    <2>2. CASE d # c
        BY <1>2, <1>8, <2>2 DEF AttemptsInvariant, TransientFaultsRiddenOut
    <2> QED BY <2>1, <2>2
<1> QED BY <1>2, <1>10, <1>11, <1>12 DEF AttemptsInvariant

LEMMA AttemptsPreserved == AttemptsInvariant /\ [Next]_vars => AttemptsInvariant'
<1> SUFFICES ASSUME AttemptsInvariant, [Next]_vars PROVE AttemptsInvariant'
    OBVIOUS
<1>1. CASE Start
    <2>1. /\ status' = [c \in Channels |-> "ready"] /\ attempt' = [c \in Channels |-> 0]
          /\ outcome' = [c \in Channels |-> "none"]
        BY <1>1 DEF Start
    <2>2. 0 \in Nat /\ 0 < Attempts
        BY LimitsAssumption
    <2> QED BY <2>1, <2>2 DEF AttemptsInvariant, Statuses, TransientFaultsRiddenOut
<1>2. CASE Enriched
    <2>1. UNCHANGED <<status, attempt, outcome>> /\ phase = "enrich" /\ phase' = "send"
        BY <1>2 DEF Enriched, sendVars
    <2> QED BY <2>1 DEF AttemptsInvariant, TransientFaultsRiddenOut
<1>3. ASSUME Tick \/ Reload \/ \E i \in DOMAIN batch : Lookup(i) \/ Answer(i)
      PROVE  AttemptsInvariant'
    <2>1. UNCHANGED <<phase, batch, sendVars>>
        BY <1>3 DEF Lookup, Answer, Tick, Reload
    <2> QED BY <2>1 DEF sendVars, AttemptsInvariant, TransientFaultsRiddenOut, Meets
<1>4. ASSUME NEW c \in Channels, Skip(c) PROVE AttemptsInvariant'
    <2>1. /\ UNCHANGED <<phase, batch, position, attempt, outcome>>
          /\ status' = [status EXCEPT ![c] = "failed"] /\ phase = "send" /\ ~Meets(c, batch[position])
        BY <1>4 DEF Skip
    <2> QED BY <2>1 DEF AttemptsInvariant, Statuses, TransientFaultsRiddenOut, Meets
<1>5. ASSUME NEW c \in Channels, Wake(c) PROVE AttemptsInvariant'
    <2>1. /\ UNCHANGED <<phase, batch, position, attempt, outcome>>
          /\ status' = [status EXCEPT ![c] = "ready"] /\ phase = "send" /\ status[c] = "waiting"
        BY <1>5 DEF Wake
    <2> QED BY <2>1 DEF AttemptsInvariant, Statuses, TransientFaultsRiddenOut, Meets
<1>6. CASE NextAlert
    <2>1. 0 \in Nat /\ 0 < Attempts
        BY LimitsAssumption
    <2>2. CASE phase' = "send"
        <3>1. /\ status' = [c \in Channels |-> "ready"] /\ attempt' = [c \in Channels |-> 0]
              /\ outcome' = [c \in Channels |-> "none"]
            BY <1>6, <2>2 DEF NextAlert
        <3> QED BY <2>1, <2>2, <3>1 DEF AttemptsInvariant, Statuses, TransientFaultsRiddenOut
    <2>3. CASE phase' = "idle"
        <3>1. /\ status' = [c \in Channels |-> status[c]] /\ attempt' = [c \in Channels |-> attempt[c]]
              /\ outcome' = [c \in Channels |-> outcome[c]]
            BY <1>6, <2>3 DEF NextAlert
        <3> QED BY <2>3, <3>1 DEF AttemptsInvariant, TransientFaultsRiddenOut
    <2> QED BY <1>6, <2>2, <2>3 DEF NextAlert
<1>7. CASE UNCHANGED vars
    BY <1>7 DEF vars, sendVars, AttemptsInvariant, TransientFaultsRiddenOut, Meets
<1> QED BY <1>1, <1>2, <1>3, <1>4, <1>5, <1>6, <1>7, SendSteps, PostKeepsAttempts DEF Next, EnrichStep

(***************************************************************************)
(* For any number of attempts: a channel gives an alert up for a fault it  *)
(* retries only after the last of them.                                    *)
(***************************************************************************)
THEOREM FaultsRiddenOut == DeliverySpec => []TransientFaultsRiddenOut
<1>1. AttemptsInvariant => TransientFaultsRiddenOut
    BY DEF AttemptsInvariant
<1> QED BY <1>1, AttemptsInitially, AttemptsPreserved, PTL DEF DeliverySpec

(* What was received is not later than the alert that is being sent; a     *)
(* channel that is still busy with that one has not delivered it, unless   *)
(* it retries after an exception.                                          *)
OrderInvariant ==
    /\ position \in Nat /\ status \in [Channels -> Statuses]
    /\ received \in [Channels -> Seq(Nat)]
    /\ \A c \in Channels : \A i \in DOMAIN received[c] :
            /\ received[c][i] <= position
            /\ received[c][i] = position => Kind[c] = "webhook" \/ status[c] \in {"sent", "failed"}
    /\ NothingOvertakes

LEMMA EmptyOrder ==
    ASSUME received' = [c \in Channels |-> <<>>], status' \in [Channels -> Statuses], position' \in Nat
    PROVE  OrderInvariant'
<1>1. \A c \in Channels : received'[c] = <<>> /\ DOMAIN received'[c] = {}
    OBVIOUS
<1>2. received' \in [Channels -> Seq(Nat)]
    BY EmptySeq
<1> QED BY <1>1, <1>2 DEF OrderInvariant, NothingOvertakes

LEMMA PostKeepsOrder ==
    ASSUME OrderInvariant, NEW c \in Channels, Post(c)
    PROVE  OrderInvariant'
<1>1. PICK o \in Outcomes :
        /\ status' = [status EXCEPT ![c] = AfterPost(c, o)]
        /\ received' = IF o \in {"accepted", "late"}
                       THEN [received EXCEPT ![c] = Append(received[c], position)] ELSE received
    BY DEF Post
<1>2. position' = position /\ status[c] = "ready"
    BY DEF Post
<1>3. AfterPost(c, o) \in {"sent", "waiting", "failed"}
    BY DEF AfterPost
<1>4. status' \in [Channels -> Statuses] /\ status'[c] = AfterPost(c, o)
      /\ \A d \in Channels : d # c => status'[d] = status[d]
    BY <1>1, <1>3 DEF OrderInvariant, Statuses
<1>5. received[c] \in Seq(Nat) /\ position \in Nat
    BY DEF OrderInvariant
<1>6. \A i \in DOMAIN received[c] :
        received[c][i] \in Nat /\ received[c][i] <= position
        /\ (received[c][i] = position => Kind[c] = "webhook")
    BY <1>2, <1>5 DEF OrderInvariant
<1>7. CASE o \notin {"accepted", "late"}
    <2>1. received' = received
        BY <1>1, <1>7
    <2>2. \A d \in Channels : \A i \in DOMAIN received'[d] :
            /\ received'[d][i] <= position
            /\ received'[d][i] = position => Kind[d] = "webhook" \/ status'[d] \in {"sent", "failed"}
        <3> SUFFICES ASSUME NEW d \in Channels, NEW i \in DOMAIN received[d]
                     PROVE  /\ received[d][i] <= position
                            /\ received[d][i] = position =>
                                 Kind[d] = "webhook" \/ status'[d] \in {"sent", "failed"}
            BY <2>1
        <3>1. CASE d = c
            BY <1>6, <3>1
        <3>2. CASE d # c
            BY <1>4, <3>2 DEF OrderInvariant
        <3> QED BY <3>1, <3>2
    <2>3. NothingOvertakes'
        BY <2>1 DEF OrderInvariant, NothingOvertakes
    <2> QED BY <1>2, <1>4, <2>1, <2>2, <2>3 DEF OrderInvariant
<1>8. CASE o \in {"accepted", "late"}
    <2> DEFINE longer == Append(received[c], position)
    <2>1. /\ longer \in Seq(Nat) /\ DOMAIN longer = DOMAIN received[c] \cup {Len(received[c]) + 1}
          /\ DOMAIN received[c] = 1..Len(received[c]) /\ Len(received[c]) \in Nat
          /\ longer[Len(received[c]) + 1] = position
          /\ \A i \in DOMAIN received[c] : longer[i] = received[c][i]
        BY <1>5, AppendProperties
    <2> HIDE DEF longer
    <2>2. received' = [received EXCEPT ![c] = longer]
        BY <1>1, <1>8 DEF longer
    <2>3. received' \in [Channels -> Seq(Nat)] /\ received'[c] = longer
          /\ \A d \in Channels : d # c => received'[d] = received[d]
        BY <2>1, <2>2 DEF OrderInvariant
    <2>4. Kind[c] = "webhook" \/ AfterPost(c, o) \in {"sent", "failed"}
        BY <1>8 DEF AfterPost, Retries
    <2>5. \A i \in DOMAIN longer : longer[i] <= position
        BY <1>5, <1>6, <2>1
    <2>6. \A i, j \in DOMAIN longer : i < j =>
            longer[i] < longer[j] \/ (longer[i] = longer[j] /\ Kind[c] = "webhook")
        <3> SUFFICES ASSUME NEW i \in DOMAIN longer, NEW j \in DOMAIN longer, i < j
                     PROVE  longer[i] < longer[j] \/ (longer[i] = longer[j] /\ Kind[c] = "webhook")
            OBVIOUS
        <3>1. i \in DOMAIN received[c]
            BY <2>1
        <3>2. CASE j \in DOMAIN received[c]
            BY <2>1, <3>1, <3>2 DEF OrderInvariant, NothingOvertakes
        <3>3. CASE j = Len(received[c]) + 1
            <4>1. longer[i] = received[c][i] /\ longer[j] = position
                BY <2>1, <3>1, <3>3
            <4>2. received[c][i] \in Nat /\ received[c][i] <= position
                  /\ (received[c][i] = position => Kind[c] = "webhook")
                BY <1>6, <3>1
            <4> QED BY <1>5, <4>1, <4>2
        <3> QED BY <2>1, <3>2, <3>3
    <2>7. NothingOvertakes'
        <3> SUFFICES ASSUME NEW d \in Channels, NEW i \in DOMAIN received'[d],
                            NEW j \in DOMAIN received'[d], i < j
                     PROVE  \/ received'[d][i] < received'[d][j]
                            \/ received'[d][i] = received'[d][j] /\ Kind[d] = "webhook"
            BY DEF NothingOvertakes
        <3>1. CASE d = c
            BY <2>3, <2>6, <3>1
        <3>2. CASE d # c
            BY <2>3, <3>2 DEF OrderInvariant, NothingOvertakes
        <3> QED BY <3>1, <3>2
    <2>8. \A d \in Channels : \A i \in DOMAIN received'[d] :
            /\ received'[d][i] <= position
            /\ received'[d][i] = position => Kind[d] = "webhook" \/ status'[d] \in {"sent", "failed"}
        BY <1>4, <2>3, <2>4, <2>5 DEF OrderInvariant
    <2> QED BY <1>2, <1>4, <2>3, <2>7, <2>8 DEF OrderInvariant
<1> QED BY <1>7, <1>8

LEMMA OrderInitially == Init => OrderInvariant
<1> SUFFICES ASSUME Init PROVE OrderInvariant
    OBVIOUS
<1>1. /\ received = [c \in Channels |-> <<>>] /\ status = [c \in Channels |-> "ready"] /\ position = 1
    BY DEF Init
<1>2. \A c \in Channels : received[c] = <<>> /\ DOMAIN received[c] = {}
    BY <1>1
<1>3. received \in [Channels -> Seq(Nat)]
    BY <1>1, EmptySeq
<1> QED BY <1>1, <1>2, <1>3 DEF OrderInvariant, NothingOvertakes, Statuses

LEMMA OrderPreserved == OrderInvariant /\ [Next]_vars => OrderInvariant'
<1> SUFFICES ASSUME OrderInvariant, [Next]_vars PROVE OrderInvariant'
    OBVIOUS
<1>1. CASE Start
    <2>1. /\ received' = [c \in Channels |-> <<>>] /\ position' = 1
          /\ status' = [c \in Channels |-> "ready"]
        BY <1>1 DEF Start
    <2>2. status' \in [Channels -> Statuses]
        BY <2>1 DEF Statuses
    <2> QED BY <2>1, <2>2, EmptyOrder
<1>2. CASE UNCHANGED sendVars
    BY <1>2 DEF sendVars, OrderInvariant, NothingOvertakes
<1>3. ASSUME NEW c \in Channels, Skip(c) \/ Wake(c) PROVE OrderInvariant'
    <2>1. /\ position' = position /\ received' = received
          /\ status' \in [Channels -> Statuses]
          /\ \A d \in Channels : status[d] \in {"sent", "failed"} => status'[d] = status[d]
        <3>1. CASE Skip(c)
            BY <3>1 DEF Skip, OrderInvariant, Statuses
        <3>2. CASE Wake(c)
            BY <3>2 DEF Wake, OrderInvariant, Statuses
        <3> QED BY <1>3, <3>1, <3>2
    <2> QED BY <2>1 DEF OrderInvariant, NothingOvertakes
<1>4. CASE NextAlert
    <2>1. position' = position + 1 /\ received' = received
        BY <1>4 DEF NextAlert
    <2>2. status' \in [Channels -> Statuses]
        BY <1>4 DEF NextAlert, OrderInvariant, Statuses
    <2>3. \A c \in Channels : \A i \in DOMAIN received[c] :
            received[c][i] \in Nat /\ received[c][i] <= position
        BY DEF OrderInvariant
    <2>4. \A c \in Channels : \A i \in DOMAIN received'[c] :
            received'[c][i] <= position' /\ received'[c][i] # position'
        BY <2>1, <2>3 DEF OrderInvariant
    <2> QED BY <2>1, <2>2, <2>4 DEF OrderInvariant, NothingOvertakes
<1>5. ASSUME EnrichStep \/ Tick \/ Reload PROVE UNCHANGED sendVars
    BY <1>5 DEF EnrichStep, Enriched, Lookup, Answer, Tick, Reload
<1>6. CASE UNCHANGED vars
    BY <1>2, <1>6 DEF vars
<1> QED BY <1>1, <1>2, <1>3, <1>4, <1>5, <1>6, SendSteps, PostKeepsOrder DEF Next

(***************************************************************************)
(* For any batch and any answers: no channel delivers an alert before the  *)
(* one ahead of it, and only those that retry after an exception deliver   *)
(* one twice.                                                              *)
(***************************************************************************)
THEOREM InOrder == DeliverySpec => []NothingOvertakes
<1>1. OrderInvariant => NothingOvertakes
    BY DEF OrderInvariant
<1> QED BY <1>1, OrderInitially, OrderPreserved, PTL DEF DeliverySpec

-----------------------------------------------------------------------------
(***************************************************************************)
(* What a channel has received, and what it should have.  A thread that    *)
(* waits or gives up has met with a fault, so a channel without one has    *)
(* sent the current alert, or left it out for its severity.                *)
(***************************************************************************)

(* DueUpTo, one alert after the other.                                     *)
LEMMA DueIs ==
    ASSUME NEW b \in Seq(Alerts), NEW c \in Channels
    PROVE  /\ DueUpTo(b, c, 0) = <<>>
           /\ \A n \in 1..Len(b), m \in 0..Len(b) : m = n - 1 =>
                DueUpTo(b, c, n) = IF Meets(c, b[n]) THEN Append(DueUpTo(b, c, m), n) ELSE DueUpTo(b, c, m)
<1> DEFINE n == Len(b)
           add(x, i) == IF b[i].severity >= MinSeverity[c] THEN Append(x, i) ELSE x
           due == CHOOSE f : f = [i \in 0..n |-> IF i = 0 THEN <<>> ELSE add(f[i - 1], i)]
           next == [p \in Seq(Nat) \X (1..n) |-> add(p[1], p[2])]
<1>1. n \in Nat /\ <<>> \in Seq(Nat) /\ \A x \in Seq(Nat), i \in 1..n : add(x, i) \in Seq(Nat)
    OBVIOUS
<1>2. \A k : DueUpTo(b, c, k) = due[k]
    BY Zenon DEF DueUpTo
<1>10. \A x, i : add(x, i) = IF Meets(c, b[i]) THEN Append(x, i) ELSE x
    BY DEF Meets
<1>11. \A i \in 1..n, m \in 0..n : m = i - 1 => m + 1 = i
    OBVIOUS
<1> HIDE DEF add, n, due
<1> SUFFICES due[0] = <<>> /\ \A i \in 1..n : due[i] = add(due[i - 1], i)
    <2>1. ASSUME NEW i \in 1..n, NEW m \in 0..n, m = i - 1, due[i] = add(due[i - 1], i)
          PROVE  DueUpTo(b, c, i) = IF Meets(c, b[i]) THEN Append(DueUpTo(b, c, m), i) ELSE DueUpTo(b, c, m)
        <3>1. due[i] = add(due[m], i)
            BY <2>1
        <3> QED BY <1>2, <1>10, <3>1
    <2> QED BY <1>2, <2>1 DEF n
<1>3. /\ next \in [Seq(Nat) \X (1..n) -> Seq(Nat)]
      /\ \A x \in Seq(Nat), i \in 1..n : next[<<x, i>>] = add(x, i)
    BY <1>1
<1>4. \A i \in 0..n : i # 0 => i \in 1..n
    BY <1>1
<1>5. \A i \in 1..n : i # 0 /\ i \in 0..n /\ i - 1 \in 0..n
    BY <1>1
<1> HIDE DEF next, due
<1>6. PICK f \in [0..n -> Seq(Nat)] : Recursion(f, n, <<>>, next)
    BY <1>1, <1>3, RecursionExists
<1>7. f = [i \in 0..n |-> IF i = 0 THEN <<>> ELSE add(f[i - 1], i)]
    <2>1. ASSUME NEW i \in 1..n PROVE f[i] = add(f[i - 1], i)
        <3>1. f[i] = next[<<f[i - 1], i>>]
            BY <1>6 DEF Recursion
        <3>2. f[i - 1] \in Seq(Nat)
            BY <1>5
        <3> QED BY <1>3, <3>1, <3>2
    <2> QED BY <1>4, <1>6, <2>1 DEF Recursion
<1>8. due = [i \in 0..n |-> IF i = 0 THEN <<>> ELSE add(due[i - 1], i)]
    BY <1>7, Zenon DEF due
<1>9. ASSUME NEW g, due = [i \in 0..n |-> IF i = 0 THEN <<>> ELSE add(g[i - 1], i)]
      PROVE  due[0] = <<>> /\ \A i \in 1..n : due[i] = add(g[i - 1], i)
    BY <1>1, <1>5, <1>9
<1> QED BY <1>8, <1>9

-----------------------------------------------------------------------------
(* A channel whose receiver has not failed it has sent what is sent, and   *)
(* failed what is below its severity.                                      *)
Healthy(c) ==
    /\ status[c] # "waiting"
    /\ phase = "send" /\ status[c] = "sent" => Meets(c, batch[position])
    /\ phase = "send" /\ status[c] = "failed" => ~Meets(c, batch[position])
    /\ received[c] = Due(c)

Placed ==
    /\ phase \in {"idle", "enrich", "send"} /\ batch \in Batches \cup {<<>>}
    /\ phase # "idle" => batch \in Batches
    /\ position \in Nat
    /\ phase = "idle" => position = Len(batch) + 1
    /\ phase = "enrich" => position = 1
    /\ phase = "send" => position \in 1..Len(batch)
    /\ faulty \subseteq Channels

Informed == \A c \in Channels \ faulty : Healthy(c)

LEMMA BatchSent ==
    ASSUME batch \in Batches \cup {<<>>}
    PROVE  batch \in Seq(Alerts) /\ Len(batch) \in Nat /\ (batch \in Batches => 1 \in 1..Len(batch))
<1>1. batch \in Seq(Alerts) /\ Len(batch) \in Nat
    <2>1. CASE batch \in Batches
        <3>1. batch \in Seq(Alerts)
            BY <2>1, BatchesAssumption
        <3> QED BY <3>1
    <2>2. CASE batch = <<>>
        BY <2>2, EmptySeq
    <2> QED BY <2>1, <2>2
<1>2. batch \in Batches => Len(batch) # 0
    BY <1>1, BatchesAssumption, EmptySeq
<1> QED BY <1>1, <1>2

LEMMA PlacedInitially == Init => Placed
BY DEF Init, Placed

LEMMA PlacedPreserved == Placed /\ [Next]_vars => Placed'
<1> SUFFICES ASSUME Placed, [Next]_vars PROVE Placed'
    OBVIOUS
<1>1. CASE Start
    <2>1. batch' \in Batches /\ phase' \in {"enrich", "send"} /\ position' = 1 /\ faulty' = {}
        BY <1>1 DEF Start
    <2>2. 1 \in 1..Len(batch)'
        BY <2>1, BatchesAssumption
    <2> QED BY <2>1, <2>2 DEF Placed
<1>2. CASE Enriched
    <2>1. phase = "enrich" /\ phase' = "send" /\ UNCHANGED <<batch, position, faulty>>
        BY <1>2 DEF Enriched, sendVars
    <2> QED BY <2>1, BatchSent DEF Placed
<1>3. CASE NextAlert
    <2>1. /\ phase = "send" /\ position' = position + 1 /\ UNCHANGED <<batch, faulty>>
          /\ phase' = IF position < Len(batch) THEN "send" ELSE "idle"
        BY <1>3 DEF NextAlert
    <2>2. position \in 1..Len(batch) /\ Len(batch) \in Nat
        BY <2>1, BatchSent DEF Placed
    <2> QED BY <2>1, <2>2 DEF Placed
<1>4. ASSUME NEW c \in Channels, Skip(c) \/ Post(c) \/ Wake(c) PROVE Placed'
    <2>1. UNCHANGED <<phase, batch, position>> /\ faulty' \subseteq Channels
        BY <1>4 DEF Skip, Post, Wake, Placed
    <2> QED BY <2>1 DEF Placed
<1>5. ASSUME Tick \/ Reload \/ (\E i \in DOMAIN batch : Lookup(i) \/ Answer(i)) \/ UNCHANGED vars
      PROVE  Placed'
    <2>1. UNCHANGED <<phase, batch, position, faulty>>
        BY <1>5 DEF Lookup, Answer, Tick, Reload, vars, sendVars
    <2> QED BY <2>1 DEF Placed
<1> QED BY <1>1, <1>2, <1>3, <1>4, <1>5, SendSteps DEF Next, EnrichStep

LEMMA DueGrows ==
    ASSUME batch \in Batches \cup {<<>>}, NEW c \in Channels, position \in 1..Len(batch)
    PROVE  DueUpTo(batch, c, position) =
             IF Meets(c, batch[position]) THEN Append(DueUpTo(batch, c, position - 1), position)
             ELSE DueUpTo(batch, c, position - 1)
<1>1. PICK m \in 0..Len(batch) : m = position - 1
    BY BatchSent
<1>2. DueUpTo(batch, c, position) =
        IF Meets(c, batch[position]) THEN Append(DueUpTo(batch, c, m), position) ELSE DueUpTo(batch, c, m)
    BY <1>1, BatchSent, DueIs
<1> QED BY <1>1, <1>2

LEMMA InformedInitially == Init => Informed
<1> SUFFICES ASSUME Init, NEW c \in Channels PROVE Healthy(c)
    BY DEF Informed
<1>1. /\ received[c] = <<>> /\ status[c] = "ready" /\ position - 1 = 0 /\ phase = "idle" /\ batch = <<>>
    BY DEF Init
<1>2. DueUpTo(<<>>, c, 0) = <<>>
    BY DueIs, EmptySeq
<1> QED BY <1>1, <1>2 DEF Healthy, Due

LEMMA InformedPreserved == Placed /\ AttemptsInvariant /\ OrderInvariant /\ Informed /\ [Next]_vars => Informed'
<1> SUFFICES ASSUME Placed, AttemptsInvariant, OrderInvariant, Informed, [Next]_vars PROVE Informed'
    OBVIOUS
<1>1. CASE Start
    <2> SUFFICES ASSUME NEW c \in Channels PROVE Healthy(c)'
        BY DEF Informed
    <2>1. /\ received'[c] = <<>> /\ status'[c] = "ready" /\ position' - 1 = 0 /\ batch' \in Batches
        BY <1>1 DEF Start
    <2>2. DueUpTo(batch', c, 0) = <<>>
        BY <2>1, BatchesAssumption, DueIs
    <2> QED BY <2>1, <2>2 DEF Healthy, Due
<1>2. CASE Enriched
    <2>1. /\ phase = "enrich" /\ \A c \in Channels : status[c] = "ready"
          /\ UNCHANGED <<batch, position, status, received, faulty>>
        BY <1>2 DEF Enriched, sendVars, AttemptsInvariant
    <2> QED BY <2>1 DEF Informed, Healthy, Due
<1>3. CASE NextAlert
    <2>1. /\ phase = "send" /\ AllDone /\ position' = position + 1 /\ UNCHANGED <<batch, received, faulty>>
          /\ phase' \in {"send", "idle"}
          /\ status' = [c \in Channels |-> IF phase' = "send" THEN "ready" ELSE status[c]]
        BY <1>3 DEF NextAlert
    <2>2. position \in 1..Len(batch) /\ position' - 1 = position
        BY <2>1 DEF Placed
    <2> SUFFICES ASSUME NEW c \in Channels \ faulty PROVE Healthy(c)'
        BY <2>1 DEF Informed
    <2>3. status[c] \in {"sent", "failed"} /\ Healthy(c)
        BY <2>1 DEF AllDone, Informed
    <2>4. received[c] = DueUpTo(batch, c, position)
        <3>1. CASE status[c] = "sent"
            BY <2>1, <2>3, <3>1 DEF Healthy, Due
        <3>2. CASE status[c] = "failed"
            <4>1. received[c] = DueUpTo(batch, c, position - 1) /\ ~Meets(c, batch[position])
                BY <2>1, <2>3, <3>2 DEF Healthy, Due
            <4> QED BY <2>2, <4>1, DueGrows DEF Placed
        <3> QED BY <2>3, <3>1, <3>2
    <2>5. status'[c] = IF phase' = "send" THEN "ready" ELSE status[c]
        BY <2>1
    <2>6. Due(c)' = DueUpTo(batch, c, position)
        BY <2>1, <2>2, <2>5 DEF Due
    <2> QED BY <2>1, <2>3, <2>4, <2>5, <2>6 DEF Healthy
<1>4. ASSUME NEW c \in Channels, Skip(c) \/ Wake(c) PROVE Informed'
    <2>1. phase = "send" /\ UNCHANGED <<phase, batch, position, received, faulty>>
        BY <1>4 DEF Skip, Wake
    <2>2. \A d \in Channels : d # c => status'[d] = status[d]
        BY <1>4 DEF Skip, Wake, AttemptsInvariant
    <2>3. ASSUME NEW d \in Channels \ faulty, d # c PROVE Healthy(d)'
        BY <2>1, <2>2, <2>3 DEF Informed, Healthy, Due, Meets
    <2>4. ASSUME c \notin faulty PROVE Healthy(c)'
        <3>1. Skip(c) /\ status[c] = "ready" /\ status'[c] = "failed" /\ ~Meets(c, batch[position])
            BY <1>4, <2>4 DEF Skip, Wake, Informed, Healthy, AttemptsInvariant
        <3> QED BY <2>1, <2>4, <3>1 DEF Informed, Healthy, Due, Meets
    <2> QED BY <2>1, <2>3, <2>4 DEF Informed
<1>5. ASSUME NEW c \in Channels, Post(c) PROVE Informed'
    <2>1. PICK o \in Outcomes :
            /\ status' = [status EXCEPT ![c] = AfterPost(c, o)]
            /\ received' = IF o \in {"accepted", "late"}
                           THEN [received EXCEPT ![c] = Append(received[c], position)] ELSE received
            /\ faulty' = IF o = "accepted" THEN faulty ELSE faulty \cup {c}
        BY <1>5 DEF Post
    <2>2. phase = "send" /\ UNCHANGED <<phase, batch, position>> /\ status[c] = "ready" /\ Meets(c, batch[position])
        BY <1>5 DEF Post
    <2>3. \A d \in Channels : d # c => status'[d] = status[d]
        BY <2>1 DEF AttemptsInvariant
    <2>6. received \in [Channels -> Seq(Nat)]
        BY DEF OrderInvariant
    <2>4. ASSUME NEW d \in Channels \ faulty', d # c PROVE Healthy(d)'
        <3>1. received'[d] = received[d] /\ d \notin faulty
            BY <2>1, <2>4
        <3> QED BY <2>2, <2>3, <2>4, <3>1 DEF Informed, Healthy, Due, Meets
    <2>5. ASSUME c \notin faulty' PROVE Healthy(c)'
        <3>1. o = "accepted" /\ c \notin faulty
            BY <2>1, <2>5
        <3>2. status'[c] = "sent"
            BY <2>1, <3>1 DEF AfterPost, Retries, Raises, AttemptsInvariant
        <3>3. received[c] = DueUpTo(batch, c, position - 1)
            BY <2>2, <3>1 DEF Informed, Healthy, Due
        <3>4. received'[c] = Append(received[c], position)
            BY <2>1, <3>1, <2>6
        <3>5. DueUpTo(batch, c, position) = Append(DueUpTo(batch, c, position - 1), position)
            BY <2>2, DueGrows DEF Placed
        <3>6. Due(c)' = DueUpTo(batch, c, position)
            BY <2>2, <3>2 DEF Due
        <3> QED BY <2>2, <3>2, <3>3, <3>4, <3>5, <3>6 DEF Healthy, Meets
    <2> QED BY <2>4, <2>5 DEF Informed
<1>6. ASSUME Tick \/ Reload \/ (\E i \in DOMAIN batch : Lookup(i) \/ Answer(i)) \/ UNCHANGED vars
      PROVE  Informed'
    <2>1. UNCHANGED <<phase, batch, position, status, received, faulty>>
        BY <1>6 DEF Lookup, Answer, Tick, Reload, vars, sendVars
    <2> QED BY <2>1 DEF Informed, Healthy, Due, Meets
<1> QED BY <1>1, <1>2, <1>3, <1>4, <1>5, <1>6, SendSteps DEF Next, EnrichStep

-----------------------------------------------------------------------------
(* Types.  An attempt delivers an alert once at most.                      *)
Bounded ==
    /\ attempt \in [Channels -> 0..Attempts]
    /\ \A c \in Channels :
        Len(received[c]) <= Attempts * (position - 1) + (IF phase = "send" THEN attempt[c] ELSE 0)

CacheTyped == DOMAIN cache \subseteq Fingerprints /\ \A f \in DOMAIN cache : cache[f] \in 0..(Ttl + 1)

LEMMA CacheTypedPreserved == CacheInvariant /\ CacheTyped /\ [Next]_vars => CacheTyped'
<1> SUFFICES ASSUME CacheInvariant, CacheTyped, [Next]_vars PROVE CacheTyped'
    OBVIOUS
<1>1. CASE UNCHANGED cache
    BY <1>1 DEF CacheTyped
<1>2. ASSUME NEW i \in DOMAIN batch, Answer(i), cache' = Put(batch[i].fp) PROVE CacheTyped'
    <2> DEFINE fp == batch[i].fp
    <2>1. fp \in Fingerprints /\ 0 \in 0..(Ttl + 1)
        BY FingerprintOfBatch, LimitsAssumption
    <2> HIDE DEF fp
    <2>2. DOMAIN With(fp) \subseteq Fingerprints /\ \A f \in DOMAIN With(fp) : With(fp)[f] \in 0..(Ttl + 1)
        BY <2>1 DEF With, CacheTyped
    <2>3. DOMAIN Put(fp) \subseteq DOMAIN With(fp) /\ \A f \in DOMAIN Put(fp) : Put(fp)[f] = With(fp)[f]
        BY DEF Put
    <2> QED BY <1>2, <2>2, <2>3 DEF CacheTyped, fp
<1>3. CASE Tick
    <2>1. cache' = [f \in DOMAIN cache |-> IF cache[f] <= Ttl THEN cache[f] + 1 ELSE cache[f]]
        BY <1>3 DEF Tick
    <2> QED BY <2>1, LimitsAssumption DEF CacheTyped
<1>4. CASE Reload
    <2>1. cache' = <<>> /\ DOMAIN cache' = {}
        BY <1>4 DEF Reload
    <2> QED BY <2>1 DEF CacheTyped
<1>5. CASE Start \/ Enriched \/ SendStep \/ UNCHANGED vars
    BY <1>1, <1>5, SendSteps DEF Start, Enriched, NextAlert, Skip, Post, Wake, vars, enrichVars
<1>6. ASSUME NEW i \in DOMAIN batch, Lookup(i) PROVE CacheTyped'
    BY <1>1, <1>6 DEF Lookup
<1>7. ASSUME NEW i \in DOMAIN batch, Answer(i) PROVE CacheTyped'
    BY <1>1, <1>2, <1>7 DEF Answer
<1> QED BY <1>3, <1>4, <1>5, <1>6, <1>7 DEF Next, EnrichStep

LEMMA BoundedPreserved ==
    Placed /\ AttemptsInvariant /\ OrderInvariant /\ Bounded /\ [Next]_vars => Bounded'
<1> SUFFICES ASSUME Placed, AttemptsInvariant, OrderInvariant, Bounded, [Next]_vars PROVE Bounded'
    OBVIOUS
<1>1. /\ Attempts \in Nat \ {0} /\ 0 \in 0..Attempts
      /\ \A c \in Channels : received[c] \in Seq(Nat) /\ Len(received[c]) \in Nat /\ attempt[c] \in 0..Attempts
    BY LimitsAssumption DEF OrderInvariant, Bounded
<1>2. CASE Start
    <2>1. attempt' = [c \in Channels |-> 0] /\ received' = [c \in Channels |-> <<>>] /\ position' - 1 = 0
        BY <1>2 DEF Start
    <2>2. attempt' \in [Channels -> 0..Attempts] /\ \A c \in Channels : attempt'[c] = 0 /\ Len(received'[c]) = 0
        BY <1>1, <2>1
    <2>3. Attempts * (position' - 1) = 0
        BY <1>1, <2>1
    <2> QED BY <2>2, <2>3 DEF Bounded
<1>3. CASE Enriched
    <2>1. phase = "enrich" /\ phase' = "send" /\ UNCHANGED <<position, attempt, received>>
        BY <1>3 DEF Enriched, sendVars
    <2> DEFINE most == Attempts * (position - 1)
    <2>2. most \in Int
        BY <1>1 DEF Placed
    <2> HIDE DEF most
    <2>3. \A c \in Channels : Len(received[c]) <= most + 0
        BY <2>1 DEF Bounded, most
    <2>4. \A c \in Channels : Len(received[c]) <= most + attempt[c]
        BY <1>1, <2>2, <2>3
    <2> QED BY <2>1, <2>4 DEF Bounded, most
<1>4. CASE NextAlert
    <2>1. /\ phase = "send" /\ phase' \in {"send", "idle"} /\ position' = position + 1 /\ UNCHANGED received
          /\ attempt' = [c \in Channels |-> IF phase' = "send" THEN 0 ELSE attempt[c]]
        BY <1>4 DEF NextAlert
    <2> DEFINE most == Attempts * (position - 1)
    <2>2. most \in Int /\ Attempts * (position' - 1) = most + Attempts
        <3>1. \A a \in Nat, p \in Nat : a * (p - 1) \in Int /\ a * p = a * (p - 1) + a
            OBVIOUS
        <3>2. position \in Nat /\ Attempts \in Nat /\ position' - 1 = position
            BY <1>1, <2>1 DEF Placed
        <3> QED BY <3>1, <3>2
    <2> HIDE DEF most
    <2>3. \A c \in Channels : Len(received[c]) <= most + attempt[c]
        BY <2>1 DEF Bounded, most
    <2>4. \A c \in Channels : Len(received[c]) <= most + Attempts
        BY <1>1, <2>2, <2>3
    <2>5. attempt' \in [Channels -> 0..Attempts] /\ (phase' = "send" => \A c \in Channels : attempt'[c] = 0)
        BY <1>1, <2>1
    <2>6. \A c \in Channels : (IF phase' = "send" THEN attempt'[c] ELSE 0) = 0
        BY <2>5
    <2>7. most + Attempts + 0 = most + Attempts
        BY <1>1, <2>2
    <2> QED BY <2>1, <2>2, <2>4, <2>5, <2>6, <2>7 DEF Bounded
<1>5. ASSUME NEW c \in Channels, Post(c) PROVE Bounded'
    <2>1. phase = "send" /\ UNCHANGED <<phase, position>> /\ status[c] = "ready"
        BY <1>5 DEF Post
    <2>2. attempt[c] < Attempts
        BY <2>1 DEF AttemptsInvariant
    <2>3. attempt' = [attempt EXCEPT ![c] = attempt[c] + 1]
        <3>1. attempt' = [attempt EXCEPT ![c] = IF attempt[c] <= Attempts THEN attempt[c] + 1 ELSE attempt[c]]
            BY <1>5 DEF Post
        <3>2. attempt[c] <= Attempts
            BY <1>1
        <3> QED BY <3>1, <3>2
    <2>4. received' = received \/ received' = [received EXCEPT ![c] = Append(received[c], position)]
        BY <1>5 DEF Post
    <2>5. Len(Append(received[c], position)) = Len(received[c]) + 1
        BY <1>1 DEF OrderInvariant
    <2>6. received \in [Channels -> Seq(Nat)] /\ attempt \in [Channels -> 0..Attempts]
        BY DEF OrderInvariant, Bounded
    <2>7. /\ \A d \in Channels : d # c => received'[d] = received[d]
          /\ Len(received'[c]) <= Len(received[c]) + 1 /\ Len(received'[c]) \in Nat
        BY <1>1, <2>4, <2>5, <2>6
    <2>8. /\ attempt' \in [Channels -> 0..Attempts] /\ attempt'[c] = attempt[c] + 1
          /\ \A d \in Channels : d # c => attempt'[d] = attempt[d]
        BY <1>1, <2>2, <2>3, <2>6
    <2> DEFINE most == Attempts * (position - 1)
    <2>9. most \in Int
        BY <1>1 DEF Placed
    <2> HIDE DEF most
    <2>10. \A d \in Channels : Len(received[d]) <= most + attempt[d]
        BY <2>1 DEF Bounded, most
    <2>11. \A d \in Channels : Len(received'[d]) <= most + attempt'[d]
        <3>1. Len(received[c]) <= most + attempt[c] /\ attempt[c] \in Int /\ Len(received[c]) \in Nat
            BY <1>1, <2>10
        <3>2. Len(received'[c]) <= most + attempt'[c]
            BY <2>7, <2>8, <2>9, <3>1
        <3> QED BY <2>7, <2>8, <2>10, <3>2
    <2> QED BY <2>1, <2>8, <2>11 DEF Bounded, most
<1>6. ASSUME Tick \/ Reload \/ (\E i \in DOMAIN batch : Lookup(i) \/ Answer(i))
             \/ (\E c \in Channels : Skip(c) \/ Wake(c)) \/ UNCHANGED vars
      PROVE  Bounded'
    <2>1. UNCHANGED <<phase, position, attempt, received>>
        BY <1>6 DEF Lookup, Answer, Tick, Reload, Skip, Wake, vars, sendVars
    <2> QED BY <2>1 DEF Bounded
<1> QED BY <1>2, <1>3, <1>4, <1>5, <1>6, SendSteps DEF Next, EnrichStep

SendInvariant == Placed /\ AttemptsInvariant /\ OrderInvariant /\ Informed /\ Bounded

LEMMA SendInitially == Init => SendInvariant
<1> SUFFICES ASSUME Init PROVE Bounded
    BY PlacedInitially, AttemptsInitially, OrderInitially, InformedInitially DEF SendInvariant
<1>1. attempt = [c \in Channels |-> 0] /\ received = [c \in Channels |-> <<>>] /\ position - 1 = 0 /\ phase = "idle"
    BY DEF Init
<1>2. Attempts * (position - 1) = 0 /\ 0 \in 0..Attempts
    BY <1>1, LimitsAssumption
<1>3. \A c \in Channels : Len(received[c]) = 0
    BY <1>1
<1> QED BY <1>1, <1>2, <1>3 DEF Bounded

LEMMA SendPreserved == SendInvariant /\ [Next]_vars => SendInvariant'
BY PlacedPreserved, AttemptsPreserved, OrderPreserved, InformedPreserved, BoundedPreserved DEF SendInvariant

(***************************************************************************)
(* For any channels and batches: a channel whose receiver accepts what it  *)
(* is sent gets every alert that is severe enough for it, once and in the  *)
(* order of the batch, whatever becomes of the other channels.             *)
(***************************************************************************)
THEOREM HealthyInformed == DeliverySpec => []HealthyChannelInformed
<1>1. SendInvariant => HealthyChannelInformed
    BY DEF SendInvariant, Informed, Healthy, HealthyChannelInformed
<1> QED BY <1>1, SendInitially, SendPreserved, PTL DEF DeliverySpec

(***************************************************************************)
(* The records of a dispatch have their types: no thread makes more posts  *)
(* than it has attempts, no receiver gets more than that for each alert.   *)
(***************************************************************************)
THEOREM DeliveryTyped == DeliverySpec => []DeliveryTypeOK
<1>1. SendInvariant /\ CacheInvariant /\ CacheTyped => DeliveryTypeOK
    <2> SUFFICES ASSUME SendInvariant, CacheInvariant, CacheTyped PROVE DeliveryTypeOK
        OBVIOUS
    <2>1. Len(batch) \in Nat /\ position \in 1..(Len(batch) + 1)
        <3>1. Len(batch) \in Nat
            BY BatchSent DEF SendInvariant, Placed
        <3> QED BY <3>1, BatchSent DEF SendInvariant, Placed
    <2>2. \A c \in Channels : Len(received[c]) <= Attempts * Len(batch)
        <3> SUFFICES ASSUME NEW c \in Channels PROVE Len(received[c]) <= Attempts * Len(batch)
            OBVIOUS
        <3> DEFINE most == Attempts * (position - 1)
        <3>1. /\ most \in Int /\ Attempts \in Nat /\ Attempts * Len(batch) \in Nat
              /\ (position - 1 = Len(batch) => most = Attempts * Len(batch))
              /\ (position <= Len(batch) => most + Attempts <= Attempts * Len(batch))
            <4>1. \A a \in Nat, p \in Nat, n \in Nat : p <= n => a * (p - 1) + a <= a * n
                <5> SUFFICES ASSUME NEW a \in Nat, NEW p \in Nat, NEW n \in Nat, p <= n
                             PROVE  a * (p - 1) + a <= a * n
                    OBVIOUS
                <5>1. a * (p - 1) + a = a * p
                    OBVIOUS
                <5>2. a * n = a * p + a * (n - p) /\ a * (n - p) >= 0 /\ a * p \in Nat /\ a * (n - p) \in Nat
                    OBVIOUS
                <5> QED BY <5>1, <5>2
            <4>2. Attempts \in Nat /\ position \in Nat
                BY LimitsAssumption, <2>1
            <4>3. Attempts * Len(batch) \in Nat /\ most \in Int
                BY <2>1, <4>2
            <4> QED BY <2>1, <4>1, <4>2, <4>3
        <3>2. attempt[c] \in 0..Attempts /\ Len(received[c]) \in Nat
            BY DEF SendInvariant, Bounded, OrderInvariant
        <3> HIDE DEF most
        <3>3. Len(received[c]) <= most + (IF phase = "send" THEN attempt[c] ELSE 0)
            BY DEF SendInvariant, Bounded, most
        <3>4. CASE phase = "send"
            <4>1. position <= Len(batch)
                BY <2>1, <3>4 DEF SendInvariant, Placed
            <4> QED BY <3>1, <3>2, <3>3, <3>4, <4>1
        <3>5. CASE phase = "idle"
            <4>1. position - 1 = Len(batch)
                BY <2>1, <3>5 DEF SendInvariant, Placed
            <4> QED BY <3>1, <3>2, <3>3, <3>5, <4>1
        <3>6. CASE phase = "enrich"
            <4>1. position <= Len(batch)
                BY <2>1, <3>6, BatchSent DEF SendInvariant, Placed
            <4> QED BY <3>1, <3>2, <3>3, <3>6, <4>1
        <3> QED BY <3>4, <3>5, <3>6 DEF SendInvariant, Placed
    <2> QED BY <2>1, <2>2 DEF DeliveryTypeOK, SendInvariant, Placed, AttemptsInvariant, Statuses, Bounded,
                              CacheInvariant, CacheTyped
<1>2. Init => CacheTyped
    <2>1. ASSUME Init PROVE cache = <<>> /\ DOMAIN cache = {}
        BY <2>1 DEF Init
    <2> QED BY <2>1 DEF CacheTyped
<1> QED BY <1>1, <1>2, SendInitially, SendPreserved, CacheInitially, CachePreserved, CacheTypedPreserved, PTL
        DEF DeliverySpec
=============================================================================
