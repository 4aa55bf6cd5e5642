-------------------------- MODULE CollectionProofs --------------------------
(***************************************************************************)
(* Proofs about a cycle and its collectors, for every ring buffer, every   *)
(* limit of the sets of seen messages, every lifetime of a token and any   *)
(* interleaving of the pool's threads with the loop that awaits them.      *)
(***************************************************************************)
EXTENDS CollectionCycle, FiniteSetTheorems, TLAPS

-----------------------------------------------------------------------------
(* The pool: what is gathered has been collected *)

PoolInvariant ==
    /\ phase \in {"idle", "collect", "evaluate", "dispatch"}
    /\ running \subseteq {subject, "process"}
    /\ phase # "collect" => running = {}
    /\ gathered \cap running = {}
    /\ subject # "process"

LEMMA PoolInitially == CycleInit => PoolInvariant
BY SubjectsAssumption DEF CycleInit, PoolInvariant, RateCollectors

LEMMA PoolPreserved == PoolInvariant /\ [CycleNext]_cycleVars => PoolInvariant'
<1> SUFFICES ASSUME PoolInvariant, [CycleNext]_cycleVars PROVE PoolInvariant'
    OBVIOUS
<1> USE DEF PoolInvariant
<1>1. CASE Machine
    BY <1>1 DEF Machine, poolVars
<1>2. CASE StartCycle
    BY <1>2 DEF StartCycle
<1>3. ASSUME NEW c \in running, ThreadEnds(c) PROVE PoolInvariant'
    BY <1>3 DEF ThreadEnds
<1>4. CASE Await
    BY <1>4 DEF Await
<1>5. CASE LeavePool
    BY <1>5 DEF LeavePool, poolVars
<1>6. CASE CycleFails
    BY <1>6 DEF CycleFails, poolVars
<1>7. CASE Evaluated
    BY <1>7 DEF Evaluated, poolVars
<1>8. CASE Dispatched
    BY <1>8 DEF Dispatched, poolVars
<1>9. CASE UNCHANGED cycleVars
    BY <1>9 DEF cycleVars, poolVars
<1>10. CASE Reload
    BY <1>10 DEF Reload, poolVars
<1> QED BY <1>1, <1>2, <1>3, <1>4, <1>5, <1>6, <1>7, <1>8, <1>9, <1>10 DEF CycleNext

-----------------------------------------------------------------------------
(* Steps of the counters *)

CountersStep(c) == OomKill \/ CountersAge \/ CollectCounters(c)

(* What a cycle does to the counters is a step of those of the collector   *)
(* that is looked at, or nothing.                                          *)
LEMMA CountersSteps ==
    PoolInvariant /\ [CycleNext]_cycleVars =>
        subject' = subject /\ (CountersStep(subject) \/ UNCHANGED <<killVars, rateVars>>)
<1> DEFINE Goal == subject' = subject /\ (CountersStep(subject) \/ UNCHANGED <<killVars, rateVars>>)
<1> SUFFICES ASSUME PoolInvariant, [CycleNext]_cycleVars PROVE Goal
    OBVIOUS
<1> USE DEF CountersStep
<1>1. CASE Machine
    BY <1>1 DEF Machine, OomKill
<1>2. CASE StartCycle
    BY <1>2 DEF StartCycle
<1>3. ASSUME NEW c \in running, ThreadEnds(c) PROVE Goal
    <2>1. c \in {subject, "process"}
        BY DEF PoolInvariant
    <2> QED BY <1>3, <2>1 DEF ThreadEnds, CollectOf, RateCollectors, collectorVars
<1>4. CASE Reload \/ Await \/ LeavePool \/ CycleFails \/ Evaluated \/ Dispatched
    BY <1>4 DEF Reload, Await, LeavePool, CycleFails, Evaluated, Dispatched, collectorVars
<1>5. CASE UNCHANGED cycleVars
    BY <1>5 DEF cycleVars, collectorVars
<1> QED BY <1>1, <1>2, <1>3, <1>4, <1>5 DEF CycleNext

-----------------------------------------------------------------------------
(* The counters' memory *)

(* Every reading's kills were told or found by the first one; nothing was  *)
(* told before it.                                                         *)
KillsInvariant ==
    /\ kills \in Nat /\ prevKills \in 0..kills /\ firstKills \in Nat
    /\ killsMisread \in BOOLEAN /\ toldKills \in Int
    /\ ~killsMisread => toldKills = prevKills - firstKills
    /\ timeAge \in Nat \cup {Never} /\ MaxAge \in Nat
    /\ timeAge = Never => toldKills = 0

LEMMA KillsInitially == CycleInit => KillsInvariant
<1> SUFFICES ASSUME CycleInit PROVE KillsInvariant
    OBVIOUS
<1>1. /\ kills = 0 /\ prevKills = 0 /\ firstKills = 0 /\ toldKills = 0
      /\ killsMisread = FALSE /\ timeAge = Never
    BY DEF CycleInit, CountersInit
<1>2. 0 \in Nat /\ 0 \in 0..0 /\ 0 = 0 - 0 /\ 0 \in Int
    OBVIOUS
<1>3. MaxAge \in Nat
    BY CountersAssumption
<1> QED BY <1>1, <1>2, <1>3 DEF KillsInvariant

LEMMA KillsPreserved == PoolInvariant /\ KillsInvariant /\ [CycleNext]_cycleVars => KillsInvariant'
<1> SUFFICES ASSUME KillsInvariant, CountersStep(subject) \/ UNCHANGED <<killVars, rateVars>>
             PROVE  KillsInvariant'
    BY CountersSteps
<1> USE DEF KillsInvariant
<1>1. CASE OomKill
    BY <1>1 DEF OomKill, rateVars
<1>2. CASE CountersAge
    BY <1>2 DEF CountersAge, killVars, Older, Never
<1>3. ASSUME NEW c, CollectCounters(c) PROVE KillsInvariant'
    <2>1. CASE CountersRead /\ CountKills
        <3>1. PICK read \in {kills, 0} :
                /\ newKills' = IF timeAge = Never THEN 0 ELSE PositivePart(read - prevKills)
                /\ firstKills' = IF timeAge = Never THEN read ELSE firstKills
                /\ prevKills' = read
                /\ killsMisread' = (killsMisread \/ read # kills)
                /\ toldKills' = IF killsMisread' THEN toldKills ELSE toldKills + newKills'
                /\ kills' = kills
            BY <2>1 DEF CountKills, NextPrev
        <3>2. timeAge' = 0
            BY <2>1 DEF CountersRead
        <3>3. CASE killsMisread'
            BY <3>1, <3>2, <3>3 DEF Never
        <3>4. CASE ~killsMisread' /\ timeAge = Never
            BY <3>1, <3>2, <3>4 DEF Never
        <3>5. CASE ~killsMisread' /\ timeAge # Never
            <4>1. read = kills /\ ~killsMisread
                BY <3>1, <3>5
            <4>2. newKills' = kills - prevKills
                BY <3>1, <3>5, <4>1 DEF PositivePart
            <4> QED BY <3>1, <3>2, <3>5, <4>1, <4>2 DEF Never
        <3> QED BY <3>3, <3>4, <3>5
    <2>2. CASE (CountersRead \/ IoFails) /\ UNCHANGED killVars
        BY <2>2 DEF CountersRead, IoFails, killVars, Never
    <2>3. CASE SnapshotFails /\ UNCHANGED <<kills, prevKills, killsMisread, firstKills, toldKills>>
        BY <2>3 DEF SnapshotFails
    <2> QED BY <1>3, <2>1, <2>2, <2>3 DEF CollectCounters
<1>4. CASE UNCHANGED <<killVars, rateVars>>
    BY <1>4 DEF killVars, rateVars
<1> QED BY <1>1, <1>2, <1>3, <1>4 DEF CountersStep

(***************************************************************************)
(* However cycles fail and whatever else of a collection raises, the OOM   *)
(* kills that snapshots reported as new add up to what the kernel counted  *)
(* since the first reading.                                                *)
(***************************************************************************)
THEOREM EveryKillOnce == CycleSpec => []KillsCountedOnce
<1>1. KillsInvariant => KillsCountedOnce
    BY DEF KillsInvariant, KillsCountedOnce
<1> QED BY <1>1, PoolInitially, PoolPreserved, KillsInitially, KillsPreserved, PTL DEF CycleSpec

(* What is remembered is of one time, except after a misreading: counters  *)
(* may then be older than their time, and TCP's may be gone.               *)
OneTime ==
    /\ misread \in BOOLEAN /\ MaxAge \in Nat
    /\ timeAge \in Ages /\ countersAge \in Ages
    /\ timeAge = Never => countersAge = Never
    /\ ~misread => countersAge = timeAge
    /\ countersAge # Never => countersAge >= timeAge
    /\ subject = "network" => snmpAge = IF misread THEN Never ELSE timeAge

LEMMA OneTimeInitially == CycleInit => OneTime
BY CountersAssumption DEF CycleInit, CountersInit, OneTime, Ages, Never

LEMMA OneTimePreserved == PoolInvariant /\ OneTime /\ [CycleNext]_cycleVars => OneTime'
<1> SUFFICES ASSUME OneTime, CountersStep(subject) \/ UNCHANGED <<killVars, rateVars>>, subject' = subject
             PROVE  OneTime'
    BY CountersSteps
<1> USE DEF OneTime, Ages, Never
<1>1. CASE UNCHANGED rateVars
    BY <1>1 DEF rateVars
<1>2. CASE CountersAge
    BY <1>2 DEF CountersAge, Older
<1>3. CASE SnapshotFails
    BY <1>3 DEF SnapshotFails
<1>4. CASE subject = "disk" /\ IoFails
    BY <1>4 DEF IoFails
<1>5. CASE CountersRead /\ IF subject = "network" THEN ReadSnmp ELSE NoSnmp
    <2>1. timeAge' = 0 /\ countersAge' = 0 /\ misread' \in BOOLEAN
        BY <1>5 DEF CountersRead, ReadSnmp, NoSnmp
    <2>2. subject = "network" => snmpAge' = IF misread' THEN Never ELSE 0
        BY <1>5 DEF ReadSnmp
    <2> QED BY <2>1, <2>2
<1> QED BY <1>1, <1>2, <1>3, <1>4, <1>5
        DEF CountersStep, CollectCounters, OomKill, killVars

(***************************************************************************)
(* However collections fail: numerator and denominator of a rate span the  *)
(* same stretch of time, unless the collection before stored its time and  *)
(* not its counters.  Then the rate is too high, never too low: of more    *)
(* than one interval for a disk, of all since boot for TCP.                *)
(***************************************************************************)
THEOREM RatesOfOneInterval == CycleSpec => RatesSpanOneInterval
<1> DEFINE Right ==
        /\ span'[1] = span'[2] \/ (misread /\ span'[1] > span'[2])
        /\ tcpSpan'[1] = tcpSpan'[2] \/ (misread /\ tcpSpan'[1] = Never)
<1>1. PoolInvariant /\ OneTime /\ [CycleNext]_cycleVars => [Right]_rateVars
    <2> SUFFICES ASSUME OneTime, CountersStep(subject) \/ UNCHANGED <<killVars, rateVars>>
                 PROVE  Right \/ UNCHANGED rateVars
        BY CountersSteps
    <2>1. CASE NoRates
        BY <2>1 DEF NoRates, NoRate
    <2>2. CASE CountersRead /\ IF subject = "network" THEN ReadSnmp ELSE NoSnmp
        <3>1. span'[1] = span'[2] \/ (misread /\ span'[1] > span'[2])
            BY <2>2 DEF CountersRead, Remembered, NoRate, OneTime, Ages, Never
        <3>2. CASE subject = "network"
            <4>1. PICK answered \in BOOLEAN :
                    tcpSpan' = IF answered /\ timeAge # Never THEN <<snmpAge, timeAge>> ELSE NoRate
                BY <2>2, <3>2 DEF ReadSnmp
            <4>2. CASE answered /\ timeAge # Never
                BY <3>1, <3>2, <4>1, <4>2 DEF OneTime
            <4>3. CASE ~(answered /\ timeAge # Never)
                BY <3>1, <4>1, <4>3 DEF NoRate
            <4> QED BY <4>2, <4>3
        <3>3. CASE subject # "network"
            BY <2>2, <3>1, <3>3 DEF NoSnmp, NoRate
        <3> QED BY <3>2, <3>3
    <2>3. CASE OomKill \/ UNCHANGED <<killVars, rateVars>>
        BY <2>3 DEF OomKill
    <2> QED BY <2>1, <2>2, <2>3 DEF CountersStep, CountersAge, CollectCounters, SnapshotFails, IoFails
<1> QED BY <1>1, PoolInitially, PoolPreserved, OneTimeInitially, OneTimePreserved, PTL DEF CycleSpec, RatesSpanOneInterval

-----------------------------------------------------------------------------
(* The spot notice and its gauge *)

(* The collector's snapshot of this cycle says what the service announces  *)
(* if it answered; and so does the gauge.                                  *)
SpotInvariant ==
    /\ tokenAge \in {NoToken} \cup 0..TokenTtl
    /\ spotGauge \in {Unset, 0, 1}
    /\ subject # "ec2" => ~reached
    /\ phase # "idle" /\ "ec2" \notin running /\ reached =>
          metadata.scheduled = (SpotCheck /\ notice)
    /\ phase = "dispatch" /\ exposing =>
          (spotGauge = 1 <=> "ec2" \in gathered /\ metadata.scheduled)

LEMMA SpotInitially == CycleInit => SpotInvariant
<1> SUFFICES ASSUME CycleInit PROVE SpotInvariant
    OBVIOUS
<1>1. tokenAge = NoToken /\ reached = FALSE /\ phase = "idle" /\ spotGauge = Unset
    BY DEF CycleInit, Ec2Init
<1> QED BY <1>1 DEF SpotInvariant

(* A token that is reused or new has not expired, so the service answers.  *)
LEMMA CollectedAnswer ==
    ASSUME SpotInvariant, CollectEc2
    PROVE  /\ tokenAge' \in {NoToken} \cup 0..TokenTtl
           /\ notice' = notice
           /\ reached' => metadata'.scheduled = (SpotCheck /\ notice)
<1>1. PICK up \in BOOLEAN :
        \/ /\ Reusable \/ up
           /\ tokenAge' = IF Reusable THEN tokenAge ELSE 0
           /\ \E answered \in IF up THEN Answers(tokenAge') ELSE {{}} :
                /\ metadata' = Collected(answered)
                /\ reached' = (up /\ ("spot" \in answered \/ Answers(tokenAge') = {{}}))
           /\ UNCHANGED notice
        \/ /\ ~Reusable /\ ~up
           /\ metadata' = NotEc2
           /\ reached' = FALSE
           /\ UNCHANGED <<tokenAge, notice>>
    BY DEF CollectEc2
<1>2. CASE ~Reusable /\ ~up
    <2>1. metadata' = NotEc2 /\ reached' = FALSE /\ tokenAge' = tokenAge /\ notice' = notice
        BY <1>1, <1>2
    <2> QED BY <2>1 DEF SpotInvariant
<1>3. CASE Reusable \/ up
    <2>1. PICK answered : /\ metadata' = Collected(answered)
                          /\ reached' = (up /\ ("spot" \in answered \/ Answers(tokenAge') = {{}}))
        BY <1>1, <1>3
    <2>2. tokenAge' = (IF Reusable THEN tokenAge ELSE 0) /\ notice' = notice
        BY <1>1, <1>3
    <2>3. tokenAge' \in 0..TokenTtl /\ tokenAge' < TokenTtl
        BY <2>2, TokenAssumption DEF SpotInvariant, Reusable, NoToken
    <2>4. Answers(tokenAge') # {{}}
        <3>1. Answers(tokenAge') = SUBSET Paths /\ Paths \in SUBSET Paths /\ Paths # {}
            BY <2>3 DEF Answers, Paths
        <3> QED BY <3>1
    <2>5. metadata'.scheduled = (SpotCheck /\ notice /\ "spot" \in answered)
        BY <2>1 DEF Collected
    <2> QED BY <2>1, <2>2, <2>3, <2>4, <2>5
<1> QED BY <1>2, <1>3

LEMMA SpotPreserved ==
    PoolInvariant /\ SpotInvariant /\ [CycleNext]_cycleVars => SpotInvariant'
<1> SUFFICES ASSUME PoolInvariant, SpotInvariant, [CycleNext]_cycleVars PROVE SpotInvariant'
    OBVIOUS
<1>1. CASE Machine
    <2>1. phase = "idle" /\ phase' = "idle" /\ subject' = subject
        BY <1>1 DEF Machine
    <2>2. UNCHANGED <<tokenAge, metadata, reached, spotGauge>>
        BY <1>1 DEF Machine, SpotNotice, ec2Vars, gaugeVars
    <2> QED BY <2>1, <2>2 DEF SpotInvariant
<1>2. CASE StartCycle
    <2>1. /\ phase' = "collect" /\ running' = {subject, "process"} /\ subject' = subject
          /\ UNCHANGED <<notice, metadata, reached, spotGauge>>
          /\ tokenAge' = IF tokenAge \in {NoToken, TokenTtl} THEN tokenAge ELSE tokenAge + 1
        BY <1>2 DEF StartCycle, TokenAges, gaugeVars
    <2>2. tokenAge' \in {NoToken} \cup 0..TokenTtl
        BY <2>1, TokenAssumption DEF SpotInvariant, NoToken
    <2> QED BY <2>1, <2>2 DEF SpotInvariant
<1>3. ASSUME NEW c \in running, ThreadEnds(c) PROVE SpotInvariant'
    <2>1. /\ phase' = phase /\ phase = "collect" /\ subject' = subject /\ running' = running \ {c}
          /\ spotGauge' = spotGauge
        BY <1>3 DEF ThreadEnds, gaugeVars, PoolInvariant
    <2>2. CASE c = "ec2"
        <3>1. CollectEc2 /\ subject = "ec2"
            BY <1>3, <2>2 DEF ThreadEnds, CollectOf, PoolInvariant, RateCollectors
        <3> QED BY <2>1, <3>1, CollectedAnswer DEF SpotInvariant
    <2>3. CASE c # "ec2"
        <3>1. UNCHANGED <<tokenAge, notice, metadata, reached>>
            BY <1>3, <2>3 DEF ThreadEnds, CollectOf, collectorVars, ec2Vars
        <3> QED BY <2>1, <2>3, <3>1 DEF SpotInvariant
    <2> QED BY <2>2, <2>3
<1>4. CASE Await \/ LeavePool \/ Dispatched \/ CycleFails
    <2>1. /\ UNCHANGED <<subject, running, tokenAge, notice, metadata, reached, spotGauge>>
          /\ phase' # "dispatch" /\ (phase' # "idle" => phase # "idle")
        BY <1>4 DEF Await, LeavePool, Dispatched, CycleFails, poolVars, gaugeVars, collectorVars, ec2Vars
    <2> QED BY <2>1 DEF SpotInvariant
<1>5. CASE Evaluated
    <2>1. /\ UNCHANGED <<subject, running, gathered, tokenAge, notice, metadata, reached>>
          /\ phase = "evaluate" /\ exposing' = exposing
        BY <1>5 DEF Evaluated, Expose, poolVars, gaugeVars, collectorVars, ec2Vars
    <2>2. CASE exposing
        <3>1. spotGauge' = SpotValue
            BY <1>5, <2>2 DEF Evaluated, Expose
        <3>2. SpotValue \in {0, 1} /\ (SpotValue = 1 <=> "ec2" \in gathered /\ metadata.scheduled)
            BY DEF SpotValue
        <3> QED BY <2>1, <3>1, <3>2 DEF SpotInvariant
    <2>3. CASE ~exposing
        <3>1. spotGauge' = spotGauge
            BY <1>5, <2>3 DEF Evaluated, gaugeVars
        <3> QED BY <2>1, <2>3, <3>1 DEF SpotInvariant
    <2> QED BY <2>2, <2>3
<1>6. CASE UNCHANGED cycleVars
    BY <1>6 DEF cycleVars, poolVars, gaugeVars, collectorVars, ec2Vars, SpotInvariant
<1>7. CASE Reload
    BY <1>7 DEF Reload, poolVars, gaugeVars, collectorVars, ec2Vars, SpotInvariant
<1> QED BY <1>1, <1>2, <1>3, <1>4, <1>5, <1>6, <1>7 DEF CycleNext

(***************************************************************************)
(* For every lifetime of a token, as long as it is not reused beyond it:   *)
(* what the service announces is in the snapshot whenever it answered, and *)
(* the gauge says what the snapshot says.                                  *)
(***************************************************************************)
THEOREM SpotShown == CycleSpec => []SpotNoticeShown
<1>1. PoolInvariant /\ SpotInvariant => SpotNoticeShown
    BY DEF PoolInvariant, SpotInvariant, SpotNoticeShown
<1>2. CycleInit => PoolInvariant /\ SpotInvariant
    BY PoolInitially, SpotInitially
<1>3. PoolInvariant /\ SpotInvariant /\ [CycleNext]_cycleVars => (PoolInvariant /\ SpotInvariant)'
    BY PoolPreserved, SpotPreserved
<1> QED BY <1>1, <1>2, <1>3, PTL DEF CycleSpec

-----------------------------------------------------------------------------
(* Kernel messages *)

Told(k) == backlog[k] \cup heard[k] \cup lost[k]

(* The collector's thread of this cycle is done and the loop has not seen  *)
(* its news yet.                                                           *)
NewsPending ==
    subject = "system_events" /\ phase \in {"collect", "evaluate"} /\ "system_events" \notin running

(* Sets of messages by kind; a first snapshot that is still to come finds  *)
(* everything empty.                                                       *)
EventsByKind ==
    /\ DOMAIN seen = Kinds /\ DOMAIN news = Kinds /\ DOMAIN shown = Kinds /\ DOMAIN backlog = Kinds
    /\ DOMAIN heard = Kinds /\ DOMAIN lost = Kinds
    /\ \A k \in Kinds : 0 \notin news[k]
    /\ first <=> backlog = NoBacklog
    /\ first => seen = Nothing /\ shown = Nothing /\ news = Nothing
                /\ heard = Nothing /\ lost = Nothing

(* What was printed or is marked as seen has been told, or is about to be. *)
NothingMissed ==
    \A k \in Kinds :
        /\ shown[k] \subseteq Told(k) \cup news[k]
        /\ \A e \in seen[k] : e[2] \in Told(k) \cup news[k]
        /\ ~NewsPending => news[k] \subseteq Told(k)

(* Unless something was forgotten, what was told is marked as seen, and    *)
(* what is about to be told is not told yet.                               *)
NothingRepeated ==
    ~forgotten =>
        /\ ~repeated
        /\ \A k \in Kinds :
            /\ \A m \in (Told(k) \cup news[k]) \ {0} : Key(m) \in seen[k]
            /\ NewsPending => news[k] \cap Told(k) = {}

EventsInvariant == EventsByKind /\ NothingMissed /\ NothingRepeated

LEMMA EventsInitially == CycleInit => EventsInvariant
<1> SUFFICES ASSUME CycleInit PROVE EventsInvariant
    OBVIOUS
<1>1. /\ seen = Nothing /\ news = Nothing /\ shown = Nothing /\ heard = Nothing /\ lost = Nothing
      /\ backlog = NoBacklog /\ first = TRUE /\ forgotten = FALSE /\ repeated = FALSE
      /\ phase = "idle"
    BY DEF CycleInit, EventsInit
<1>2. EventsByKind
    BY <1>1 DEF EventsByKind, Nothing, NoBacklog
<1>3. NothingMissed
    BY <1>1 DEF NothingMissed, Nothing, Told
<1>4. NothingRepeated
    BY <1>1 DEF NothingRepeated, Told, Nothing, NoBacklog, NewsPending
<1> QED BY <1>2, <1>3, <1>4 DEF EventsInvariant

(* A collection: what it printed is the backlog, was told before, or is    *)
(* new; what is new was not told before unless something was forgotten.    *)
LEMMA CollectionAddsNews ==
    ASSUME EventsInvariant, CollectEvents, ~NewsPending, NewsPending',
           UNCHANGED historyVars
    PROVE  EventsInvariant'
<1>1. UNCHANGED <<heard, lost, repeated>>
    BY DEF historyVars
<1>2. CASE /\ news' = Nothing /\ shown' = Nothing
           /\ UNCHANGED <<logged, steps, seen, first, forgotten, backlog>>
    <2>1. UNCHANGED <<steps, seen, first, forgotten, backlog>> /\ news' = Nothing /\ shown' = Nothing
        BY <1>2
    <2>2. EventsByKind'
        BY <1>1, <2>1 DEF EventsInvariant, EventsByKind, Nothing
    <2>3. \A k \in Kinds : Told(k)' = Told(k) /\ news'[k] = {} /\ shown'[k] = {} /\ seen'[k] = seen[k]
        BY <1>1, <2>1 DEF Told, Nothing
    <2>4. NothingMissed'
        BY <2>3 DEF EventsInvariant, NothingMissed
    <2>5. NothingRepeated'
        BY <1>1, <2>1, <2>3 DEF EventsInvariant, NothingRepeated, Key
    <2> QED BY <2>2, <2>4, <2>5 DEF EventsInvariant
<1>3. ASSUME NEW printed \in {Ring, {}}, NEW of, of = [dmesg |-> printed, oom |-> printed \cap Ooms],
             news' = [k \in Kinds |-> IF first THEN {} ELSE {m \in of[k] : Key(m) \notin seen[k]}],
             shown' = of, first' = FALSE,
             seen'["dmesg"] \subseteq Marked("dmesg", of.dmesg), seen'["oom"] \subseteq Marked("oom", of.oom),
             DOMAIN seen' = Kinds,
             forgotten' = (forgotten \/ \E k \in Kinds : seen'[k] # Marked(k, of[k])),
             backlog' = IF backlog = NoBacklog THEN of ELSE backlog,
             steps' = steps
      PROVE  EventsInvariant'
    <2>1. /\ DOMAIN of = Kinds /\ of["dmesg"] = printed
          /\ \A k \in Kinds : 0 \notin of[k]
        BY <1>3 DEF Ring, Kinds
    <2>2. of # NoBacklog
        BY <2>1 DEF NoBacklog, Kinds
    <2>3. \A k \in Kinds : /\ seen'[k] \subseteq seen[k] \cup {Key(m) : m \in of[k]}
                           /\ ~forgotten' => seen'[k] = seen[k] \cup {Key(m) : m \in of[k]}
        BY <1>3 DEF Marked, Kinds
    <2>4. \A k \in Kinds : news'[k] = IF first THEN {} ELSE {m \in of[k] : Key(m) \notin seen[k]}
        BY <1>3
    <2>0. \A m : Key(m)' = Key(m)
        BY <1>3 DEF Key
    <2>5. CASE first
        <3>1. backlog = NoBacklog /\ backlog' = of
            BY <1>3, <2>5 DEF EventsInvariant, EventsByKind
        <3>2. \A k \in Kinds : /\ Told(k)' = of[k] /\ news'[k] = {} /\ shown'[k] = of[k]
                               /\ seen[k] = {}
            BY <1>1, <1>3, <2>4, <2>5, <3>1 DEF EventsInvariant, EventsByKind, Told, Nothing
        <3>3. EventsByKind'
            BY <1>1, <1>3, <2>1, <2>2, <3>1 DEF EventsInvariant, EventsByKind
        <3>4. NothingMissed'
            BY <2>3, <3>2 DEF NothingMissed, Key
        <3>5. NothingRepeated'
            <4> SUFFICES ASSUME ~forgotten' PROVE NothingRepeated'
                BY DEF NothingRepeated
            <4>1. ~forgotten /\ ~repeated'
                BY <1>1, <1>3 DEF EventsInvariant, NothingRepeated
            <4>2. \A k \in Kinds : \A m \in of[k] : Key(m) \in seen'[k]
                BY <2>3
            <4> QED BY <2>0, <3>2, <4>1, <4>2 DEF NothingRepeated
        <3> QED BY <3>3, <3>4, <3>5 DEF EventsInvariant
    <2>6. CASE ~first
        <3>1. backlog # NoBacklog /\ backlog' = backlog
            BY <1>3, <2>6 DEF EventsInvariant, EventsByKind
        <3>2. \A k \in Kinds : /\ Told(k)' = Told(k) /\ shown'[k] = of[k]
                               /\ news'[k] = {m \in of[k] : Key(m) \notin seen[k]}
            BY <1>1, <1>3, <2>4, <2>6, <3>1 DEF Told
        <3>3. \A k \in Kinds : \A e \in seen[k] : e[2] \in Told(k)
            BY DEF EventsInvariant, NothingMissed
        <3>4. \A k \in Kinds : of[k] \subseteq Told(k) \cup news'[k]
            BY <3>2, <3>3 DEF Key
        <3>5. EventsByKind'
            BY <1>1, <1>3, <2>1, <2>6, <3>1, <3>2 DEF EventsInvariant, EventsByKind
        <3>6. NothingMissed'
            BY <2>3, <3>2, <3>3, <3>4 DEF NothingMissed, Key
        <3>7. NothingRepeated'
            <4> SUFFICES ASSUME ~forgotten' PROVE NothingRepeated'
                BY DEF NothingRepeated
            <4>1. ~forgotten
                BY <1>3
            <4>2. \A k \in Kinds : \A m \in (Told(k) \cup news'[k]) \ {0} : Key(m) \in seen'[k]
                BY <2>3, <3>2, <4>1 DEF EventsInvariant, NothingRepeated
            <4>3. \A k \in Kinds : news'[k] \cap Told(k) = {}
                BY <2>1, <3>2, <4>1 DEF EventsInvariant, NothingRepeated
            <4>4. ~repeated'
                BY <1>1, <4>1 DEF EventsInvariant, NothingRepeated
            <4> QED BY <2>0, <3>2, <4>2, <4>3, <4>4 DEF NothingRepeated
        <3> QED BY <3>5, <3>6, <3>7 DEF EventsInvariant
    <2> QED BY <2>5, <2>6
<1> QED
    <2>1. CASE /\ news' = Nothing /\ shown' = Nothing
               /\ UNCHANGED <<logged, steps, seen, first, forgotten, backlog>>
        BY <1>2, <2>1
    <2>2. CASE ~(/\ news' = Nothing /\ shown' = Nothing
                 /\ UNCHANGED <<logged, steps, seen, first, forgotten, backlog>>)
        <3>1. PICK printed \in {Ring, {}} :
                LET of == [dmesg |-> printed, oom |-> printed \cap Ooms]
                IN  /\ news' = [k \in Kinds |-> IF first THEN {} ELSE {m \in of[k] : Key(m) \notin seen[k]}]
                    /\ shown' = of
                    /\ \E D \in CutSets("dmesg", Marked("dmesg", of.dmesg)),
                          O \in CutSets("oom", Marked("oom", of.oom)) :
                        /\ seen' = [dmesg |-> D, oom |-> O]
                        /\ forgotten' = (forgotten \/ \E k \in Kinds : seen'[k] # Marked(k, of[k]))
                    /\ first' = FALSE
                    /\ backlog' = IF backlog = NoBacklog THEN of ELSE backlog
                    /\ UNCHANGED <<logged, steps>>
            BY <2>2 DEF CollectEvents, StillFirst
        <3> DEFINE of == [dmesg |-> printed, oom |-> printed \cap Ooms]
        <3>2. PICK D \in CutSets("dmesg", Marked("dmesg", of.dmesg)),
                   O \in CutSets("oom", Marked("oom", of.oom)) :
                /\ seen' = [dmesg |-> D, oom |-> O]
                /\ forgotten' = (forgotten \/ \E k \in Kinds : seen'[k] # Marked(k, of[k]))
            BY <3>1
        <3>3. D \subseteq Marked("dmesg", of.dmesg) /\ O \subseteq Marked("oom", of.oom)
            BY DEF CutSets
        <3>4. /\ seen'["dmesg"] \subseteq Marked("dmesg", of.dmesg)
              /\ seen'["oom"] \subseteq Marked("oom", of.oom)
              /\ DOMAIN seen' = Kinds
            BY <3>2, <3>3 DEF Kinds
        <3> HIDE DEF of
        <3>5. of = [dmesg |-> printed, oom |-> printed \cap Ooms]
            BY DEF of
        <3>6. news' = [k \in Kinds |-> IF first THEN {} ELSE {m \in of[k] : Key(m) \notin seen[k]}]
            BY <3>1 DEF of
        <3>7. shown' = of /\ backlog' = (IF backlog = NoBacklog THEN of ELSE backlog)
            BY <3>1 DEF of
        <3> QED BY <1>3, <3>1, <3>2, <3>4, <3>5, <3>6, <3>7
    <2> QED BY <2>1, <2>2

(* The loop evaluates the news, or their cycle fails: they are told.       *)
LEMMA NewsReach ==
    ASSUME EventsInvariant, NewsPending, ~NewsPending', NEW them \in BOOLEAN, EventsReach(them),
           UNCHANGED eventVars
    PROVE  EventsInvariant'
<1>1. UNCHANGED <<steps, seen, first, news, shown, forgotten, backlog>>
    BY DEF eventVars
<1>2. \A k \in Kinds : Told(k)' = Told(k) \cup news[k]
    BY <1>1 DEF EventsReach, Told
<1>3. repeated' = (repeated \/ \E k \in Kinds : news[k] \cap Told(k) # {})
    BY DEF EventsReach, Told
<1>4. EventsByKind'
    <2>1. DOMAIN heard' = Kinds /\ DOMAIN lost' = Kinds
        BY DEF EventsReach
    <2>2. first => heard' = Nothing /\ lost' = Nothing
        BY DEF EventsReach, EventsInvariant, EventsByKind, Nothing
    <2> QED BY <1>1, <2>1, <2>2 DEF EventsInvariant, EventsByKind
<1>5. NothingMissed'
    BY <1>1, <1>2 DEF EventsInvariant, NothingMissed
<1>6. NothingRepeated'
    <2> SUFFICES ASSUME ~forgotten PROVE NothingRepeated'
        BY <1>1 DEF NothingRepeated
    <2>1. ~repeated'
        BY <1>3 DEF EventsInvariant, NothingRepeated
    <2>2. \A k \in Kinds : \A m \in (Told(k)' \cup news'[k]) \ {0} : Key(m)' \in seen'[k]
        BY <1>1, <1>2 DEF EventsInvariant, NothingRepeated, Key
    <2> QED BY <2>1, <2>2 DEF NothingRepeated
<1> QED BY <1>4, <1>5, <1>6 DEF EventsInvariant

LEMMA EventsUnchanged ==
    ASSUME EventsInvariant, UNCHANGED <<eventVars, historyVars>>, NewsPending' => NewsPending,
           NewsPending /\ ~NewsPending' => \A k \in Kinds : news[k] \subseteq Told(k)
    PROVE  EventsInvariant'
<1>1. UNCHANGED <<steps, seen, first, news, shown, forgotten, backlog, heard, lost, repeated>>
    BY DEF eventVars, historyVars
<1>2. \A k \in Kinds : Told(k)' = Told(k)
    BY <1>1 DEF Told
<1>3. EventsByKind'
    BY <1>1 DEF EventsInvariant, EventsByKind
<1>4. NothingMissed'
    BY <1>1, <1>2 DEF EventsInvariant, NothingMissed
<1>5. NothingRepeated'
    BY <1>1, <1>2 DEF EventsInvariant, NothingRepeated, Key
<1> QED BY <1>3, <1>4, <1>5 DEF EventsInvariant

LEMMA EventsPreserved ==
    PoolInvariant /\ EventsInvariant /\ [CycleNext]_cycleVars => EventsInvariant'
<1> SUFFICES ASSUME PoolInvariant, EventsInvariant, [CycleNext]_cycleVars PROVE EventsInvariant'
    OBVIOUS
<1>1. CASE Machine
    <2>1. /\ ~NewsPending /\ ~NewsPending'
          /\ UNCHANGED historyVars
        BY <1>1 DEF Machine, NewsPending
    <2>2. CASE UNCHANGED eventVars
        BY <2>1, <2>2, EventsUnchanged
    <2>3. CASE KernelLogs
        <3>1. UNCHANGED <<steps, seen, first, news, shown, forgotten, backlog, heard, lost, repeated>>
            BY <2>1, <2>3 DEF KernelLogs, historyVars
        <3>2. \A k \in Kinds : Told(k)' = Told(k)
            BY <3>1 DEF Told
        <3> QED BY <2>1, <3>1, <3>2
                DEF EventsInvariant, EventsByKind, NothingMissed, NothingRepeated, Key
    <2>4. CASE ClockSet
        <3>1. /\ UNCHANGED <<seen, first, news, shown, backlog, heard, lost, repeated>>
              /\ forgotten' = TRUE
            BY <2>1, <2>4 DEF ClockSet, historyVars
        <3>2. \A k \in Kinds : Told(k)' = Told(k)
            BY <3>1 DEF Told
        <3> QED BY <2>1, <3>1, <3>2 DEF EventsInvariant, EventsByKind, NothingMissed, NothingRepeated
    <2> QED BY <1>1, <2>2, <2>3, <2>4 DEF Machine
<1>2. CASE StartCycle
    <2>1. ~NewsPending /\ ~NewsPending' /\ UNCHANGED <<eventVars, historyVars>>
        BY <1>2 DEF StartCycle, NewsPending
    <2> QED BY <2>1, EventsUnchanged
<1>3. ASSUME NEW c \in running, ThreadEnds(c) PROVE EventsInvariant'
    <2>1. /\ phase' = phase /\ phase = "collect" /\ subject' = subject /\ running' = running \ {c}
          /\ UNCHANGED historyVars
        BY <1>3 DEF ThreadEnds, PoolInvariant
    <2>2. CASE c = "system_events"
        <3>1. CollectEvents /\ subject = "system_events"
            BY <1>3, <2>2 DEF ThreadEnds, CollectOf, PoolInvariant, RateCollectors
        <3>2. ~NewsPending /\ NewsPending'
            BY <1>3, <2>1, <2>2, <3>1 DEF NewsPending
        <3> QED BY <2>1, <3>1, <3>2, CollectionAddsNews
    <2>3. CASE c # "system_events"
        <3>1. UNCHANGED eventVars
            BY <1>3, <2>3 DEF ThreadEnds, CollectOf, collectorVars
        <3>2. NewsPending' <=> NewsPending
            BY <2>1, <2>3 DEF NewsPending
        <3> QED BY <2>1, <3>1, <3>2, EventsUnchanged
    <2> QED BY <2>2, <2>3
<1>4. CASE Await \/ LeavePool \/ Dispatched
    <2>1. UNCHANGED <<eventVars, historyVars>> /\ (NewsPending' <=> NewsPending)
        BY <1>4 DEF Await, LeavePool, Dispatched, poolVars, collectorVars, NewsPending
    <2> QED BY <2>1, EventsUnchanged
<1>5. CASE CycleFails \/ Evaluated
    <2>1. /\ UNCHANGED eventVars /\ ~NewsPending' /\ phase = "evaluate"
          /\ subject # "system_events" => UNCHANGED historyVars
          /\ subject = "system_events" => \E them \in BOOLEAN : EventsReach(them)
        <3>1. CASE CycleFails
            BY <3>1 DEF CycleFails, collectorVars, NewsPending
        <3>2. CASE Evaluated
            <4>1. UNCHANGED eventVars /\ phase = "evaluate" /\ phase' = "dispatch"
                BY <3>2 DEF Evaluated, collectorVars
            <4>2. ("system_events" \in gathered) \in BOOLEAN
                OBVIOUS
            <4>3. subject = "system_events" => EventsReach("system_events" \in gathered)
                BY <3>2 DEF Evaluated
            <4>4. subject # "system_events" => UNCHANGED historyVars
                BY <3>2 DEF Evaluated
            <4>5. ~NewsPending'
                BY <4>1 DEF NewsPending
            <4> QED BY <4>1, <4>2, <4>3, <4>4, <4>5
        <3> QED BY <1>5, <3>1, <3>2
    <2>2. CASE subject = "system_events"
        <3>1. NewsPending
            BY <2>1, <2>2 DEF NewsPending, PoolInvariant
        <3> QED BY <2>1, <2>2, <3>1, NewsReach
    <2>3. CASE subject # "system_events"
        <3>1. ~NewsPending
            BY <2>3 DEF NewsPending
        <3> QED BY <2>1, <2>3, <3>1, EventsUnchanged
    <2> QED BY <2>2, <2>3
<1>6. CASE UNCHANGED cycleVars
    <2>1. UNCHANGED <<eventVars, historyVars>> /\ (NewsPending' <=> NewsPending)
        BY <1>6 DEF cycleVars, poolVars, collectorVars, NewsPending
    <2> QED BY <2>1, EventsUnchanged
<1>7. CASE Reload
    <2>1. UNCHANGED <<eventVars, historyVars>> /\ (NewsPending' <=> NewsPending)
        BY <1>7 DEF Reload, poolVars, collectorVars, NewsPending
    <2> QED BY <2>1, EventsUnchanged
<1> QED BY <1>1, <1>2, <1>3, <1>4, <1>5, <1>6, <1>7 DEF CycleNext

LEMMA EventsAlways == CycleSpec => [](PoolInvariant /\ EventsInvariant)
<1>1. CycleInit => PoolInvariant /\ EventsInvariant
    BY PoolInitially, EventsInitially
<1>2. PoolInvariant /\ EventsInvariant /\ [CycleNext]_cycleVars => (PoolInvariant /\ EventsInvariant)'
    BY PoolPreserved, EventsPreserved
<1> QED BY <1>1, <1>2, PTL DEF CycleSpec

(***************************************************************************)
(* For every ring buffer and every limit of the sets: unless a set was cut *)
(* or the clock set, no kernel message is new in two snapshots.            *)
(***************************************************************************)
THEOREM HeardOnce == CycleSpec => []EventsHeardOnce
<1>1. EventsInvariant => EventsHeardOnce
    BY DEF EventsInvariant, NothingRepeated, EventsHeardOnce
<1> QED BY <1>1, EventsAlways, PTL

(***************************************************************************)
(* What dmesg prints after the first collection is told, whichever         *)
(* collections fail, whatever is forgotten, and whoever misses a timeout.  *)
(***************************************************************************)
THEOREM NothingUntold == CycleSpec => []NoEventMissed
<1>1. EventsInvariant => NoEventMissed
    BY DEF EventsInvariant, NothingMissed, NewsPending, Told, NoEventMissed
<1> QED BY <1>1, EventsAlways, PTL

-----------------------------------------------------------------------------
(* Health checks with names of their own *)

(* Nothing was checked yet.                                                *)
Untouched ==
    /\ shownChecks = <<>>
    /\ \A i \in DOMAIN checks :
          /\ sinceChecked[checks[i].name] = Unchecked
          /\ failures[checks[i].name] = 0 /\ failedRun[i] = 0

(* The entries of i's name are i's, and its probe is due only until the    *)
(* collector's thread has run.                                             *)
OwnEntries(i) ==
    LET name == checks[i].name
    IN  /\ failures[name] = failedRun[i] /\ failedRun[i] \in 0..MaxFailures
        /\ lastResult[name] = [of |-> i, failures |-> failedRun[i]]
        /\ i \in DOMAIN shownChecks /\ shownChecks[i] = lastResult[name]
        /\ sinceChecked[name] \in 0..checks[i].interval
        /\ sinceChecked[name] = checks[i].interval => "app_health" \in running

HealthTables ==
    /\ checks \in CheckLists
    /\ DOMAIN sinceChecked = Names /\ DOMAIN failures = Names /\ DOMAIN lastResult = Names
    /\ DOMAIN failedRun = DOMAIN checks

Settled == subject = "app_health" /\ \A i \in DOMAIN checks : OwnEntries(i)

HealthInvariant == HealthTables /\ (DistinctNames => Untouched \/ Settled)

LEMMA ChecksAreTwo ==
    ASSUME HealthTables
    PROVE  /\ DOMAIN checks = 1..2
           /\ \A i \in DOMAIN checks : checks[i].name \in Names /\ checks[i].interval \in Nat \ {0}
BY ChecksAssumption DEF HealthTables, Names

LEMMA HealthInitially == CycleInit => HealthInvariant
<1> SUFFICES ASSUME CycleInit PROVE HealthInvariant
    OBVIOUS
<1>1. HealthTables
    BY DEF CycleInit, HealthInit, HealthTables
<1>2. Untouched
    BY <1>1, ChecksAreTwo DEF CycleInit, HealthInit, Untouched
<1> QED BY <1>1, <1>2 DEF HealthInvariant

(* Without mates a check counts its own failures. *)
LEMMA FailuresOfOne ==
    ASSUME HealthTables, DistinctNames, NEW i \in DOMAIN checks, NEW up, Due(i),
           failures[checks[i].name] \in 0..MaxFailures
    PROVE  FailuresAfter(i, up) = IF i \in up THEN 0 ELSE CountUp(failures[checks[i].name])
<1> DEFINE mates == {j \in DOMAIN checks : j <= i /\ checks[j].name = checks[i].name /\ Due(j)}
           good == mates \cap up
           counted == IF good = {} THEN failures[checks[i].name] + Cardinality(mates)
                      ELSE Cardinality({j \in mates : j > Max(good)})
<1>1. i \in Nat /\ MaxFailures \in Nat
    BY ChecksAreTwo, ChecksAssumption
<1>2. mates = {i}
    BY <1>1 DEF DistinctNames
<1>3. FailuresAfter(i, up) = Min({counted, MaxFailures})
    BY DEF FailuresAfter
<1>4. CASE i \in up
    <2>1. good = {i} /\ Max(good) = i
        BY <1>1, <1>2, <1>4 DEF Max
    <2>2. {j \in mates : j > Max(good)} = {}
        BY <1>1, <1>2, <2>1
    <2>3. counted = 0
        BY <2>1, <2>2, FS_EmptySet
    <2>4. Min({0, MaxFailures}) = 0
        BY <1>1 DEF Min
    <2> QED BY <1>3, <1>4, <2>3, <2>4
<1>5. CASE i \notin up
    <2>1. counted = failures[checks[i].name] + 1
        <3>1. good = {}
            BY <1>2, <1>5
        <3>2. Cardinality(mates) = 1
            BY <1>2, FS_Singleton
        <3> QED BY <3>1, <3>2
    <2>2. \A n \in 0..MaxFailures : Min({n + 1, MaxFailures}) = CountUp(n)
        BY <1>1 DEF Min, CountUp
    <2> QED BY <1>3, <1>5, <2>1, <2>2
<1> QED BY <1>4, <1>5

(* A collection of checks with names of their own. *)
LEMMA CollectionOwns ==
    ASSUME HealthTables, DistinctNames, Untouched \/ Settled, CollectHealth, subject = "app_health",
           NEW i \in DOMAIN checks
    PROVE  OwnEntries(i)'
<1> DEFINE due == {j \in DOMAIN checks : Due(j)}
           LastOf(n) == {j \in due : checks[j].name = n /\ \A k \in due : checks[k].name = n => k <= j}
           name == checks[i].name
<1>1. PICK up \in SUBSET due :
        LET fresh == [j \in due |-> [of |-> j, failures |-> FailuresAfter(j, up)]]
            cached == {j \in DOMAIN checks \ due : lastResult'[checks[j].name] # NoResult}
        IN  /\ sinceChecked' = [n \in Names |-> IF LastOf(n) # {} THEN 0 ELSE sinceChecked[n]]
            /\ failures' = [n \in Names |->
                    IF LastOf(n) # {} THEN FailuresAfter(Max(LastOf(n)), up) ELSE failures[n]]
            /\ lastResult' = [n \in Names |->
                    IF LastOf(n) # {} THEN fresh[Max(LastOf(n))] ELSE lastResult[n]]
            /\ shownChecks' = [j \in due \cup cached |->
                    IF j \in due THEN fresh[j] ELSE lastResult'[checks[j].name]]
            /\ failedRun' = [j \in DOMAIN checks |->
                    IF j \in up THEN 0 ELSE IF j \in due THEN CountUp(failedRun[j]) ELSE failedRun[j]]
            /\ UNCHANGED checks
    BY DEF CollectHealth
<1>2. /\ DOMAIN checks = 1..2 /\ name \in Names /\ checks[i].interval \in Nat \ {0}
      /\ MaxFailures \in Nat
    BY ChecksAreTwo, ChecksAssumption
<1>3. failures[name] = failedRun[i] /\ failedRun[i] \in 0..MaxFailures
    BY <1>2 DEF Untouched, Settled, OwnEntries
<1>4. CASE i \in due
    <2>1. LastOf(name) = {i}
        BY <1>2, <1>4 DEF DistinctNames
    <2>2. Max(LastOf(name)) = i
        BY <1>2, <2>1 DEF Max
    <2>3. FailuresAfter(i, up) = IF i \in up THEN 0 ELSE CountUp(failures[name])
        BY <1>3, <1>4, FailuresOfOne
    <2>4. failedRun'[i] = FailuresAfter(i, up) /\ failedRun'[i] \in 0..MaxFailures
        <3>1. failedRun'[i] = IF i \in up THEN 0 ELSE CountUp(failedRun[i])
            BY <1>1, <1>4
        <3>2. CountUp(failedRun[i]) \in 0..MaxFailures
            BY <1>2, <1>3 DEF CountUp
        <3> QED BY <1>2, <1>3, <2>3, <3>1, <3>2
    <2>5. /\ sinceChecked'[name] = 0
          /\ failures'[name] = FailuresAfter(i, up)
          /\ lastResult'[name] = [of |-> i, failures |-> FailuresAfter(i, up)]
        BY <1>1, <1>2, <1>4, <2>1, <2>2
    <2>6. i \in DOMAIN shownChecks' /\ shownChecks'[i] = [of |-> i, failures |-> FailuresAfter(i, up)]
        BY <1>1, <1>4
    <2>7. checks' = checks
        BY <1>1
    <2> QED BY <1>2, <2>4, <2>5, <2>6, <2>7 DEF OwnEntries
<1>5. CASE i \notin due
    <2>1. LastOf(name) = {}
        BY <1>5 DEF DistinctNames
    <2>2. Settled /\ sinceChecked[name] \in 0..(checks[i].interval - 1)
        BY <1>2, <1>5 DEF Untouched, Settled, OwnEntries, Due
    <2>3. /\ sinceChecked'[name] = sinceChecked[name] /\ failures'[name] = failures[name]
          /\ lastResult'[name] = lastResult[name] /\ failedRun'[i] = failedRun[i]
          /\ checks' = checks
        BY <1>1, <1>2, <1>5, <2>1
    <2>4. lastResult'[name] # NoResult
        BY <1>2, <2>2, <2>3 DEF Settled, OwnEntries, NoResult
    <2>5. i \in DOMAIN shownChecks' /\ shownChecks'[i] = lastResult'[name]
        BY <1>1, <1>5, <2>4
    <2> QED BY <1>2, <1>3, <2>2, <2>3, <2>5 DEF Settled, OwnEntries
<1> QED BY <1>4, <1>5

LEMMA HealthUnchanged ==
    ASSUME HealthInvariant, UNCHANGED <<subject, healthVars>>,
           "app_health" \in running => "app_health" \in running'
    PROVE  HealthInvariant'
BY DEF HealthInvariant, HealthTables, DistinctNames, Untouched, Settled, OwnEntries, healthVars

LEMMA HealthPreserved ==
    PoolInvariant /\ HealthInvariant /\ [CycleNext]_cycleVars => HealthInvariant'
<1> SUFFICES ASSUME PoolInvariant, HealthInvariant, [CycleNext]_cycleVars PROVE HealthInvariant'
    OBVIOUS
<1>1. CASE Machine
    BY <1>1, HealthUnchanged DEF Machine, poolVars, healthVars, KernelLogs, ClockSet, OomKill, SpotNotice
<1>2. CASE StartCycle
    <2>1. /\ HealthAges /\ subject' = subject /\ "app_health" \notin running
          /\ running' = {subject, "process"}
        BY <1>2 DEF StartCycle, PoolInvariant
    <2>2. HealthTables' /\ (DistinctNames' => DistinctNames)
        BY <2>1 DEF HealthAges, HealthInvariant, HealthTables, DistinctNames
    <2>3. ASSUME Untouched PROVE Untouched'
        BY <2>1, <2>3, ChecksAreTwo DEF HealthAges, HealthInvariant, Untouched
    <2>4. ASSUME Settled PROVE Settled'
        <3>1. SUFFICES ASSUME NEW i \in DOMAIN checks PROVE OwnEntries(i)'
            BY <2>1, <2>4 DEF HealthAges, Settled
        <3>2. checks[i].name \in Names /\ checks[i].interval \in Nat \ {0}
            BY ChecksAreTwo DEF HealthInvariant
        <3>3. /\ OwnEntries(i) /\ sinceChecked[checks[i].name] < checks[i].interval
              /\ "app_health" \in running'
            BY <2>1, <2>4, <3>2 DEF Settled, OwnEntries
        <3>4. sinceChecked'[checks[i].name] \in
                {sinceChecked[checks[i].name], sinceChecked[checks[i].name] + 1}
            BY <2>1, <3>2 DEF HealthAges
        <3> QED BY <2>1, <3>2, <3>3, <3>4 DEF HealthAges, OwnEntries
    <2> QED BY <2>2, <2>3, <2>4 DEF HealthInvariant
<1>3. ASSUME NEW c \in running, ThreadEnds(c) PROVE HealthInvariant'
    <2>1. CASE c = "app_health"
        <3>1. CollectHealth /\ subject = "app_health" /\ subject' = subject
            BY <1>3, <2>1 DEF ThreadEnds, CollectOf, RateCollectors, PoolInvariant
        <3>2. HealthTables' /\ checks' = checks
            BY <3>1 DEF CollectHealth, HealthInvariant, HealthTables
        <3>3. ASSUME DistinctNames PROVE \A i \in DOMAIN checks : OwnEntries(i)'
            BY <3>1, <3>3, CollectionOwns DEF HealthInvariant
        <3> QED BY <3>1, <3>2, <3>3 DEF HealthInvariant, Settled, DistinctNames
    <2>2. CASE c # "app_health"
        BY <1>3, <2>2, HealthUnchanged DEF ThreadEnds, CollectOf, collectorVars
    <2> QED BY <2>1, <2>2
<1>4. CASE Reload \/ Await \/ LeavePool \/ CycleFails \/ Evaluated \/ Dispatched
    BY <1>4, HealthUnchanged DEF Reload, Await, LeavePool, CycleFails, Evaluated, Dispatched, poolVars, collectorVars
<1>5. CASE UNCHANGED cycleVars
    BY <1>5, HealthUnchanged DEF cycleVars, poolVars, collectorVars
<1> QED BY <1>1, <1>2, <1>3, <1>4, <1>5 DEF CycleNext

(***************************************************************************)
(* If the checks' names differ, every snapshot shows every check, with its *)
(* own result, which is not older than the check's interval, and with the  *)
(* number of its probes that failed in a row.                              *)
(***************************************************************************)
THEOREM OwnHealth == CycleSpec => []HealthShownIsOwn
<1>1. HealthInvariant => HealthShownIsOwn
    BY ChecksAreTwo DEF HealthInvariant, Untouched, Settled, OwnEntries, HealthShownIsOwn
<1> QED BY <1>1, HealthInitially, HealthPreserved, PoolInitially, PoolPreserved, PTL DEF CycleSpec

-----------------------------------------------------------------------------
(***************************************************************************)
(* Types, collector by collector.  What a thread leaves behind is typed    *)
(* whenever it ends, also when the loop has long gone on without it.       *)
(***************************************************************************)

(* Messages: nothing is remembered or told that was not logged.            *)
LoggedOnly ==
    /\ EventsTypeOK
    /\ DOMAIN heard = Kinds /\ DOMAIN lost = Kinds
    /\ \A k \in Kinds : heard[k] \cup lost[k] \subseteq 1..logged
    /\ repeated \in BOOLEAN

LEMMA RecordByKind ==
    ASSUME NEW T, NEW D \in SUBSET T, NEW O \in SUBSET T
    PROVE  /\ [dmesg |-> D, oom |-> O] \in [Kinds -> SUBSET T]
           /\ [dmesg |-> D, oom |-> O]["dmesg"] = D /\ [dmesg |-> D, oom |-> O]["oom"] = O
BY DEF Kinds

LEMMA LoggedInitially == CycleInit => LoggedOnly
<1> SUFFICES ASSUME CycleInit PROVE LoggedOnly
    OBVIOUS
<1>1. /\ logged = 0 /\ steps = 0 /\ seen = Nothing /\ news = Nothing /\ shown = Nothing /\ heard = Nothing
      /\ lost = Nothing /\ backlog = NoBacklog /\ first = TRUE /\ forgotten = FALSE /\ repeated = FALSE
    BY DEF CycleInit, EventsInit
<1>2. 0 \in 0..Lines /\ 0 \in 0..ClockSteps
    BY EventsAssumption
<1>3. \A S : Nothing \in [Kinds -> SUBSET S]
    BY DEF Nothing
<1> QED BY <1>1, <1>2, <1>3 DEF LoggedOnly, EventsTypeOK, Nothing

LEMMA CollectionLogged ==
    ASSUME LoggedOnly, CollectEvents, UNCHANGED historyVars
    PROVE  LoggedOnly'
<1>1. UNCHANGED <<heard, lost, repeated>>
    BY DEF historyVars
<1>2. CASE /\ news' = Nothing /\ shown' = Nothing
           /\ UNCHANGED <<logged, steps, seen, first, forgotten, backlog>>
    <2>1. \A S : Nothing \in [Kinds -> SUBSET S]
        BY DEF Nothing
    <2> QED BY <1>1, <1>2, <2>1 DEF LoggedOnly, EventsTypeOK
<1>3. ASSUME NEW printed \in {Ring, {}},
             LET of == [dmesg |-> printed, oom |-> printed \cap Ooms]
             IN  /\ news' = [k \in Kinds |-> IF first THEN {} ELSE {m \in of[k] : Key(m) \notin seen[k]}]
                 /\ shown' = of
                 /\ \E D \in CutSets("dmesg", Marked("dmesg", of.dmesg)),
                       O \in CutSets("oom", Marked("oom", of.oom)) :
                     /\ seen' = [dmesg |-> D, oom |-> O]
                     /\ forgotten' = (forgotten \/ \E k \in Kinds : seen'[k] # Marked(k, of[k]))
                 /\ first' = StillFirst(printed)
                 /\ backlog' = IF backlog = NoBacklog THEN of ELSE backlog
                 /\ UNCHANGED <<logged, steps>>
      PROVE  LoggedOnly'
    <2> DEFINE of == [dmesg |-> printed, oom |-> printed \cap Ooms]
               keys == (0..steps) \X (1..logged)
    <2>1. /\ news' = [k \in Kinds |-> IF first THEN {} ELSE {m \in of[k] : Key(m) \notin seen[k]}]
          /\ shown' = of /\ first' = StillFirst(printed)
          /\ backlog' = IF backlog = NoBacklog THEN of ELSE backlog
          /\ UNCHANGED <<logged, steps>>
        BY <1>3
    <2>2. printed \in SUBSET (1..logged)
        BY DEF Ring
    <2>3. of \in [Kinds -> SUBSET (1..logged)] /\ of.dmesg = printed /\ of.oom = printed \cap Ooms
        <3>1. printed \cap Ooms \in SUBSET (1..logged)
            BY <2>2
        <3> QED BY <2>2, <3>1, RecordByKind
    <2>4. PICK D \in CutSets("dmesg", Marked("dmesg", printed)), O \in CutSets("oom", Marked("oom", printed \cap Ooms)) :
            /\ seen' = [dmesg |-> D, oom |-> O]
            /\ forgotten' = (forgotten \/ \E k \in Kinds : seen'[k] # Marked(k, of[k]))
        BY <1>3
    <2>5. \A k \in Kinds, S \in SUBSET printed : Marked(k, S) \subseteq keys
        <3> SUFFICES ASSUME NEW k \in Kinds, NEW S \in SUBSET printed, NEW e \in Marked(k, S)
                     PROVE  e \in keys
            OBVIOUS
        <3>1. CASE e \in seen[k]
            BY <3>1 DEF LoggedOnly, EventsTypeOK
        <3>2. ASSUME NEW m \in S, e = Key(m) PROVE e \in keys
            <4>1. m \in 1..logged /\ steps \in 0..steps
                BY <2>2 DEF LoggedOnly, EventsTypeOK
            <4> QED BY <3>2, <4>1 DEF Key
        <3> QED BY <3>1, <3>2 DEF Marked
    <2>6. D \in SUBSET keys /\ O \in SUBSET keys
        BY <2>4, <2>5 DEF CutSets, Kinds
    <2> HIDE DEF of
    <2>7. forgotten' \in BOOLEAN
        BY <2>4, Zenon DEF LoggedOnly, EventsTypeOK
    <2>8. seen' \in [Kinds -> SUBSET keys]
        <3> HIDE DEF keys
        <3> QED BY <2>4, <2>6, RecordByKind
    <2>9. news' \in [Kinds -> SUBSET (1..logged)]
        BY <2>1, <2>3
    <2> QED BY <1>1, <2>1, <2>3, <2>7, <2>8, <2>9 DEF LoggedOnly, EventsTypeOK, StillFirst
<1> QED BY <1>2, <1>3 DEF CollectEvents

LEMMA ReachedLogged ==
    ASSUME LoggedOnly, NEW them \in BOOLEAN, EventsReach(them), UNCHANGED eventVars
    PROVE  LoggedOnly'
<1>1. UNCHANGED <<logged, steps, seen, first, news, shown, forgotten, backlog>>
    BY DEF eventVars
<1>2. \A k \in Kinds : news[k] \subseteq 1..logged
    BY DEF LoggedOnly, EventsTypeOK
<1>3. DOMAIN heard' = Kinds /\ DOMAIN lost' = Kinds /\ \A k \in Kinds : heard'[k] \cup lost'[k] \subseteq 1..logged
    BY <1>2 DEF EventsReach, LoggedOnly
<1>4. repeated' \in BOOLEAN
    BY Zenon DEF EventsReach, LoggedOnly
<1> QED BY <1>1, <1>3, <1>4 DEF LoggedOnly, EventsTypeOK

(* What a cycle does to the messages.                                      *)
LEMMA EventSteps ==
    ASSUME [CycleNext]_cycleVars
    PROVE  \/ (KernelLogs \/ ClockSet) /\ UNCHANGED historyVars
           \/ CollectEvents /\ UNCHANGED historyVars
           \/ (\E them \in BOOLEAN : EventsReach(them)) /\ UNCHANGED eventVars
           \/ UNCHANGED <<eventVars, historyVars>>
<1>1. CASE Machine
    BY <1>1 DEF Machine
<1>2. CASE StartCycle \/ Reload \/ Await \/ LeavePool \/ Dispatched \/ UNCHANGED cycleVars
    BY <1>2 DEF StartCycle, Reload, Await, LeavePool, Dispatched, cycleVars, collectorVars
<1>3. ASSUME NEW c \in running, ThreadEnds(c)
      PROVE  (CollectEvents \/ UNCHANGED eventVars) /\ UNCHANGED historyVars
    BY <1>3 DEF ThreadEnds, CollectOf, collectorVars
<1>4. CASE CycleFails
    BY <1>4 DEF CycleFails, collectorVars
<1>5. CASE Evaluated
    <2>1. ("system_events" \in gathered) \in BOOLEAN
        OBVIOUS
    <2> QED BY <1>5, <2>1 DEF Evaluated, collectorVars
<1> QED BY <1>1, <1>2, <1>3, <1>4, <1>5 DEF CycleNext

LEMMA LoggedPreserved == LoggedOnly /\ [CycleNext]_cycleVars => LoggedOnly'
<1> SUFFICES ASSUME LoggedOnly, [CycleNext]_cycleVars PROVE LoggedOnly'
    OBVIOUS
<1>1. CASE KernelLogs /\ UNCHANGED historyVars
    <2>1. logged' \in 0..Lines /\ 1..logged \subseteq 1..logged'
        BY <1>1, EventsAssumption DEF KernelLogs, LoggedOnly, EventsTypeOK
    <2> QED BY <1>1, <2>1 DEF KernelLogs, LoggedOnly, EventsTypeOK, historyVars
<1>2. CASE ClockSet /\ UNCHANGED historyVars
    <2>1. steps' \in 0..ClockSteps /\ 0..steps \subseteq 0..steps'
        BY <1>2, EventsAssumption DEF ClockSet, LoggedOnly, EventsTypeOK
    <2> QED BY <1>2, <2>1 DEF ClockSet, LoggedOnly, EventsTypeOK, historyVars
<1>3. CASE UNCHANGED <<eventVars, historyVars>>
    BY <1>3 DEF eventVars, historyVars, LoggedOnly, EventsTypeOK
<1> QED BY <1>1, <1>2, <1>3, EventSteps, CollectionLogged, ReachedLogged

-----------------------------------------------------------------------------
(* Counters *)
LEMMA CountersInitially == CycleInit => CountersTypeOK
<1> SUFFICES ASSUME CycleInit PROVE CountersTypeOK
    OBVIOUS
<1>1. 0 \in 0..MaxKills /\ 0 \in 0..MaxAge
    BY CountersAssumption
<1>2. /\ kills = 0 /\ prevKills = 0 /\ newKills = 0 /\ firstKills = 0
      /\ killsMisread = FALSE /\ misread = FALSE
      /\ countersAge = Never /\ snmpAge = Never /\ timeAge = Never
      /\ span = NoRate /\ tcpSpan = NoRate
    BY DEF CycleInit, CountersInit
<1>3. NoRate \in Ages \X Ages /\ Never \in Ages /\ 0 \in 0..0
    BY <1>1 DEF NoRate, Ages
<1> QED BY <1>1, <1>2, <1>3 DEF CountersTypeOK

LEMMA CountersPreserved ==
    PoolInvariant /\ CountersTypeOK /\ [CycleNext]_cycleVars => CountersTypeOK'
<1> SUFFICES ASSUME CountersTypeOK, CountersStep(subject) \/ UNCHANGED <<killVars, rateVars>>
             PROVE  CountersTypeOK'
    BY CountersSteps
<1> USE DEF CountersTypeOK
<1>1. /\ MaxKills \in Nat /\ MaxAge \in Nat
      /\ 0 \in Ages /\ Never \in Ages /\ NoRate \in Ages \X Ages
    BY CountersAssumption DEF Ages, NoRate
<1>2. CASE OomKill
    BY <1>1, <1>2 DEF OomKill, rateVars
<1>3. CASE CountersAge
    <2>1. \A age \in Ages : Older(age) \in Ages
        BY <1>1 DEF Older, Never, Ages
    <2> QED BY <1>1, <1>3, <2>1 DEF CountersAge, NoRates, killVars
<1>4. ASSUME NEW c, CollectCounters(c) PROVE CountersTypeOK'
    <2>1. /\ countersAge' \in Ages /\ snmpAge' \in Ages /\ timeAge' \in Ages
          /\ span' \in Ages \X Ages /\ tcpSpan' \in Ages \X Ages /\ misread' \in BOOLEAN
        <3>1. Remembered \in Ages \X Ages
            BY <1>1 DEF Remembered
        <3>2. CASE CountersRead /\ ReadSnmp
            <4>1. PICK answered \in BOOLEAN :
                    /\ tcpSpan' = IF answered /\ timeAge # Never THEN <<snmpAge, timeAge>> ELSE NoRate
                    /\ snmpAge' = IF answered THEN 0 ELSE Never
                    /\ misread' = ~answered
                BY <3>2 DEF ReadSnmp
            <4> QED BY <1>1, <3>1, <3>2, <4>1 DEF CountersRead
        <3>3. CASE CountersRead /\ NoSnmp
            BY <1>1, <3>1, <3>3 DEF CountersRead, NoSnmp
        <3>4. CASE SnapshotFails \/ IoFails
            BY <1>1, <3>4 DEF SnapshotFails, IoFails, NoRates
        <3> QED BY <1>4, <3>2, <3>3, <3>4 DEF CollectCounters
    <2>2. CASE CountKills
        <3>1. PICK read \in {kills, 0} :
                /\ newKills' = IF timeAge = Never THEN 0 ELSE PositivePart(read - prevKills)
                /\ firstKills' = IF timeAge = Never THEN read ELSE firstKills
                /\ prevKills' = read
                /\ killsMisread' = (killsMisread \/ read # kills)
                /\ UNCHANGED kills
            BY <2>2 DEF CountKills, NextPrev
        <3>2. read \in 0..kills /\ newKills' \in 0..kills
            BY <3>1 DEF PositivePart
        <3>3. killsMisread' \in BOOLEAN
            BY <3>1, Zenon
        <3> QED BY <2>1, <3>1, <3>2, <3>3
    <2>3. CASE newKills' \in {0, newKills} /\ UNCHANGED <<kills, prevKills, killsMisread, firstKills>>
        <3>1. newKills' \in 0..kills
            BY <2>3
        <3> QED BY <2>1, <2>3, <3>1
    <2> QED BY <1>4, <2>2, <2>3 DEF CollectCounters, killVars
<1>5. CASE UNCHANGED <<killVars, rateVars>>
    BY <1>5 DEF killVars, rateVars
<1> QED BY <1>2, <1>3, <1>4, <1>5 DEF CountersStep

-----------------------------------------------------------------------------
(* Health checks *)
ResultOK(r) == r.of \in {0} \cup DOMAIN checks /\ r.failures \in 0..MaxFailures

HealthTyped == HealthTypeOK /\ DOMAIN lastResult = Names

(* Failures are counted by check, and there are two.                        *)
LEMMA FailuresTyped ==
    ASSUME HealthTyped, NEW i \in DOMAIN checks, NEW up
    PROVE  FailuresAfter(i, up) \in 0..MaxFailures
<1> DEFINE mates == {j \in DOMAIN checks : j <= i /\ checks[j].name = checks[i].name /\ Due(j)}
           good == mates \cap up
           counted == IF good = {} THEN failures[checks[i].name] + Cardinality(mates)
                      ELSE Cardinality({j \in mates : j > Max(good)})
<1>1. DOMAIN checks = 1..2 /\ checks[i].name \in Names /\ MaxFailures \in Nat
    BY ChecksAssumption DEF HealthTyped, HealthTypeOK, Names
<1>2. IsFiniteSet(1..2)
    <2>1. 1 \in Int /\ 2 \in Int
        OBVIOUS
    <2> QED BY <2>1, FS_Interval, Zenon
<1>3. \A S : S \subseteq 1..2 => Cardinality(S) \in Nat
    BY <1>2, FS_Subset, FS_CardinalityType
<1>4. mates \subseteq 1..2 /\ {j \in mates : j > Max(good)} \subseteq 1..2
    BY <1>1
<1>5. failures[checks[i].name] \in Nat
    BY <1>1 DEF HealthTyped, HealthTypeOK
<1>6. FailuresAfter(i, up) = Min({counted, MaxFailures})
    BY DEF FailuresAfter
<1> HIDE DEF mates
<1>7. Cardinality(mates) \in Nat /\ Cardinality({j \in mates : j > Max(good)}) \in Nat
    BY <1>3, <1>4
<1>8. counted \in Nat
    BY <1>5, <1>7
<1> HIDE DEF counted
<1>9. Min({counted, MaxFailures}) \in 0..MaxFailures
    <2>1. \A x \in Nat : Min({x, MaxFailures}) = IF x <= MaxFailures THEN x ELSE MaxFailures
        BY <1>1 DEF Min
    <2> QED BY <1>1, <1>8, <2>1
<1> QED BY <1>6, <1>9

LEMMA HealthTypedInitially == CycleInit => HealthTyped
<1> SUFFICES ASSUME CycleInit PROVE HealthTyped
    OBVIOUS
<1>1. 0 \in 0..MaxFailures
    BY ChecksAssumption
<1>2. /\ checks \in CheckLists /\ DOMAIN checks = 1..2
      /\ sinceChecked = [n \in Names |-> Unchecked] /\ failures = [n \in Names |-> 0]
      /\ lastResult = [n \in Names |-> NoResult] /\ shownChecks = <<>> /\ DOMAIN shownChecks = {}
      /\ failedRun = [i \in DOMAIN checks |-> 0]
    <2>1. checks \in CheckLists /\ shownChecks = <<>>
        BY DEF CycleInit, HealthInit
    <2>2. DOMAIN checks = 1..2 /\ DOMAIN shownChecks = {}
        BY <2>1, ChecksAssumption
    <2> QED BY <2>1, <2>2 DEF CycleInit, HealthInit
<1>3. NoResult.of = 0 /\ NoResult.failures = 0
    BY DEF NoResult
<1> QED BY <1>1, <1>2, <1>3 DEF HealthTyped, HealthTypeOK

LEMMA CollectionHealthTyped ==
    ASSUME HealthTyped, CollectHealth
    PROVE  HealthTyped'
<1> DEFINE due == {j \in DOMAIN checks : Due(j)}
           LastOf(n) == {j \in due : checks[j].name = n /\ \A k \in due : checks[k].name = n => k <= j}
<1>1. PICK up \in SUBSET due :
        LET fresh == [j \in due |-> [of |-> j, failures |-> FailuresAfter(j, up)]]
            cached == {j \in DOMAIN checks \ due : lastResult'[checks[j].name] # NoResult}
        IN  /\ sinceChecked' = [n \in Names |-> IF LastOf(n) # {} THEN 0 ELSE sinceChecked[n]]
            /\ failures' = [n \in Names |->
                    IF LastOf(n) # {} THEN FailuresAfter(Max(LastOf(n)), up) ELSE failures[n]]
            /\ lastResult' = [n \in Names |->
                    IF LastOf(n) # {} THEN fresh[Max(LastOf(n))] ELSE lastResult[n]]
            /\ shownChecks' = [j \in due \cup cached |->
                    IF j \in due THEN fresh[j] ELSE lastResult'[checks[j].name]]
            /\ failedRun' = [j \in DOMAIN checks |->
                    IF j \in up THEN 0 ELSE IF j \in due THEN CountUp(failedRun[j]) ELSE failedRun[j]]
            /\ UNCHANGED checks
    BY DEF CollectHealth
<1>2. /\ DOMAIN checks = 1..2 /\ MaxFailures \in Nat /\ Longest \in Nat /\ checks \in CheckLists
    BY ChecksAssumption DEF HealthTyped, HealthTypeOK
<1>3. \A n \in Names : LastOf(n) # {} => Max(LastOf(n)) \in due
    <2> SUFFICES ASSUME NEW n \in Names, NEW j \in LastOf(n) PROVE Max(LastOf(n)) \in due
        OBVIOUS
    <2>1. \A k \in LastOf(n) : k <= j
        OBVIOUS
    <2>2. Max(LastOf(n)) \in LastOf(n)
        BY <2>1 DEF Max
    <2> QED BY <2>2
<1>4. \A j \in DOMAIN checks : FailuresAfter(j, up) \in 0..MaxFailures
    BY FailuresTyped
<1>5. sinceChecked' \in [Names -> {Unchecked} \cup 0..Longest]
    <2>1. sinceChecked' = [n \in Names |-> IF LastOf(n) # {} THEN 0 ELSE sinceChecked[n]]
        BY <1>1
    <2>3. 0 \in 0..Longest
        BY <1>2
    <2>2. sinceChecked \in [Names -> {Unchecked} \cup 0..Longest]
        BY DEF HealthTyped, HealthTypeOK
    <2> HIDE DEF LastOf
    <2> QED BY <2>1, <2>2, <2>3
<1>6. failures' \in [Names -> 0..MaxFailures]
    <2>1. \A n \in Names : LastOf(n) # {} => FailuresAfter(Max(LastOf(n)), up) \in 0..MaxFailures
        BY <1>3, <1>4
    <2> QED BY <1>1, <2>1 DEF HealthTyped, HealthTypeOK
<1>7. DOMAIN lastResult' = Names
      /\ \A n \in Names : lastResult'[n].of \in {0} \cup DOMAIN checks /\ lastResult'[n].failures \in 0..MaxFailures
    <2> DEFINE fresh == [j \in due |-> [of |-> j, failures |-> FailuresAfter(j, up)]]
    <2>1. lastResult' = [n \in Names |-> IF LastOf(n) # {} THEN fresh[Max(LastOf(n))] ELSE lastResult[n]]
        BY <1>1
    <2>2. \A j \in due : fresh[j].of \in DOMAIN checks /\ fresh[j].failures \in 0..MaxFailures
        BY <1>4
    <2> HIDE DEF fresh, LastOf
    <2> QED BY <1>3, <2>1, <2>2 DEF HealthTyped, HealthTypeOK
<1>8. DOMAIN shownChecks' \subseteq DOMAIN checks
    BY <1>1
<1>9. failedRun' \in [DOMAIN checks -> 0..MaxFailures]
    <2>1. \A n \in 0..MaxFailures : CountUp(n) \in 0..MaxFailures
        BY <1>2 DEF CountUp
    <2>2. failedRun' = [j \in DOMAIN checks |->
                    IF j \in up THEN 0 ELSE IF j \in due THEN CountUp(failedRun[j]) ELSE failedRun[j]]
        BY <1>1
    <2>3. failedRun \in [DOMAIN checks -> 0..MaxFailures] /\ 0 \in 0..MaxFailures
        BY <1>2 DEF HealthTyped, HealthTypeOK
    <2> HIDE DEF due
    <2> QED BY <2>1, <2>2, <2>3
<1> QED BY <1>1, <1>2, <1>5, <1>6, <1>7, <1>8, <1>9 DEF HealthTyped, HealthTypeOK

LEMMA HealthTypedPreserved == HealthTyped /\ [CycleNext]_cycleVars => HealthTyped'
<1> SUFFICES ASSUME HealthTyped, [CycleNext]_cycleVars PROVE HealthTyped'
    OBVIOUS
<1>1. CASE UNCHANGED healthVars
    BY <1>1 DEF healthVars, HealthTyped, HealthTypeOK
<1>2. CASE HealthAges
    <2>1. sinceChecked' \in [Names -> {Unchecked} \cup 0..Longest]
        BY <1>2, ChecksAssumption DEF HealthAges, HealthTyped, HealthTypeOK, Unchecked
    <2> QED BY <1>2, <2>1 DEF HealthAges, HealthTyped, HealthTypeOK
<1>3. CollectHealth \/ HealthAges \/ UNCHANGED healthVars
    <2>1. CASE Machine \/ StartCycle
        BY <2>1 DEF Machine, StartCycle, healthVars, KernelLogs, ClockSet, OomKill, SpotNotice
    <2>2. ASSUME NEW c \in running, ThreadEnds(c) PROVE CollectHealth \/ UNCHANGED healthVars
        BY <2>2 DEF ThreadEnds, CollectOf, collectorVars
    <2>3. CASE Reload \/ Await \/ LeavePool \/ CycleFails \/ Evaluated \/ Dispatched \/ UNCHANGED cycleVars
        BY <2>3 DEF Reload, Await, LeavePool, CycleFails, Evaluated, Dispatched, collectorVars, cycleVars
    <2> QED BY <2>1, <2>2, <2>3 DEF CycleNext
<1> QED BY <1>1, <1>2, <1>3, CollectionHealthTyped

-----------------------------------------------------------------------------
(* Metadata and gauges *)
CycleTyped ==
    /\ Ec2TypeOK
    /\ subject \in Subjects
    /\ gathered \subseteq {subject, "process"} /\ position \in 1..3
    /\ config \in Configs /\ cfg \in Configs
    /\ exposing \in BOOLEAN /\ labels \in Labels

LEMMA CycleTypedInitially == CycleInit => CycleTyped
<1> SUFFICES ASSUME CycleInit PROVE CycleTyped
    OBVIOUS
<1>1. Ec2TypeOK
    BY DEF CycleInit, Ec2Init, Ec2TypeOK, NotEc2, InstanceIds, Accounts
<1>2. /\ subject \in Subjects /\ gathered = {} /\ position = 1 /\ labels = NoLabels
      /\ config \in Configs /\ cfg \in Configs /\ exposing \in BOOLEAN
    BY DEF CycleInit
<1>3. gathered \subseteq {subject, "process"} /\ position \in 1..3
    BY <1>2
<1>4. labels \in Labels
    BY <1>2 DEF Labels, NoLabels, InstanceIds, Accounts
<1> QED BY <1>1, <1>2, <1>3, <1>4 DEF CycleTyped

LEMMA Ec2Preserved == Ec2TypeOK /\ [CycleNext]_cycleVars => Ec2TypeOK'
<1> SUFFICES ASSUME Ec2TypeOK, [CycleNext]_cycleVars PROVE Ec2TypeOK'
    OBVIOUS
<1> USE DEF Ec2TypeOK
<1>1. CASE UNCHANGED ec2Vars
    BY <1>1 DEF ec2Vars
<1>2. CASE SpotNotice
    BY <1>2 DEF SpotNotice
<1>3. CASE TokenAges
    <2>1. tokenAge' = (IF tokenAge \in {NoToken, TokenTtl} THEN tokenAge ELSE tokenAge + 1)
          /\ UNCHANGED <<notice, metadata, reached>>
        BY <1>3 DEF TokenAges
    <2>2. tokenAge' \in {NoToken} \cup 0..TokenTtl
        <3>1. TokenTtl \in Nat /\ tokenAge \in {NoToken} \cup 0..TokenTtl
            BY TokenAssumption
        <3>2. tokenAge' = (IF tokenAge \in {NoToken, TokenTtl} THEN tokenAge ELSE tokenAge + 1)
            BY <2>1
        <3> HIDE DEF Ec2TypeOK
        <3> QED BY <3>1, <3>2
    <2> QED BY <2>1, <2>2
<1>4. CASE CollectEc2
    <2> DEFINE Snapshots == [is_ec2 : BOOLEAN, instance_id : InstanceIds,
                             aws_account_id : Accounts, scheduled : BOOLEAN]
    <2>1. NotEc2 \in Snapshots
        BY DEF NotEc2, InstanceIds, Accounts
    <2>2. ASSUME NEW answered PROVE Collected(answered) \in Snapshots
        <3> DEFINE it == SpotCheck /\ notice /\ "spot" \in answered
                   id == IF "instance-id" \in answered THEN "i-1" ELSE ""
                   account == IF "document" \in answered THEN "imds" ELSE ""
        <3>1. it \in BOOLEAN /\ id \in InstanceIds /\ account \in Accounts
            BY Zenon DEF InstanceIds, Accounts
        <3> HIDE DEF it, id, account
        <3> DEFINE Record(y, a, b) ==
                        [is_ec2 |-> TRUE, instance_id |-> y, aws_account_id |-> a, scheduled |-> b]
                   Records(S, A) ==
                        [is_ec2 : BOOLEAN, instance_id : S, aws_account_id : A, scheduled : BOOLEAN]
        <3>2. \A S, A : \A y \in S, a \in A, b \in BOOLEAN : Record(y, a, b) \in Records(S, A)
            OBVIOUS
        <3>3. Collected(answered) = Record(id, account, it)
            BY Zenon DEF Collected, it, id, account
        <3>4. Snapshots = Records(InstanceIds, Accounts)
            BY Zenon
        <3> HIDE DEF Record, Records, Snapshots
        <3>5. Record(id, account, it) \in Records(InstanceIds, Accounts)
            BY <3>1, <3>2, Zenon
        <3> QED BY <3>3, <3>4, <3>5, Zenon
    <2> HIDE DEF Snapshots
    <2>3. metadata' \in Snapshots
        <3>1. metadata' = NotEc2 \/ \E answered : metadata' = Collected(answered)
            BY <1>4 DEF CollectEc2
        <3> QED BY <2>1, <2>2, <3>1
    <2>4. tokenAge' \in {NoToken} \cup 0..TokenTtl /\ notice' = notice
        <3>1. tokenAge' \in {tokenAge, 0} /\ notice' = notice
            BY <1>4 DEF CollectEc2
        <3>2. TokenTtl \in Nat /\ tokenAge \in {NoToken} \cup 0..TokenTtl
            BY TokenAssumption
        <3> HIDE DEF Ec2TypeOK
        <3> QED BY <3>1, <3>2
    <2>5. reached' \in BOOLEAN
        BY <1>4, Zenon DEF CollectEc2
    <2> QED BY <2>3, <2>4, <2>5 DEF Snapshots
<1>5. SpotNotice \/ TokenAges \/ CollectEc2 \/ UNCHANGED ec2Vars
    <2>1. CASE Machine \/ StartCycle
        BY <2>1 DEF Machine, StartCycle
    <2>2. ASSUME NEW c \in running, ThreadEnds(c) PROVE CollectEc2 \/ UNCHANGED ec2Vars
        BY <2>2 DEF ThreadEnds, CollectOf, collectorVars
    <2>3. CASE Reload \/ Await \/ LeavePool \/ CycleFails \/ Evaluated \/ Dispatched \/ UNCHANGED cycleVars
        BY <2>3 DEF Reload, Await, LeavePool, CycleFails, Evaluated, Dispatched, collectorVars, cycleVars
    <2> QED BY <2>1, <2>2, <2>3 DEF CycleNext
<1> QED BY <1>1, <1>2, <1>3, <1>4, <1>5

LEMMA CycleTypedPreserved == CycleTyped /\ [CycleNext]_cycleVars => CycleTyped'
<1> SUFFICES ASSUME CycleTyped, [CycleNext]_cycleVars PROVE CycleTyped'
    OBVIOUS
<1> USE DEF CycleTyped
<1>1. Ec2TypeOK'
    BY Ec2Preserved
<1>2. CASE Machine
    BY <1>1, <1>2 DEF Machine, poolVars, configVars, gaugeVars
<1>3. CASE StartCycle
    BY <1>1, <1>3 DEF StartCycle, configVars, gaugeVars
<1>4. ASSUME NEW c \in running, ThreadEnds(c) PROVE CycleTyped'
    BY <1>1, <1>4 DEF ThreadEnds, configVars, gaugeVars
<1>5. CASE Await
    <2>1. Len(Pool) = 2 /\ Pool[1] \in {subject, "process"} /\ Pool[2] \in {subject, "process"}
        BY DEF Pool
    <2>2. position \in 1..2 /\ Pool[position] \in {subject, "process"} /\ position' = position + 1
        BY <1>5, <2>1 DEF Await
    <2> QED BY <1>1, <1>5, <2>2 DEF Await, configVars, gaugeVars
<1>6. CASE Reload \/ LeavePool \/ CycleFails \/ Dispatched
    BY <1>1, <1>6 DEF Reload, LeavePool, CycleFails, Dispatched, poolVars, configVars, gaugeVars
<1>7. CASE Evaluated
    <2>1. LabelsNow \in Labels
        <3>1. InstanceId \in InstanceIds /\ Detected \in Accounts
            BY DEF InstanceId, Detected, Ec2TypeOK, InstanceIds, Accounts
        <3>2. /\ cfg.instance_name \in {c.instance_name : c \in Configs}
              /\ Account \in Accounts \cup {c.aws_account_id : c \in Configs}
            BY <3>1 DEF Account
        <3> QED BY <3>1, <3>2 DEF LabelsNow, Labels
    <2>2. CASE Expose
        BY <1>1, <1>7, <2>1, <2>2 DEF Evaluated, Expose, poolVars, configVars
    <2>3. CASE UNCHANGED gaugeVars
        BY <1>1, <1>7, <2>3 DEF Evaluated, gaugeVars, poolVars, configVars
    <2> QED BY <1>7, <2>2, <2>3 DEF Evaluated
<1>8. CASE UNCHANGED cycleVars
    BY <1>1, <1>8 DEF cycleVars, poolVars, configVars, gaugeVars
<1> QED BY <1>2, <1>3, <1>4, <1>5, <1>6, <1>7, <1>8 DEF CycleNext

(***************************************************************************)
(* Whatever the threads and the loop do: nothing is new, seen or told that *)
(* the kernel has not logged, no collector has counted a kill that was not *)
(* one, no token is older than it can be, the loop awaits no future twice. *)
(***************************************************************************)
THEOREM CycleWellTyped == CycleSpec => []CycleTypeOK
<1> DEFINE Typed == /\ PoolInvariant /\ LoggedOnly /\ CountersTypeOK /\ HealthTyped /\ CycleTyped /\ SpotInvariant
<1>1. CycleInit => Typed
    BY PoolInitially, LoggedInitially, CountersInitially, HealthTypedInitially, CycleTypedInitially, SpotInitially
<1>2. Typed /\ [CycleNext]_cycleVars => Typed'
    BY PoolPreserved, LoggedPreserved, CountersPreserved, HealthTypedPreserved, CycleTypedPreserved, SpotPreserved
<1>3. Typed => CycleTypeOK
    BY DEF PoolInvariant, LoggedOnly, HealthTyped, CycleTyped, SpotInvariant, CycleTypeOK
<1> QED BY <1>1, <1>2, <1>3, PTL DEF CycleSpec

-----------------------------------------------------------------------------
(* The labels *)

LEMMA SeriesPreserved ==
    CycleTyped /\ CycleTyped' /\ SeriesOfOneConfig /\ [CycleNext]_cycleVars => SeriesOfOneConfig'
<1> SUFFICES ASSUME CycleTyped, CycleTyped', SeriesOfOneConfig, [CycleNext]_cycleVars
             PROVE  SeriesOfOneConfig'
    OBVIOUS
<1>1. CASE UNCHANGED <<labels, spotGauge>>
    BY <1>1 DEF SeriesOfOneConfig, SeriesOf
<1>2. CASE Evaluated /\ Expose
    <2>1. cfg \in Configs /\ labels' \in Labels /\ Detected \in Accounts
        BY DEF CycleTyped, Detected, Ec2TypeOK, Accounts
    <2>2. labels'.instance_name = cfg.instance_name /\ labels'.aws_account_id = Account
        BY <1>2 DEF Expose, LabelsNow
    <2>3. labels' \in SeriesOf(cfg)
        BY <2>1, <2>2 DEF SeriesOf, Account
    <2> QED BY <2>1, <2>3 DEF SeriesOfOneConfig, SeriesOf
<1>3. CASE Evaluated
    BY <1>1, <1>2, <1>3 DEF Evaluated, gaugeVars
<1>4. ASSUME NEW c \in running, ThreadEnds(c) PROVE SeriesOfOneConfig'
    BY <1>1, <1>4 DEF ThreadEnds, gaugeVars
<1>5. CASE Machine \/ Reload \/ StartCycle \/ Await \/ LeavePool \/ CycleFails \/ Dispatched
           \/ UNCHANGED cycleVars
    BY <1>1, <1>5 DEF Machine, Reload, StartCycle, Await, LeavePool, CycleFails, Dispatched,
        gaugeVars, cycleVars
<1> QED BY <1>3, <1>4, <1>5 DEF CycleNext

(***************************************************************************)
(* For any configurations and wherever reloads fall: what a cycle exposes  *)
(* has the names and the account of one configuration (_run_cycle's cfg).  *)
(***************************************************************************)
THEOREM OneConfigPerSeries == CycleSpec => []SeriesOfOneConfig
<1>1. CycleInit => SeriesOfOneConfig
    BY DEF CycleInit, SeriesOfOneConfig
<1>2. CycleInit => CycleTyped
    BY CycleTypedInitially
<1>3. CycleTyped /\ SeriesOfOneConfig /\ [CycleNext]_cycleVars => (CycleTyped /\ SeriesOfOneConfig)'
    BY CycleTypedPreserved, SeriesPreserved
<1> QED BY <1>1, <1>2, <1>3, PTL DEF CycleSpec
=============================================================================
