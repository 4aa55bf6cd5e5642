---------------------------- MODULE SystemEvents ----------------------------
(***************************************************************************)
(* Which kernel messages SystemEventsCollector                             *)
(* (src/guardian/collector/system_events.py) takes for new ones: dmesg     *)
(* prints the whole ring buffer each time, and two sets of keys tell what  *)
(* it printed before.  A key holds the message's time, and that is counted *)
(* from psutil.boot_time(), which moves when the machine's clock is set.   *)
(* What else a snapshot holds (failed units, pressure) has no memory.      *)
(***************************************************************************)
EXTENDS Naturals, FiniteSets

CONSTANTS
    Lines,          \* bound: the kernel's messages are numbered 1..Lines
    Ooms,           \* those that report an OOM kill
    RingSize,       \* how many the ring buffer holds
    SeenLimit,      \* size above which _seen_dmesg is cut (5000)
    OomLimit,       \* the same of _seen_ooms (1000), ...
    OomKept,        \* ... and what is kept of it (500)
    ClockSteps      \* bound: how often the clock is set

ASSUME EventsAssumption ==
    /\ Ooms \subseteq 1..Lines
    /\ {Lines, RingSize, SeenLimit, OomLimit, OomKept, ClockSteps} \subseteq Nat

Kinds == {"dmesg", "oom"}

VARIABLES
    logged,     \* messages the kernel has logged
    steps,      \* how often the clock was set
    seen,       \* _seen_dmesg and _seen_ooms
    first,      \* _first_collection
    news,       \* dmesg_errors_new and oom_kills_new of the snapshot
    shown,      \* what dmesg printed for this snapshot
    forgotten,  \* history: a set was cut, or the clock was set
    backlog     \* history: what dmesg printed for the first snapshot

eventVars == <<logged, steps, seen, first, news, shown, forgotten, backlog>>

Nothing == [k \in Kinds |-> {}]
NoBacklog == [k \in Kinds |-> {0}]

EventsTypeOK ==
    /\ logged \in 0..Lines /\ steps \in 0..ClockSteps
    /\ seen \in [Kinds -> SUBSET ((0..steps) \X (1..logged))]
    /\ first \in BOOLEAN /\ forgotten \in BOOLEAN
    /\ news \in [Kinds -> SUBSET (1..logged)] /\ shown \in [Kinds -> SUBSET (1..logged)]
    /\ backlog = NoBacklog \/ backlog \in [Kinds -> SUBSET (1..logged)]

EventsInit ==
    /\ logged = 0 /\ steps = 0
    /\ seen = Nothing
    /\ first = TRUE
    /\ news = Nothing /\ shown = Nothing
    /\ forgotten = FALSE
    /\ backlog = NoBacklog

KernelLogs ==
    /\ logged < Lines
    /\ logged' = logged + 1
    /\ UNCHANGED <<steps, seen, first, news, shown, forgotten, backlog>>

ClockSet ==
    /\ steps < ClockSteps
    /\ steps' = steps + 1
    /\ forgotten' = TRUE
    /\ UNCHANGED <<logged, seen, first, news, shown, backlog>>

Ring == {m \in 1..logged : m + RingSize > logged}
Key(m) == <<steps, m>>

(* A set beyond its limit keeps an arbitrary part: sets have no order.      *)
Kept(k, n) == IF k = "oom" THEN OomKept ELSE n - n \div 2

CutSets(k, S) ==
    IF Cardinality(S) > (IF k = "oom" THEN OomLimit ELSE SeenLimit)
    THEN {T \in SUBSET S : Cardinality(T) = Kept(k, Cardinality(S))} ELSE {S}

MarkedUnlessFirst(k, printed) ==    \* mutant: the first collection marks nothing
    IF first THEN seen[k] ELSE seen[k] \cup {Key(m) : m \in printed}

Marked(k, printed) == seen[k] \cup {Key(m) : m \in printed}

StillFirstWhileEmpty(printed) ==    \* mutant: over once dmesg has printed anything
    first /\ printed = {}

StillFirst(printed) == FALSE

(* dmesg that fails or hangs prints nothing.  Only boot_time() can fail the *)
(* whole snapshot, before anything is remembered.                          *)
CollectEvents ==
    \/ \E printed \in {Ring, {}} :
        LET of == [dmesg |-> printed, oom |-> printed \cap Ooms]
        IN  /\ news' = [k \in Kinds |-> IF first THEN {} ELSE {m \in of[k] : Key(m) \notin seen[k]}]
            /\ shown' = of
            /\ \E D \in CutSets("dmesg", Marked("dmesg", of.dmesg)),
                  O \in CutSets("oom", Marked("oom", of.oom)) :
                /\ seen' = [dmesg |-> D, oom |-> O]
                /\ forgotten' = (forgotten \/ \E k \in Kinds : seen'[k] # Marked(k, of[k]))
            /\ first' = StillFirst(printed)
            /\ backlog' = IF backlog = NoBacklog THEN of ELSE backlog
            /\ UNCHANGED <<logged, steps>>
    \/ /\ news' = Nothing /\ shown' = Nothing
       /\ UNCHANGED <<logged, steps, seen, first, forgotten, backlog>>
=============================================================================
