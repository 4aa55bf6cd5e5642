------------------------------ MODULE AppHealth ------------------------------
(***************************************************************************)
(* The application health collector (src/guardian/collector/app_health.py): *)
(* each check is probed when its interval has passed and repeats its last  *)
(* result until then.  What is remembered is kept by the check's name, and *)
(* nothing makes the names of the configuration distinct.                  *)
(***************************************************************************)
EXTENDS Integers, Sequences, FiniteSetsExt

CONSTANTS
    CheckLists,     \* the configurations: sequences of [name, interval]
    Longest,        \* bound: no interval is longer, and ages above it are not told apart
    MaxFailures     \* bound: failure counts above it are not told apart

VARIABLES
    checks,         \* the configuration the daemon was started with
    sinceChecked,   \* age of _last_checked, by name
    failures,       \* _failure_counts, by name
    lastResult,     \* _last_results, by name
    shownChecks,    \* the checks of the snapshot, by their place in the list
    failedRun       \* history: failed probes in a row, by place in the list

healthVars == <<checks, sinceChecked, failures, lastResult, shownChecks, failedRun>>

Names == {l[i].name : l \in CheckLists, i \in 1..2}

ASSUME ChecksAssumption ==
    /\ MaxFailures \in Nat /\ Longest \in Nat
    /\ \A l \in CheckLists : DOMAIN l = 1..2 /\ \A i \in 1..2 : l[i].interval \in 1..Longest

Unchecked == -1
NoResult == [of |-> 0, failures |-> 0]

HealthTypeOK ==
    /\ checks \in CheckLists
    /\ sinceChecked \in [Names -> {Unchecked} \cup 0..Longest]
    /\ failures \in [Names -> 0..MaxFailures]
    /\ \A n \in Names : lastResult[n].of \in {0} \cup DOMAIN checks /\ lastResult[n].failures \in 0..MaxFailures
    /\ DOMAIN shownChecks \subseteq DOMAIN checks
    /\ failedRun \in [DOMAIN checks -> 0..MaxFailures]

HealthInit ==
    /\ checks \in CheckLists
    /\ sinceChecked = [n \in Names |-> Unchecked]
    /\ failures = [n \in Names |-> 0]
    /\ lastResult = [n \in Names |-> NoResult]
    /\ shownChecks = <<>>
    /\ failedRun = [i \in DOMAIN checks |-> 0]

HealthAges ==
    /\ sinceChecked' = [n \in Names |->
            IF sinceChecked[n] \in {Unchecked, Longest} THEN sinceChecked[n] ELSE sinceChecked[n] + 1]
    /\ UNCHANGED <<checks, failures, lastResult, shownChecks, failedRun>>

DueLate(i) ==           \* mutant: an interval must be exceeded
    LET age == sinceChecked[checks[i].name]
    IN  age = Unchecked \/ age > checks[i].interval

Due(i) ==
    LET age == sinceChecked[checks[i].name]
    IN  age = Unchecked \/ age >= checks[i].interval

CountUp(n) == IF n < MaxFailures THEN n + 1 ELSE n

(* _failure_counts of i's name once i's probe is counted, in the list's    *)
(* order: up is the set of the due checks whose probe succeeded.           *)
FailuresAfterEver(i, up) == \* mutant: a success does not reset the count
    IF i \in up THEN failures[checks[i].name] ELSE CountUp(failures[checks[i].name])

FailuresAfter(i, up) ==
    LET mates == {j \in DOMAIN checks : j <= i /\ checks[j].name = checks[i].name /\ Due(j)}
        good == mates \cap up
        counted == IF good = {} THEN failures[checks[i].name] + Cardinality(mates)
                   ELSE Cardinality({j \in mates : j > Max(good)})
    IN  Min({counted, MaxFailures})

(* Every due check is probed at once; a probe that hangs or raises failed. *)
CollectHealth ==
    LET due == {i \in DOMAIN checks : Due(i)}
        LastOf(n) == {i \in due : checks[i].name = n /\ \A j \in due : checks[j].name = n => j <= i}
    IN  \E up \in SUBSET due :
        LET fresh == [i \in due |-> [of |-> i, failures |-> FailuresAfter(i, up)]]
            cached == {i \in DOMAIN checks \ due : lastResult'[checks[i].name] # NoResult}
        IN  /\ sinceChecked' = [n \in Names |-> IF LastOf(n) # {} THEN 0 ELSE sinceChecked[n]]
            /\ failures' = [n \in Names |->
                    IF LastOf(n) # {} THEN FailuresAfter(Max(LastOf(n)), up) ELSE failures[n]]
            /\ lastResult' = [n \in Names |->
                    IF LastOf(n) # {} THEN fresh[Max(LastOf(n))] ELSE lastResult[n]]
            /\ shownChecks' = [i \in due \cup cached |->
                    IF i \in due THEN fresh[i] ELSE lastResult'[checks[i].name]]
            /\ failedRun' = [i \in DOMAIN checks |->
                    IF i \in up THEN 0 ELSE IF i \in due THEN CountUp(failedRun[i]) ELSE failedRun[i]]
            /\ UNCHANGED checks

-----------------------------------------------------------------------------
DistinctNames == \A i, j \in DOMAIN checks : checks[i].name = checks[j].name => i = j

(***************************************************************************)
(* If the checks' names differ, every snapshot shows every check, with its *)
(* own result, which is not older than the check's interval, and with the  *)
(* number of its probes that failed in a row.  What the alerts count as    *)
(* consecutive failures (router.py:421) is that number.                    *)
(***************************************************************************)
HealthShownIsOwn ==
    DistinctNames /\ shownChecks # <<>> =>
        \A i \in DOMAIN checks :
            /\ i \in DOMAIN shownChecks
            /\ shownChecks[i] = [of |-> i, failures |-> failedRun[i]]
            /\ sinceChecked[checks[i].name] <= checks[i].interval
=============================================================================
