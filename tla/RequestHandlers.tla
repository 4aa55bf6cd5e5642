-------------------------- MODULE RequestHandlers --------------------------
(***************************************************************************)
(* A request thread of the REST server next to the daemon's main thread:   *)
(* _Handler of src/guardian/exposition/rest_api.py, _run_cycle and _reload *)
(* of src/guardian/main.py.                                                *)
(*                                                                         *)
(* The handlers take no lock.  They read the daemon's attributes one by    *)
(* one, and iterate over dictionaries that the main thread changes.        *)
(***************************************************************************)
EXTENDS Integers, FiniteSets, Sequences, SequencesExt

CONSTANTS Fingerprints,  \* of alerts, and names of baseline windows
          Room,          \* entries a dictionary takes before it is rebuilt
          Rounds         \* cycles of the daemon, at most

ASSUME RoomAssumption == Room \in Nat \ {0} /\ Rounds \in Nat

(* A Python dictionary: its entries in the order of their insertion, with  *)
(* a hole where one was deleted.                                           *)
Hole == "hole"
Keys(d) == Range(d) \ {Hole}
Used(d) == Cardinality({i \in DOMAIN d : d[i] # Hole})
Rebuilt(d) ==
    LET kept[i \in 0..Len(d)] ==
            IF i = 0 THEN <<>> ELSE kept[i - 1] \o (IF d[i] = Hole THEN <<>> ELSE <<d[i]>>)
    IN  kept[Len(d)]
Inserted(d, k) == Append(IF Len(d) < Room THEN d ELSE Rebuilt(d), k)
Deleted(d, k) == [i \in DOMAIN d |-> IF d[i] = k THEN Hole ELSE d[i]]

VARIABLES
    step,       \* of the main thread: "collect", "stamp", "update", "recover", "dispatch"
    round,      \* cycles begun
    last,       \* _last_snapshots: the round they are of, 0 for {}
    stamp,      \* _last_collection_ts: the round it is of, 0 for 0.0
    watched,    \* the dictionary that is looked at: "alerts" (_active) or "baselines" (_windows)
    dict,       \* what it holds
    swaps,      \* how often a reload replaced the router that has it
    request,    \* what the request thread does: 
                \* [kind, at, position, used, and the dictionary if it is not dict]
    got,        \* what a listing has collected
    reads,      \* the cycles a status has read from, or that of the metrics
    ready,      \* history: the client has been told that the daemon is ready
    ever, changed   \* history: keys of the listed dictionary since the request came; it changed

mainVars == <<step, round, last, stamp, watched, dict, swaps>>
threadVars == <<got, reads, ready>>
requestVars == <<mainVars, request, threadVars, ever, changed>>

Listing == {"alerts", "baselines"}
NoRequest == [kind |-> "none", at |-> "idle", detached |-> FALSE, over |-> <<>>, position |-> 0, used |-> 0]

RequestsTypeOK ==
    /\ step \in {"collect", "stamp", "update", "recover", "dispatch"}
    /\ round \in 0..Rounds /\ last \in 0..Rounds /\ stamp \in 0..Rounds
    /\ watched \in Listing /\ dict \in Seq(Fingerprints \cup {Hole}) /\ swaps \in 0..1
    /\ request \in [kind : {"none", "metrics", "status"} \cup Listing,
                    at : {"idle", "reading", "answered", "failed"}, detached : BOOLEAN,
                    over : Seq(Fingerprints \cup {Hole}), position : Nat, used : Nat]
    /\ got \subseteq Fingerprints /\ ever \subseteq Fingerprints
    /\ reads \in Seq(0..Rounds) /\ ready \in BOOLEAN /\ changed \in BOOLEAN

RequestsInit ==
    /\ step = "collect" /\ round = 0 /\ last = 0 /\ stamp = 0
    /\ watched \in Listing /\ dict = <<>> /\ swaps = 0
    /\ request = NoRequest /\ got = {} /\ reads = <<>> /\ ready = FALSE
    /\ ever = {} /\ changed = FALSE

-----------------------------------------------------------------------------
(* The main thread.                                                        *)
Moves(from, to) == step = from /\ step' = to
Unseen == UNCHANGED <<request, threadVars, ever, changed>>

SnapshotsSet ==
    /\ Moves("collect", "stamp") /\ round < Rounds
    /\ round' = round + 1
    /\ last' = round'
    /\ Unseen /\ UNCHANGED <<stamp, watched, dict, swaps>>

StampSet ==
    /\ Moves("stamp", "update")
    /\ stamp' = round
    /\ Unseen /\ UNCHANGED <<round, last, watched, dict, swaps>>

CollectedStampFirst ==  \* mutant: the time is set first
    \/ /\ Moves("collect", "stamp") /\ round < Rounds
       /\ round' = round + 1 /\ stamp' = round'
       /\ Unseen /\ UNCHANGED <<last, watched, dict, swaps>>
    \/ /\ Moves("stamp", "update") /\ last' = round
       /\ Unseen /\ UNCHANGED <<round, stamp, watched, dict, swaps>>

Collected == SnapshotsSet \/ StampSet

(* The request that iterates over dict sees what becomes of it.            *)
Becomes(d) ==
    /\ dict' = d
    /\ IF request.kind \in Listing /\ ~request.detached
       THEN ever' = ever \cup Keys(d) /\ changed' = TRUE
       ELSE UNCHANGED <<ever, changed>>
    /\ UNCHANGED <<step, round, last, stamp, watched, swaps, request, threadVars>>

(* BaselineEngine.update adds the windows of metrics it meets first, and   *)
(* dispatch the alerts that become active; _check_recovery pops those that *)
(* are over, one by one.                                                   *)
Add ==
    /\ step = (IF watched = "alerts" THEN "dispatch" ELSE "update")
    /\ \E k \in Fingerprints \ Keys(dict) : Becomes(Inserted(dict, k))

Pop ==
    /\ step = "recover" /\ watched = "alerts"
    /\ \E k \in Keys(dict) : Becomes(Deleted(dict, k))

NextStep ==
    /\ Moves("update", "recover") \/ Moves("recover", "dispatch") \/ Moves("dispatch", "collect")
    /\ Unseen /\ UNCHANGED <<round, last, stamp, watched, dict, swaps>>

(* A reload puts a router without active alerts in the old one's place; a  *)
(* request goes on with the dictionary it has.                             *)
SwapRouter ==
    /\ watched = "alerts" /\ swaps = 0 /\ swaps' = 1
    /\ dict' = <<>>
    /\ request' = IF request.kind \in Listing /\ ~request.detached
                  THEN [request EXCEPT !.detached = TRUE, !.over = dict] ELSE request
    /\ UNCHANGED <<step, round, last, stamp, watched, threadVars, ever, changed>>

-----------------------------------------------------------------------------
(* The request thread.  In do_GET a client asks for one thing at a time.   *)
Ends(how) == request' = [request EXCEPT !.at = how]

AnswerReady ==
    /\ request.kind = "none"
    /\ ready' = (ready \/ stamp > 0)
    /\ UNCHANGED <<mainVars, request, got, reads, ever, changed>>

AnswerMetrics ==
    /\ request.kind = "none"
    /\ request' = [NoRequest EXCEPT !.kind = "metrics", !.at = "answered"]
    /\ reads' = <<last>>
    /\ UNCHANGED <<mainVars, got, ready, ever, changed>>

(* _handle_status reads the snapshots for the list of collectors, for the  *)
(* instance id and for the account, then the time of the collection.       *)
ReadStatus ==
    /\ <<request.kind, request.at>> \in {<<"none", "idle">>, <<"status", "reading">>}
    /\ request' = [NoRequest EXCEPT !.kind = "status",
                                    !.at = IF Len(reads) < 3 THEN "reading" ELSE "answered"]
    /\ reads' = Append(reads, IF Len(reads) < 3 THEN last ELSE stamp)
    /\ UNCHANGED <<mainVars, got, ready, ever, changed>>

(* `for ... in d`: an iterator remembers d and its size.  An empty _active *)
(* is false, and another empty dictionary is iterated in its place.        *)
BeginListing ==
    /\ request.kind = "none"
    /\ request' = [NoRequest EXCEPT !.kind = watched, !.at = "reading", !.used = Used(dict),
                      !.detached = (watched = "alerts" /\ Keys(dict) = {})]
    /\ ever' = Keys(dict) /\ changed' = FALSE
    /\ UNCHANGED <<mainVars, threadVars>>

Rest(d) == {i \in DOMAIN d : i > request.position /\ d[i] # Hole}

Listed == IF request.detached THEN request.over ELSE dict

NextEntry ==
    LET d == Listed
        next == CHOOSE i \in Rest(d) : \A j \in Rest(d) : i <= j
    IN  /\ request.kind \in Listing /\ request.at = "reading"
        /\ \/ /\ Used(d) # request.used       \* RuntimeError: no answer is sent
              /\ Ends("failed") /\ UNCHANGED got
           \/ /\ Used(d) = request.used /\ Rest(d) = {}
              /\ Ends("answered") /\ UNCHANGED got
           \/ /\ Used(d) = request.used /\ Rest(d) # {}
              /\ got' = got \cup {d[next]}
              /\ request' = [request EXCEPT !.position = next]
        /\ UNCHANGED <<mainVars, reads, ready, ever, changed>>

Closed ==
    /\ request.at \in {"answered", "failed"}
    /\ request' = NoRequest /\ got' = {} /\ reads' = <<>> /\ ever' = {} /\ changed' = FALSE
    /\ UNCHANGED <<mainVars, ready>>

RequestsNext ==
    \/ Collected \/ Add \/ Pop \/ NextStep \/ SwapRouter
    \/ AnswerReady \/ AnswerMetrics \/ ReadStatus \/ BeginListing \/ NextEntry \/ Closed

RequestsSpec == RequestsInit /\ [][RequestsNext]_requestVars

-----------------------------------------------------------------------------
(***************************************************************************)
(* No lock, and yet: a client that was told the daemon is ready is given   *)
(* snapshots when it asks for them; a status never goes back in time from  *)
(* one of its parts to the next, but for the time of the collection, which *)
(* may be the previous one's; a listing has only what was there while it   *)
(* was made, all of it if nothing changed, and a request goes unanswered   *)
(* only if the dictionary it listed did change (do_GET, _handle_status,    *)
(* _handle_alerts_active, _handle_intelligence_baselines; the order of the *)
(* assignments in _run_cycle).                                             *)
(***************************************************************************)
ReadyHasSnapshots == ready /\ request.kind = "metrics" /\ reads # <<>> => reads[1] > 0

StatusInOrder ==
    request.kind = "status" =>
        \A i, j \in DOMAIN reads : i < j => reads[i] <= reads[j] + (IF j = 4 THEN 1 ELSE 0)

ListingTrue ==
    request.kind \in Listing =>
        /\ got \subseteq ever
        /\ request.at = "answered" /\ ~changed => got = ever
        /\ request.at = "failed" => changed

AnswersTrue == ReadyHasSnapshots /\ StatusInOrder /\ ListingTrue
=============================================================================
