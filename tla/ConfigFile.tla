----------------------------- MODULE ConfigFile -----------------------------
(***************************************************************************)
(* The configuration file, those who write it and the daemon that loads    *)
(* it: setup_telegram, setup_openai and init of src/guardianctl/cli.py,    *)
(* load_config and validate_config of src/guardian/config/loader.py,       *)
(* GuardianDaemon's constructor and _reload of src/guardian/main.py.       *)
(*                                                                         *)
(* A wizard reads the file, opens it for writing, which empties it, and    *)
(* writes it when it closes it: what it writes fits the buffer of a        *)
(* Python file.  Nothing keeps two writers apart, or a writer from the     *)
(* daemon, and a writer may be killed in between.                          *)
(***************************************************************************)
EXTENDS Naturals, FiniteSets

CONSTANTS Runs,        \* how often a wizard is started, at most
          Edits,       \* how often the operator edits the file
          Slips        \* how often a writer is killed while the file is empty

ASSUME ConfigAssumption == {Runs, Edits, Slips} \subseteq Nat

Wizards == {"telegram", "openai"}

VARIABLES
    file,       \* what the file holds: [channels, ai, tuned, sound, tail]
    wizard,     \* each wizard's step: "idle", "read", "opened"
    copy,       \* cfg_data of each wizard
    runs,       \* how often wizards were started
    edits, slips,
    serving,    \* the daemon runs
    config,     \* GuardianDaemon.config, which alerters and router come from
    startup,    \* the configuration the daemon's collectors, detectors, store and servers keep
    disturbed   \* history: two writers overlapped, or one was killed

fileVars == <<file, wizard, copy, runs, edits, slips>>
loadVars == <<serving, config, startup>>
configVars == <<fileVars, loadVars, disturbed>>

(* A document: the enabled channels, an ai section, the operator's own     *)
(* settings, whether validate_config accepts these, and whether the end of *)
(* an older, longer document follows it.                                   *)
Document ==
    [channels : SUBSET {"slack", "telegram"}, ai : BOOLEAN, tuned : BOOLEAN,
     sound : BOOLEAN, tail : BOOLEAN]

(* An empty file loads as GuardianConfig's defaults, and so does what init *)
(* writes.                                                                 *)
Empty == [channels |-> {}, ai |-> FALSE, tuned |-> FALSE, sound |-> TRUE, tail |-> FALSE]
Operators == [Empty EXCEPT !.channels = {"slack"}, !.tuned = TRUE]

ConfigTypeOK ==
    /\ {file, config, startup} \subseteq Document /\ copy \in [Wizards -> Document]
    /\ wizard \in [Wizards -> {"idle", "read", "opened"}]
    /\ runs \in 0..Runs /\ edits \in 0..Edits /\ slips \in 0..Slips
    /\ serving \in BOOLEAN /\ disturbed \in BOOLEAN

ConfigInit ==
    /\ file \in {Operators, Empty}
    /\ wizard = [w \in Wizards |-> "idle"] /\ copy = [w \in Wizards |-> Empty]
    /\ runs = 0 /\ edits = 0 /\ slips = 0
    /\ serving = FALSE /\ config = Empty /\ startup = Empty
    /\ disturbed = FALSE

-----------------------------------------------------------------------------
(* yaml.safe_load: a document with a tail may fail to parse, or load as     *)
(* something else in the last of its sections.                             *)
Loads(doc) ==
    { [doc EXCEPT !.tail = FALSE, !.tuned = t] :
        t \in {doc.tuned} \cup (IF doc.tail THEN BOOLEAN ELSE {}) }

(* The wizards, after their prompts and their test calls.                  *)
Updated(w, doc) ==
    IF w = "telegram" THEN [doc EXCEPT !.channels = @ \cup {"telegram"}] ELSE [doc EXCEPT !.ai = TRUE]

Read(w) ==
    /\ wizard[w] = "idle" /\ runs < Runs
    /\ wizard' = [wizard EXCEPT ![w] = "read"]
    /\ \E doc \in Loads(file) : copy' = [copy EXCEPT ![w] = doc]
    /\ runs' = runs + 1
    /\ disturbed' = (disturbed \/ \E v \in Wizards \ {w} : wizard[v] # "idle")
    /\ UNCHANGED <<file, edits, slips, loadVars>>

Open(w) ==
    /\ wizard[w] = "read"
    /\ wizard' = [wizard EXCEPT ![w] = "opened"]
    /\ file' = Empty
    /\ UNCHANGED <<copy, runs, edits, slips, loadVars, disturbed>>

(* Closing writes from the start of the file; if another writer has filled *)
(* it since it was opened, its end may show behind a shorter document.     *)
Close(w) ==
    /\ wizard[w] = "opened"
    /\ wizard' = [wizard EXCEPT ![w] = "idle"]
    /\ \E left \in {FALSE, file # Empty} : file' = [Updated(w, copy[w]) EXCEPT !.tail = left]
    /\ UNCHANGED <<copy, runs, edits, slips, loadVars, disturbed>>

(* The wizard is killed, or yaml.dump or the disk fails it.                *)
Abort(w) ==
    /\ wizard[w] # "idle" /\ slips < Slips
    /\ slips' = slips + 1
    /\ wizard' = [wizard EXCEPT ![w] = "idle"]
    /\ disturbed' = (disturbed \/ wizard[w] = "opened")
    /\ UNCHANGED <<file, copy, runs, edits, loadVars>>

(* The operator edits the file between two wizards, for better or worse,   *)
(* or has init write a new one.                                            *)
Edit ==
    /\ edits < Edits
    /\ edits' = edits + 1
    /\ \/ file' = [file EXCEPT !.sound = ~file.sound]
       \/ file' = Operators
    /\ disturbed' = (disturbed \/ \E w \in Wizards : wizard[w] # "idle")
    /\ UNCHANGED <<wizard, copy, runs, slips, loadVars>>

InitCommand ==
    /\ edits < Edits
    /\ edits' = edits + 1
    /\ file' = Empty
    /\ disturbed' = (disturbed \/ file.channels # {} \/ \E w \in Wizards : wizard[w] # "idle")
    /\ UNCHANGED <<wizard, copy, runs, slips, loadVars>>

-----------------------------------------------------------------------------
ValidUnheard(doc) == doc.sound      \* mutant: a daemon without a channel may run

(* validate_config *)
Valid(doc) == doc.sound /\ doc.channels # {}

(* GuardianDaemon(config_path); a ConfigError ends the process.            *)
Start ==
    /\ ~serving
    /\ \E doc \in Loads(file) :
        /\ Valid(doc)
        /\ config' = doc /\ startup' = doc
    /\ serving' = TRUE
    /\ UNCHANGED <<fileVars, disturbed>>

(* _reload; an exception leaves the configuration as it was.               *)
Reload ==
    /\ serving
    /\ \E doc \in Loads(file) : Valid(doc) /\ config' = doc
    /\ UNCHANGED <<fileVars, serving, startup, disturbed>>

End ==
    /\ serving /\ serving' = FALSE
    /\ UNCHANGED <<fileVars, config, startup, disturbed>>

ConfigNext ==
    \/ \E w \in Wizards : Read(w) \/ Open(w) \/ Close(w) \/ Abort(w)
    \/ Edit \/ InitCommand \/ Start \/ Reload \/ End

ConfigSpec == ConfigInit /\ [][ConfigNext]_configVars

-----------------------------------------------------------------------------
(***************************************************************************)
(* Whenever a reload or a restart comes, even between a wizard's opening   *)
(* and closing the file, the daemon runs with a channel; and unless two    *)
(* writers overlapped, one was killed over an open file or init replaced   *)
(* one, it has all the operator's settings and no half of a document       *)
(* (setup wizards, load_config, _reload).                                  *)
(***************************************************************************)
RunsWholeConfig ==
    serving =>
        /\ config.channels # {} /\ config.sound
        /\ ~disturbed /\ "slack" \in startup.channels =>
              config.tuned /\ "slack" \in config.channels
=============================================================================
