------------------------- MODULE SurroundingsProofs -------------------------
(***************************************************************************)
(* Proofs about what surrounds the daemon: the configuration file, the     *)
(* requests, and all parts together with the lives of the process.         *)
(*                                                                         *)
(* RunsWholeConfig is not inductive: it says nothing of what a reload will *)
(* find.  ConfigInvariant adds what is true of the file and of the         *)
(* wizards' copies as long as no writer has disturbed another.  Nor is     *)
(* AnswersTrue: RequestsInvariant relates what a request has collected to  *)
(* the place its iterator has come to, and what it has read to what the    *)
(* main thread has got to.                                                 *)
(***************************************************************************)
EXTENDS MCSurroundings, LifetimesProofs, FiniteSetTheorems

(* ------------------------ The configuration file ----------------------- *)

Busy(w) == wizard[w] # "idle"
Opened == \E w \in Wizards : wizard[w] = "opened"

Whole(doc) == ~doc.tail /\ ("slack" \in doc.channels => doc.tuned)

(* One writer at a time: it works on a copy of what the file holds, or has *)
(* emptied the file.                                                       *)
OneWriter == \A v, w \in Wizards : Busy(v) /\ Busy(w) => v = w
FileWhole == Whole(file) /\ (Opened => file.channels = {} /\ file = Empty)
CopyWhole(w) ==
    /\ Whole(copy[w])
    /\ wizard[w] = "read" =>
          copy[w].channels = file.channels /\ copy[w].tuned = file.tuned

(* A channel the daemon was started with is still where the next load will *)
(* find it.                                                                *)
ChannelKept ==
    /\ config.tuned /\ "slack" \in config.channels
    /\ ~Opened => "slack" \in file.channels
    /\ \A w \in Wizards : Busy(w) => "slack" \in copy[w].channels

Undisturbed ==
    /\ OneWriter /\ FileWhole
    /\ \A w \in Wizards : Busy(w) => CopyWhole(w)
    /\ serving /\ "slack" \in startup.channels => ChannelKept

ConfigInvariant ==
    /\ serving => config.channels # {} /\ config.sound
    /\ ~disturbed => Undisturbed

-----------------------------------------------------------------------------
(* What the operations do to a document. *)

(* A document loads as one, and a whole one as itself. *)
LEMMA LoadsDocument ==
    ASSUME NEW doc \in Document, NEW loaded \in Loads(doc)
    PROVE  /\ loaded \in Document
           /\ loaded.channels = doc.channels /\ loaded.sound = doc.sound /\ ~loaded.tail
           /\ ~doc.tail => loaded.tuned = doc.tuned
BY DEF Loads, Document

(* A wizard writes a document with no channel less and the same settings. *)
LEMMA UpdatedDocument ==
    ASSUME NEW w \in Wizards, NEW doc \in Document
    PROVE  /\ Updated(w, doc) \in Document
           /\ Updated(w, doc).tuned = doc.tuned
           /\ "slack" \in Updated(w, doc).channels <=> "slack" \in doc.channels
BY DEF Updated, Document, Wizards

LEMMA EmptyDocument ==
    /\ Empty \in Document /\ Empty.channels = {} /\ ~Empty.tail
    /\ Operators \in Document /\ "slack" \in Operators.channels
    /\ Operators.tuned /\ ~Operators.tail
BY DEF Empty, Operators, Document

-----------------------------------------------------------------------------
(* Type correctness *)

LEMMA TypesInitially == ConfigInit => ConfigTypeOK
<1> SUFFICES ASSUME ConfigInit PROVE ConfigTypeOK
    OBVIOUS
<1> USE DEF ConfigInit
<1>1. file \in Document /\ config \in Document /\ startup \in Document
    BY EmptyDocument
<1>2. copy \in [Wizards -> Document]
    BY EmptyDocument
<1>3. runs \in 0..Runs /\ edits \in 0..Edits /\ slips \in 0..Slips
    BY ConfigAssumption
<1> QED BY <1>1, <1>2, <1>3 DEF ConfigTypeOK

LEMMA TypesPreserved == ConfigTypeOK /\ [ConfigNext]_configVars => ConfigTypeOK'
<1> SUFFICES ASSUME ConfigTypeOK, [ConfigNext]_configVars PROVE ConfigTypeOK'
    OBVIOUS
<1> USE DEF ConfigTypeOK
<1>1. ASSUME NEW w \in Wizards, Read(w) PROVE ConfigTypeOK'
    <2>1. PICK doc \in Loads(file) : copy' = [copy EXCEPT ![w] = doc]
        BY <1>1 DEF Read
    <2>2. copy' \in [Wizards -> Document]
        BY <2>1, LoadsDocument
    <2>3. wizard' \in [Wizards -> {"idle", "read", "opened"}]
        BY <1>1 DEF Read
    <2>4. runs' \in 0..Runs
        BY <1>1, ConfigAssumption DEF Read
    <2> QED BY <1>1, <2>2, <2>3, <2>4 DEF Read, loadVars
<1>2. ASSUME NEW w \in Wizards, Open(w) PROVE ConfigTypeOK'
    BY <1>2, EmptyDocument DEF Open, loadVars
<1>3. ASSUME NEW w \in Wizards, Close(w) PROVE ConfigTypeOK'
    <2>1. PICK left \in {FALSE, file # Empty} : file' = [Updated(w, copy[w]) EXCEPT !.tail = left]
        BY <1>3 DEF Close
    <2>2. file' \in Document
        <3>1. Updated(w, copy[w]) \in Document /\ left \in BOOLEAN
            BY UpdatedDocument
        <3>2. \A doc \in Document, b \in BOOLEAN : [doc EXCEPT !.tail = b] \in Document
            BY DEF Document
        <3> QED BY <2>1, <3>1, <3>2
    <2> QED BY <1>3, <2>2 DEF Close, loadVars
<1>4. ASSUME NEW w \in Wizards, Abort(w) PROVE ConfigTypeOK'
    BY <1>4, ConfigAssumption DEF Abort, loadVars
<1>5. CASE Edit
    <2>1. file' \in Document
        BY <1>5, EmptyDocument DEF Edit, Document
    <2> QED BY <1>5, <2>1, ConfigAssumption DEF Edit, loadVars
<1>6. CASE InitCommand
    BY <1>6, EmptyDocument, ConfigAssumption DEF InitCommand, loadVars
<1>7. CASE Start
    BY <1>7, LoadsDocument DEF Start, fileVars
<1>8. CASE Reload
    BY <1>8, LoadsDocument DEF Reload, fileVars
<1>9. CASE End
    BY <1>9 DEF End, fileVars
<1>10. CASE UNCHANGED configVars
    BY <1>10 DEF configVars, fileVars, loadVars
<1> QED BY <1>1, <1>2, <1>3, <1>4, <1>5, <1>6, <1>7, <1>8, <1>9, <1>10 DEF ConfigNext

(***************************************************************************)
(* File, copies and the daemon's configurations are documents, and the     *)
(* wizards are at one of their steps, whatever the bounds.                 *)
(***************************************************************************)
THEOREM ConfigTypes == ConfigSpec => []ConfigTypeOK
BY TypesInitially, TypesPreserved, PTL DEF ConfigSpec

-----------------------------------------------------------------------------
(* The daemon runs with a whole document *)

LEMMA ConfigInvariantInitially == ConfigInit => ConfigInvariant
BY EmptyDocument
   DEF ConfigInit, ConfigInvariant, Undisturbed, OneWriter, FileWhole, Whole, Opened, Busy, Wizards

LEMMA ReadKeepsUndisturbed ==
    ASSUME ConfigTypeOK, Undisturbed, NEW w \in Wizards, Read(w),
           \A v \in Wizards \ {w} : ~Busy(v)
    PROVE  Undisturbed'
<1> USE DEF ConfigTypeOK
<1>1. PICK doc \in Loads(file) : copy' = [copy EXCEPT ![w] = doc]
    BY DEF Read
<1>2. /\ wizard' = [wizard EXCEPT ![w] = "read"] /\ wizard[w] = "idle"
      /\ file' = file /\ config' = config /\ startup' = startup /\ serving' = serving
    BY DEF Read, loadVars
<1>3. \A v \in Wizards : Busy(v)' => v = w
    BY <1>2 DEF Busy
<1>4. ~Opened /\ ~Opened'
    BY <1>2 DEF Opened, Busy
<1>5. /\ doc \in Document /\ ~doc.tail
      /\ doc.channels = file.channels /\ doc.tuned = file.tuned
    BY LoadsDocument DEF Undisturbed, FileWhole, Whole
<1>6. FileWhole'
    BY <1>2, <1>4 DEF Undisturbed, FileWhole, Whole
<1>7. copy'[w] = doc
    BY <1>1
<1>8. CopyWhole(w)'
    BY <1>2, <1>5, <1>7 DEF Undisturbed, FileWhole, CopyWhole, Whole
<1>9. serving' /\ "slack" \in startup'.channels => ChannelKept'
    BY <1>2, <1>3, <1>4, <1>5, <1>7 DEF Undisturbed, ChannelKept
<1> QED BY <1>3, <1>6, <1>8, <1>9 DEF Undisturbed, OneWriter

LEMMA OpenKeepsUndisturbed ==
    ASSUME ConfigTypeOK, Undisturbed, NEW w \in Wizards, Open(w)
    PROVE  Undisturbed'
<1> USE DEF ConfigTypeOK
<1>1. /\ wizard' = [wizard EXCEPT ![w] = "opened"] /\ wizard[w] = "read" /\ file' = Empty
      /\ copy' = copy /\ config' = config /\ startup' = startup /\ serving' = serving
    BY DEF Open, loadVars
<1>2. Opened' /\ \A v \in Wizards : Busy(v)' <=> Busy(v)
    BY <1>1 DEF Opened, Busy
<1>3. OneWriter'
    BY <1>2 DEF Undisturbed, OneWriter
<1>4. FileWhole'
    BY <1>1, EmptyDocument DEF FileWhole, Whole
<1>5. \A v \in Wizards : Busy(v)' => CopyWhole(v)'
    <2> SUFFICES ASSUME NEW v \in Wizards, Busy(v) PROVE CopyWhole(v)'
        BY <1>2
    <2>1. v = w
        BY <1>1 DEF Undisturbed, OneWriter, Busy
    <2>2. wizard'[v] = "opened" /\ Whole(copy[v])
        BY <1>1, <2>1 DEF Undisturbed, CopyWhole, Busy
    <2> QED BY <1>1, <2>2 DEF CopyWhole, Whole
<1>6. serving' /\ "slack" \in startup'.channels => ChannelKept'
    BY <1>1, <1>2 DEF Undisturbed, ChannelKept
<1> QED BY <1>3, <1>4, <1>5, <1>6 DEF Undisturbed

LEMMA CloseKeepsUndisturbed ==
    ASSUME ConfigTypeOK, Undisturbed, NEW w \in Wizards, Close(w)
    PROVE  Undisturbed'
<1> USE DEF ConfigTypeOK
<1>1. /\ wizard' = [wizard EXCEPT ![w] = "idle"] /\ wizard[w] = "opened"
      /\ copy' = copy /\ config' = config /\ startup' = startup /\ serving' = serving
    BY DEF Close, loadVars
<1>2. file = Empty
    BY <1>1 DEF Undisturbed, FileWhole, Opened
<1>3. file' = [Updated(w, copy[w]) EXCEPT !.tail = FALSE]
    BY <1>2 DEF Close
<1>4. /\ ~file'.tail /\ file'.tuned = copy[w].tuned
      /\ "slack" \in file'.channels <=> "slack" \in copy[w].channels
    BY <1>3, UpdatedDocument DEF Document
<1>5. \A v \in Wizards : ~Busy(v)'
    BY <1>1 DEF Undisturbed, OneWriter, Busy
<1>6. ~Opened'
    BY <1>5 DEF Opened, Busy
<1>7. FileWhole'
    BY <1>1, <1>4, <1>6 DEF Undisturbed, FileWhole, CopyWhole, Whole, Busy
<1>8. serving' /\ "slack" \in startup'.channels => ChannelKept'
    BY <1>1, <1>4, <1>5 DEF Undisturbed, ChannelKept, Busy
<1> QED BY <1>5, <1>7, <1>8 DEF Undisturbed, OneWriter

LEMMA AbortKeepsUndisturbed ==
    ASSUME ConfigTypeOK, Undisturbed, NEW w \in Wizards, Abort(w), wizard[w] # "opened"
    PROVE  Undisturbed'
<1> USE DEF ConfigTypeOK
<1>1. /\ wizard' = [wizard EXCEPT ![w] = "idle"] /\ file' = file /\ copy' = copy
      /\ config' = config /\ startup' = startup /\ serving' = serving
    BY DEF Abort, loadVars
<1>2. /\ \A v \in Wizards : Busy(v)' => Busy(v) /\ wizard'[v] = wizard[v]
      /\ Opened' <=> Opened
    BY <1>1 DEF Opened, Busy
<1> QED BY <1>1, <1>2 DEF Undisturbed, OneWriter, FileWhole, CopyWhole, ChannelKept, Whole

(* The operator finds nobody writing. *)
LEMMA OperatorKeepsUndisturbed ==
    ASSUME ConfigTypeOK, Undisturbed, Edit \/ (InitCommand /\ file.channels = {}),
           \A w \in Wizards : ~Busy(w)
    PROVE  Undisturbed'
<1> USE DEF ConfigTypeOK
<1>1. /\ wizard' = wizard /\ copy' = copy
      /\ config' = config /\ startup' = startup /\ serving' = serving
    BY DEF Edit, InitCommand, loadVars
<1>2. /\ ~file'.tail
      /\ "slack" \in file'.channels => file'.tuned
      /\ "slack" \in file.channels => "slack" \in file'.channels
    BY EmptyDocument DEF Edit, InitCommand, Undisturbed, FileWhole, Whole, Document
<1>3. ~Opened /\ ~Opened' /\ \A w \in Wizards : ~Busy(w)'
    BY <1>1 DEF Opened, Busy
<1> QED BY <1>1, <1>2, <1>3 DEF Undisturbed, OneWriter, FileWhole, ChannelKept, Whole

(* A document that is loaded and accepted is the file, as it is whole. *)
LEMMA LoadKeepsUndisturbed ==
    ASSUME ConfigTypeOK, Undisturbed, NEW doc \in Loads(file), Valid(doc), config' = doc,
           startup' = doc \/ (serving /\ startup' = startup),
           UNCHANGED fileVars
    PROVE  Undisturbed'
<1> USE DEF ConfigTypeOK
<1>1. file' = file /\ wizard' = wizard /\ copy' = copy
    BY DEF fileVars
<1>2. doc.channels = file.channels /\ doc.tuned = file.tuned /\ doc.channels # {}
    BY LoadsDocument DEF Valid, Undisturbed, FileWhole, Whole
<1>3. ~Opened
    BY <1>2 DEF Undisturbed, FileWhole
<1>4. "slack" \in startup'.channels => ChannelKept' \/ ~serving'
    <2> SUFFICES ASSUME "slack" \in startup'.channels PROVE ChannelKept'
        OBVIOUS
    <2>1. "slack" \in file.channels
        BY <1>2, <1>3 DEF Undisturbed, ChannelKept
    <2>2. \A w \in Wizards : Busy(w) => wizard[w] = "read"
        BY <1>3 DEF Busy, Opened
    <2>3. \A w \in Wizards : Busy(w) => "slack" \in copy[w].channels
        BY <2>1, <2>2 DEF Undisturbed, CopyWhole
    <2> QED BY <1>1, <1>2, <2>1, <2>3 DEF Undisturbed, FileWhole, Whole, ChannelKept, Opened, Busy
<1> QED BY <1>1, <1>4 DEF Undisturbed, OneWriter, FileWhole, CopyWhole, Whole, Opened, Busy

LEMMA ConfigInvariantPreserved ==
    ConfigTypeOK /\ ConfigInvariant /\ [ConfigNext]_configVars => ConfigInvariant'
<1> SUFFICES ASSUME ConfigTypeOK, ConfigInvariant, [ConfigNext]_configVars PROVE ConfigInvariant'
    OBVIOUS
<1>1. ASSUME NEW w \in Wizards, Read(w) PROVE ConfigInvariant'
    <2>1. ~disturbed' => ~disturbed /\ \A v \in Wizards \ {w} : ~Busy(v)
        BY <1>1 DEF Read, Busy
    <2> QED BY <1>1, <2>1, ReadKeepsUndisturbed DEF ConfigInvariant, Read, loadVars
<1>2. ASSUME NEW w \in Wizards, Open(w) PROVE ConfigInvariant'
    BY <1>2, OpenKeepsUndisturbed DEF ConfigInvariant, Open, loadVars
<1>3. ASSUME NEW w \in Wizards, Close(w) PROVE ConfigInvariant'
    BY <1>3, CloseKeepsUndisturbed DEF ConfigInvariant, Close, loadVars
<1>4. ASSUME NEW w \in Wizards, Abort(w) PROVE ConfigInvariant'
    BY <1>4, AbortKeepsUndisturbed DEF ConfigInvariant, Abort, loadVars
<1>5. CASE Edit
    <2>1. ~disturbed' => ~disturbed /\ \A w \in Wizards : ~Busy(w)
        BY <1>5 DEF Edit, Busy
    <2> QED BY <1>5, <2>1, OperatorKeepsUndisturbed DEF ConfigInvariant, Edit, loadVars
<1>6. CASE InitCommand
    <2>1. ~disturbed' => ~disturbed /\ file.channels = {} /\ \A w \in Wizards : ~Busy(w)
        BY <1>6 DEF InitCommand, Busy
    <2> QED BY <1>6, <2>1, OperatorKeepsUndisturbed DEF ConfigInvariant, InitCommand, loadVars
<1>7. CASE Start
    <2>1. PICK doc \in Loads(file) : Valid(doc) /\ config' = doc /\ startup' = doc
        BY <1>7 DEF Start
    <2> QED BY <1>7, <2>1, LoadKeepsUndisturbed DEF ConfigInvariant, Start, Valid
<1>8. CASE Reload
    <2>1. PICK doc \in Loads(file) : Valid(doc) /\ config' = doc
        BY <1>8 DEF Reload
    <2> QED BY <1>8, <2>1, LoadKeepsUndisturbed DEF ConfigInvariant, Reload, Valid
<1>9. CASE End
    BY <1>9 DEF End, fileVars, ConfigInvariant, Undisturbed, OneWriter, FileWhole, CopyWhole,
                Whole, Opened, Busy
<1>10. CASE UNCHANGED configVars
    BY <1>10 DEF configVars, fileVars, loadVars, ConfigInvariant, Undisturbed, OneWriter,
                 FileWhole, CopyWhole, ChannelKept, Whole, Opened, Busy
<1> QED BY <1>1, <1>2, <1>3, <1>4, <1>5, <1>6, <1>7, <1>8, <1>9, <1>10 DEF ConfigNext

LEMMA ConfigInvariantGivesWhole == ConfigInvariant => RunsWholeConfig
BY DEF ConfigInvariant, Undisturbed, ChannelKept, RunsWholeConfig

(***************************************************************************)
(* Whatever reloads and restarts find in the file, the daemon runs with a  *)
(* channel; and with all of the operator's settings unless two writers     *)
(* overlapped, one was killed over an open file or init replaced one.      *)
(***************************************************************************)
THEOREM WholeConfig == ConfigSpec => []RunsWholeConfig
<1>1. ConfigInit => ConfigTypeOK /\ ConfigInvariant
    BY TypesInitially, ConfigInvariantInitially
<1>2. ConfigTypeOK /\ ConfigInvariant /\ [ConfigNext]_configVars => (ConfigTypeOK /\ ConfigInvariant)'
    BY TypesPreserved, ConfigInvariantPreserved
<1> QED BY <1>1, <1>2, ConfigInvariantGivesWhole, PTL DEF ConfigSpec

-----------------------------------------------------------------------------
(* ----------------------------- The requests ---------------------------- *)

Entries == Fingerprints \cup {Hole}

(* Pieces of a sequence one after the other are such a sequence. *)
LEMMA KeptType ==
    ASSUME NEW S, NEW n \in Nat, NEW chunk \in [1..n -> Seq(S)]
    PROVE  (CHOOSE f : f = [i \in 0..n |-> IF i = 0 THEN <<>> ELSE f[i - 1] \o chunk[i]])[n] \in Seq(S)
<1> DEFINE cat(x, i) == x \o chunk[i]
           kept == CHOOSE f : f = [i \in 0..n |-> IF i = 0 THEN <<>> ELSE cat(f[i - 1], i)]
           next == [p \in Seq(S) \X (1..n) |-> cat(p[1], p[2])]
<1>1. <<>> \in Seq(S) /\ \A x \in Seq(S), i \in 1..n : cat(x, i) \in Seq(S)
    OBVIOUS
<1> SUFFICES kept[n] \in Seq(S)
    OBVIOUS
<1> HIDE DEF cat
<1>2. /\ next \in [Seq(S) \X (1..n) -> Seq(S)]
      /\ \A x \in Seq(S), i \in 1..n : next[<<x, i>>] = cat(x, i)
    BY <1>1
<1>3. \A i \in 0..n : i # 0 => i \in 1..n
    OBVIOUS
<1>4. \A i \in 1..n : i # 0 /\ i \in 0..n /\ i - 1 \in 0..n
    OBVIOUS
<1> HIDE DEF next, kept
<1>5. PICK f \in [0..n -> Seq(S)] : Recursion(f, n, <<>>, next)
    BY <1>1, <1>2, RecursionExists
<1>6. f = [i \in 0..n |-> IF i = 0 THEN <<>> ELSE cat(f[i - 1], i)]
    <2>1. ASSUME NEW i \in 1..n PROVE f[i] = cat(f[i - 1], i)
        <3>1. f[i] = next[<<f[i - 1], i>>]
            BY <1>5 DEF Recursion
        <3>2. f[i - 1] \in Seq(S)
            BY <1>4
        <3> QED BY <1>2, <3>1, <3>2
    <2> QED BY <1>3, <1>5, <2>1 DEF Recursion
<1>7. kept = [i \in 0..n |-> IF i = 0 THEN <<>> ELSE cat(kept[i - 1], i)]
    BY <1>6, Zenon DEF kept
<1>8. kept[0] = <<>> /\ \A i \in 1..n : kept[i] = cat(kept[i - 1], i)
    <2>1. ASSUME NEW g, kept = [i \in 0..n |-> IF i = 0 THEN <<>> ELSE cat(g[i - 1], i)]
          PROVE  kept[0] = <<>> /\ \A i \in 1..n : kept[i] = cat(g[i - 1], i)
        BY <1>4, <2>1
    <2> QED BY <1>7, <2>1
<1>9. \A i \in 1..n : kept[i - 1] \in Seq(S) => kept[i] \in Seq(S)
    BY <1>1, <1>8
<1>10. \A i \in 0..n : kept[i] \in Seq(S)
    BY <1>1, <1>8, <1>9, ValuesBelong
<1> QED BY <1>10

(* A dictionary that is rebuilt without its holes is a dictionary. *)
LEMMA RebuiltType == ASSUME NEW d \in Seq(Entries) PROVE Rebuilt(d) \in Seq(Entries)
<1> DEFINE n == Len(d)
           chunk == [i \in 1..n |-> IF d[i] = Hole THEN <<>> ELSE <<d[i]>>]
           kept == CHOOSE f : f = [i \in 0..n |-> IF i = 0 THEN <<>> ELSE f[i - 1] \o chunk[i]]
<1>1. n \in Nat /\ chunk \in [1..n -> Seq(Entries)]
    OBVIOUS
<1>2. kept[n] \in Seq(Entries)
    <2> HIDE DEF n, chunk
    <2> QED BY <1>1, KeptType
<1>3. ASSUME NEW i \in 0..n, i # 0
      PROVE  chunk[i] = IF d[i] = Hole THEN <<>> ELSE <<d[i]>>
    BY <1>3
<1>4. \A f : [i \in 0..n |-> IF i = 0 THEN <<>> ELSE f[i - 1] \o chunk[i]]
             = [i \in 0..n |-> IF i = 0 THEN <<>> ELSE f[i - 1] \o (IF d[i] = Hole THEN <<>> ELSE <<d[i]>>)]
    <2> HIDE DEF chunk
    <2> QED BY <1>3
<1> QED BY <1>2, <1>4 DEF Rebuilt

-----------------------------------------------------------------------------
(* The snapshots are never behind the time of the collection, and only one *)
(* cycle ahead of it; who was told that the daemon is ready missed none.   *)
Ahead ==
    /\ last = round /\ stamp <= last /\ last <= stamp + 1
    /\ step # "stamp" => stamp = round
    /\ ready => last > 0

(* What a status has read is not newer than what the daemon has now. *)
InStatus ==
    /\ request.kind = "status" =>
          /\ \A i \in DOMAIN reads : reads[i] <= last
          /\ Len(reads) <= 4 /\ (request.at = "reading" => Len(reads) <= 3)
    /\ request.kind = "none" => request = NoRequest /\ reads = <<>> /\ got = {}

Passed(d) == {i \in DOMAIN d : i <= request.position /\ d[i] # Hole}

(* As long as the dictionary that is listed stays as it was, its entries   *)
(* up to the iterator's position are those that were collected.            *)
InListing ==
    request.kind \in Listing =>
        /\ Keys(Listed) \subseteq ever /\ got \subseteq ever
        /\ request.at = "failed" => changed
        /\ ~changed => /\ ever = Keys(Listed) /\ request.used = Used(Listed)
                       /\ got = {Listed[i] : i \in Passed(Listed)}
                       /\ request.at = "answered" => Rest(Listed) = {}

RequestsInvariant == RequestsTypeOK /\ Ahead /\ ReadyHasSnapshots /\ StatusInOrder /\ InStatus /\ InListing

-----------------------------------------------------------------------------
(* The dictionaries and what the operations make of them. *)
RequestType ==
    [kind : {"none", "metrics", "status"} \cup Listing,
     at : {"idle", "reading", "answered", "failed"}, detached : BOOLEAN,
     over : Seq(Entries), position : Nat, used : Nat]

LEMMA UsedType == ASSUME NEW d \in Seq(Entries) PROVE Used(d) \in Nat
<1>1. IsFiniteSet(1..Len(d))
    BY FS_Interval
<1>2. {i \in DOMAIN d : d[i] # Hole} \subseteq 1..Len(d)
    OBVIOUS
<1>3. IsFiniteSet({i \in DOMAIN d : d[i] # Hole})
    BY <1>1, <1>2, FS_Subset
<1> QED BY <1>3, FS_CardinalityType DEF Used

LEMMA KeysType == ASSUME NEW d \in Seq(Entries) PROVE Keys(d) \subseteq Fingerprints
BY DEF Keys, Range, Entries

LEMMA KeysAre == ASSUME NEW d \in Seq(Entries) PROVE Keys(d) = {d[i] : i \in {j \in DOMAIN d : d[j] # Hole}}
BY DEF Keys, Range

LEMMA InsertedType == ASSUME NEW d \in Seq(Entries), NEW k \in Fingerprints PROVE Inserted(d, k) \in Seq(Entries)
BY RebuiltType DEF Inserted, Entries

LEMMA DeletedType == ASSUME NEW d \in Seq(Entries), NEW k PROVE Deleted(d, k) \in Seq(Entries)
BY DEF Deleted, Entries

-----------------------------------------------------------------------------
(* The invariant of the requests, action by action. *)
LEMMA RequestsInitially == RequestsInit => RequestsInvariant
<1> SUFFICES ASSUME RequestsInit PROVE RequestsInvariant
    OBVIOUS
<1> USE DEF RequestsInit, NoRequest
<1>1. RequestsTypeOK
    <2>1. <<>> \in Seq(Entries) /\ <<>> \in Seq(0..Rounds)
        OBVIOUS
    <2>2. 0 \in 0..Rounds
        BY RoomAssumption
    <2>3. request \in RequestType
        BY <2>1 DEF RequestType
    <2>4. /\ step = "collect" /\ round = 0 /\ last = 0 /\ stamp = 0 /\ watched \in Listing /\ dict = <<>>
          /\ swaps = 0 /\ got = {} /\ reads = <<>> /\ ready = FALSE /\ ever = {} /\ changed = FALSE
        OBVIOUS
    <2> HIDE DEF RequestsInit, NoRequest
    <2>5. dict \in Seq(Entries) /\ reads \in Seq(0..Rounds)
        BY <2>1, <2>4
    <2>6. round \in 0..Rounds /\ last \in 0..Rounds /\ stamp \in 0..Rounds /\ swaps \in 0..1
        BY <2>2, <2>4
    <2>7. /\ step \in {"collect", "stamp", "update", "recover", "dispatch"} /\ watched \in Listing
          /\ got \subseteq Fingerprints /\ ever \subseteq Fingerprints /\ ready \in BOOLEAN /\ changed \in BOOLEAN
        BY <2>4
    <2> QED BY <2>3, <2>5, <2>6, <2>7 DEF RequestsTypeOK, Entries, RequestType
<1>2. Ahead /\ ReadyHasSnapshots /\ StatusInOrder /\ InStatus /\ InListing
    BY DEF Ahead, ReadyHasSnapshots, StatusInOrder, InStatus, InListing, Listing
<1> QED BY <1>1, <1>2 DEF RequestsInvariant

LEMMA DictChanges ==
    ASSUME RequestsInvariant, NEW d \in Seq(Entries), Becomes(d)
    PROVE  RequestsInvariant'
<1>1. /\ UNCHANGED <<step, round, last, stamp, watched, swaps, request, got, reads, ready>> /\ dict' = d
      /\ Keys(d) \subseteq Fingerprints
    BY KeysType DEF Becomes, threadVars
<1>2. RequestsTypeOK'
    BY <1>1 DEF RequestsTypeOK, RequestsInvariant, Becomes, Entries
<1>3. Ahead' /\ ReadyHasSnapshots' /\ StatusInOrder' /\ InStatus'
    BY <1>1 DEF Ahead, ReadyHasSnapshots, StatusInOrder, InStatus, RequestsInvariant
<1>4. InListing'
    <2> SUFFICES ASSUME request.kind \in Listing
                 PROVE  InListing'
        BY <1>1 DEF InListing
    <2>1. CASE request.detached
        <3>1. Listed' = Listed /\ UNCHANGED <<ever, changed>>
            BY <1>1, <2>1 DEF Listed, Becomes
        <3> QED BY <1>1, <3>1 DEF InListing, RequestsInvariant, Passed, Rest
    <2>2. CASE ~request.detached
        <3>1. Listed' = d /\ ever' = ever \cup Keys(d) /\ changed' = TRUE
            BY <1>1, <2>2 DEF Listed, Becomes
        <3> QED BY <1>1, <3>1 DEF InListing, RequestsInvariant
    <2> QED BY <2>1, <2>2, <1>2 DEF RequestsTypeOK
<1> QED BY <1>2, <1>3, <1>4 DEF RequestsInvariant

LEMMA MainThreadKeeps ==
    ASSUME RequestsInvariant, Collected \/ NextStep
    PROVE  RequestsInvariant'
<1>1. /\ UNCHANGED <<watched, dict, swaps, request, got, reads, ready, ever, changed>>
      /\ round \in Nat /\ last \in Nat /\ stamp \in Nat /\ Rounds \in Nat
    BY RoomAssumption DEF Collected, SnapshotsSet, StampSet, NextStep, Unseen, threadVars, RequestsInvariant, RequestsTypeOK
<1>2. RequestsTypeOK' /\ Ahead' /\ last <= last'
    BY <1>1 DEF RequestsInvariant, RequestsTypeOK, Ahead, Collected, SnapshotsSet, StampSet, NextStep, Moves
<1>3. ReadyHasSnapshots' /\ StatusInOrder'
    BY <1>1 DEF RequestsInvariant, ReadyHasSnapshots, StatusInOrder
<1>4. InStatus'
    BY <1>1, <1>2 DEF InStatus, RequestsInvariant, RequestsTypeOK
<1>5. InListing'
    BY <1>1 DEF InListing, RequestsInvariant, Listed, Passed, Rest
<1> QED BY <1>2, <1>3, <1>4, <1>5 DEF RequestsInvariant

LEMMA SwapKeeps ==
    ASSUME RequestsInvariant, SwapRouter
    PROVE  RequestsInvariant'
<1>1. /\ UNCHANGED <<step, round, last, stamp, watched, got, reads, ready, ever, changed>>
      /\ dict' = <<>> /\ swaps' = 1
      /\ request' = IF request.kind \in Listing /\ ~request.detached
                    THEN [request EXCEPT !.detached = TRUE, !.over = dict] ELSE request
    BY DEF SwapRouter, threadVars
<1>2. RequestsTypeOK
    BY DEF RequestsInvariant
<1>3. <<>> \in Seq(Entries)
    OBVIOUS
<1>4. RequestsTypeOK'
    <2>1. request \in RequestType /\ dict \in Seq(Entries)
        BY <1>2 DEF RequestsTypeOK, RequestType, Entries
    <2>2. request' \in RequestType
        BY <1>1, <2>1 DEF RequestType
    <2> QED BY <1>1, <1>2, <1>3, <2>2 DEF RequestsTypeOK, Entries, RequestType
<1>5. request'.kind = request.kind /\ request'.at = request.at /\ request'.position = request.position
      /\ request'.used = request.used /\ (request.kind \notin Listing => request' = request)
    BY <1>1, <1>2 DEF RequestsTypeOK
<1>6. Ahead' /\ ReadyHasSnapshots' /\ StatusInOrder' /\ InStatus'
    BY <1>1, <1>5 DEF Ahead, ReadyHasSnapshots, StatusInOrder, InStatus, RequestsInvariant, NoRequest, Listing
<1>7. request.kind \in Listing => Listed' = Listed
    BY <1>1, <1>2 DEF Listed, RequestsTypeOK
<1>8. InListing'
    BY <1>1, <1>5, <1>7 DEF InListing, RequestsInvariant, Passed, Rest
<1> QED BY <1>4, <1>6, <1>8 DEF RequestsInvariant

-----------------------------------------------------------------------------
LEMMA AnswersKeep ==
    ASSUME RequestsInvariant, AnswerReady \/ AnswerMetrics
    PROVE  RequestsInvariant'
<1>1. /\ UNCHANGED <<step, round, last, stamp, watched, dict, swaps, got, ever, changed>>
      /\ request.kind = "none" /\ request'.kind \in {"none", "metrics"}
    BY DEF AnswerReady, AnswerMetrics, mainVars, NoRequest
<1>2. RequestsTypeOK
    BY DEF RequestsInvariant
<1>3. RequestsTypeOK'
    <2>1. request' \in RequestType
        <3>1. <<>> \in Seq(Entries) /\ request \in RequestType
            BY <1>2 DEF RequestsTypeOK, RequestType, Entries
        <3>2. CASE AnswerReady
            BY <3>1, <3>2 DEF AnswerReady
        <3>3. CASE AnswerMetrics
            BY <3>1, <3>3 DEF AnswerMetrics, NoRequest, RequestType
        <3> QED BY <3>2, <3>3
    <2>2. reads' \in Seq(0..Rounds)
        <3>1. reads \in Seq(0..Rounds) /\ <<last>> \in Seq(0..Rounds)
            BY <1>2 DEF RequestsTypeOK
        <3> QED BY <3>1 DEF AnswerReady, AnswerMetrics
    <2>3. ready' \in BOOLEAN
        BY <1>2, Zenon DEF RequestsTypeOK, AnswerReady, AnswerMetrics
    <2> QED BY <1>1, <1>2, <2>1, <2>2, <2>3 DEF RequestsTypeOK, RequestType, Entries
<1>4. Ahead'
    BY <1>1, <1>2 DEF AnswerReady, AnswerMetrics, Ahead, RequestsInvariant, RequestsTypeOK
<1>5. ReadyHasSnapshots'
    <2>1. CASE AnswerReady
        BY <1>1, <2>1 DEF AnswerReady, ReadyHasSnapshots
    <2>2. CASE AnswerMetrics
        <3>1. ready' = ready /\ reads'[1] = last /\ (ready => last > 0)
            BY <2>2 DEF AnswerMetrics, RequestsInvariant, Ahead
        <3> QED BY <3>1 DEF ReadyHasSnapshots
    <2> QED BY <2>1, <2>2
<1>6. StatusInOrder' /\ InStatus' /\ InListing'
    BY <1>1, <1>2 DEF AnswerReady, AnswerMetrics, StatusInOrder, InStatus, InListing, RequestsInvariant, Listing, NoRequest
<1> QED BY <1>3, <1>4, <1>5, <1>6 DEF RequestsInvariant

LEMMA StatusKeeps ==
    ASSUME RequestsInvariant, ReadStatus
    PROVE  RequestsInvariant'
<1> DEFINE now == IF Len(reads) < 3 THEN last ELSE stamp
           how == IF Len(reads) < 3 THEN "reading" ELSE "answered"
<1>1. /\ UNCHANGED <<step, round, last, stamp, watched, dict, swaps, got, ready, ever, changed>>
      /\ request' = [NoRequest EXCEPT !.kind = "status", !.at = how] /\ reads' = Append(reads, now)
    BY DEF ReadStatus, mainVars
<1>2. RequestsTypeOK /\ reads \in Seq(0..Rounds) /\ now \in 0..Rounds /\ stamp \in Nat /\ last \in Nat
      /\ stamp <= now /\ now <= last /\ last <= stamp + 1
    BY RoomAssumption DEF RequestsInvariant, RequestsTypeOK, Ahead
<1>3. Len(reads) <= 3 /\ \A i \in DOMAIN reads : reads[i] <= last
    BY DEF RequestsInvariant, InStatus, ReadStatus
<1>4. /\ Len(reads') = Len(reads) + 1 /\ Len(reads') \in Nat
      /\ \A i \in DOMAIN reads : reads'[i] = reads[i]
      /\ reads'[Len(reads) + 1] = now
      /\ \A i \in DOMAIN reads' : i \in DOMAIN reads \/ i = Len(reads) + 1
    BY <1>1, <1>2
<1>5. request'.kind = "status" /\ request'.at = how
    BY <1>1 DEF NoRequest
<1>6. RequestsTypeOK'
    <2>1. reads' \in Seq(0..Rounds)
        BY <1>1, <1>2
    <2>2. <<>> \in Seq(Entries)
        OBVIOUS
    <2>3. request' \in RequestType
        BY <1>1, <2>2 DEF NoRequest, RequestType
    <2> QED BY <1>1, <1>2, <2>1, <2>3 DEF RequestsTypeOK, RequestType, Entries
<1>7. InStatus'
    BY <1>1, <1>2, <1>3, <1>4, <1>5 DEF InStatus
<1>8. StatusInOrder'
    <2> SUFFICES ASSUME NEW i \in DOMAIN reads', NEW j \in DOMAIN reads', i < j
                 PROVE  reads'[i] <= reads'[j] + (IF j = 4 THEN 1 ELSE 0)
        BY DEF StatusInOrder
    <2>1. reads'[i] \in Nat /\ reads'[j] \in Nat /\ i \in DOMAIN reads
        BY <1>2, <1>4, RoomAssumption
    <2>2. CASE j \in DOMAIN reads
        <3>1. request.kind = "status"
            BY <2>1 DEF ReadStatus, RequestsInvariant, InStatus, NoRequest
        <3> QED BY <1>4, <2>1, <2>2, <3>1 DEF StatusInOrder, RequestsInvariant
    <2>3. CASE j = Len(reads) + 1
        <3>1. reads[i] <= last /\ reads'[i] = reads[i] /\ reads'[j] = now /\ (j = 4 => now = stamp) /\ (j # 4 => now = last)
            BY <1>2, <1>3, <1>4, <2>1, <2>3
        <3> QED BY <1>2, <2>1, <3>1
    <2> QED BY <1>4, <2>2, <2>3
<1>9. Ahead' /\ ReadyHasSnapshots' /\ InListing'
    BY <1>1, <1>5 DEF Ahead, RequestsInvariant, ReadyHasSnapshots, InListing, Listing
<1> QED BY <1>6, <1>7, <1>8, <1>9 DEF RequestsInvariant

-----------------------------------------------------------------------------
LEMMA BeginKeeps ==
    ASSUME RequestsInvariant, BeginListing
    PROVE  RequestsInvariant'
<1> DEFINE cut == watched = "alerts" /\ Keys(dict) = {}
<1>1. /\ UNCHANGED <<step, round, last, stamp, watched, dict, swaps, got, reads, ready>>
      /\ request.kind = "none" /\ ever' = Keys(dict) /\ changed' = FALSE
      /\ request' = [NoRequest EXCEPT !.kind = watched, !.at = "reading", !.used = Used(dict), !.detached = cut]
    BY DEF BeginListing, mainVars, threadVars
<1>2. RequestsTypeOK /\ dict \in Seq(Entries) /\ watched \in Listing /\ cut \in BOOLEAN
    BY DEF RequestsInvariant, RequestsTypeOK, Entries
<1>3. Used(dict) \in Nat /\ Keys(dict) \subseteq Fingerprints /\ <<>> \in Seq(Entries)
    BY <1>2, UsedType, KeysType
<1>4. got = {} /\ reads = <<>>
    BY <1>1 DEF RequestsInvariant, InStatus
<1> HIDE DEF cut
<1>5. request' \in RequestType
    BY <1>1, <1>2, <1>3 DEF RequestType, NoRequest
<1>6. /\ request'.kind = watched /\ request'.at = "reading" /\ request'.used = Used(dict)
      /\ request'.detached = cut /\ request'.over = <<>> /\ request'.position = 0
    BY <1>1 DEF NoRequest
<1>7. RequestsTypeOK'
    BY <1>1, <1>2, <1>3, <1>5 DEF RequestsTypeOK, RequestType, Entries
<1>8. Ahead' /\ ReadyHasSnapshots' /\ StatusInOrder' /\ InStatus'
    BY <1>1, <1>2, <1>6 DEF Ahead, ReadyHasSnapshots, StatusInOrder, InStatus, RequestsInvariant, Listing
<1>9. Used(Listed') = Used(dict) /\ Keys(Listed') = Keys(dict)
    <2>1. CASE ~cut
        BY <1>1, <1>6, <2>1 DEF Listed
    <2>2. CASE cut
        <3>1. Listed' = <<>> /\ Keys(dict) = {}
            BY <1>6, <2>2 DEF Listed, cut
        <3>2. {i \in DOMAIN dict : dict[i] # Hole} = {}
            BY <3>1 DEF Keys, Range
        <3>5. {i \in DOMAIN Listed' : Listed'[i] # Hole} = {}
            BY <3>1
        <3>3. Used(Listed') = Used(dict)
            BY <3>2, <3>5 DEF Used
        <3>4. Keys(<<>>) = {}
            BY DEF Keys, Range
        <3> QED BY <3>1, <3>3, <3>4
    <2> QED BY <2>1, <2>2
<1>10. Passed(Listed)' = {}
    <2>1. Listed' \in Seq(Entries)
        BY <1>1, <1>2, <1>3, <1>6 DEF Listed
    <2>2. \A i \in DOMAIN Listed' : ~(i <= 0)
        BY <2>1
    <2> QED BY <1>6, <2>2 DEF Passed
<1>11. InListing'
    BY <1>1, <1>4, <1>6, <1>9, <1>10 DEF InListing
<1> QED BY <1>7, <1>8, <1>11 DEF RequestsInvariant

LEMMA EntryKeeps ==
    ASSUME RequestsInvariant, NextEntry
    PROVE  RequestsInvariant'
<1> DEFINE next == CHOOSE i \in Rest(Listed) : \A j \in Rest(Listed) : i <= j
<1>1. /\ UNCHANGED <<step, round, last, stamp, watched, dict, swaps, reads, ready, ever, changed>>
      /\ request.kind \in Listing /\ request.at = "reading"
    BY DEF NextEntry, mainVars
<1>2. RequestsTypeOK /\ dict \in Seq(Entries) /\ request \in RequestType /\ Listed \in Seq(Entries)
    BY DEF RequestsInvariant, RequestsTypeOK, RequestType, Entries, Listed
<1>3. InListing /\ Keys(Listed) \subseteq ever /\ got \subseteq ever
    BY <1>1 DEF RequestsInvariant, InListing
<1>4. \/ Used(Listed) # request.used /\ Ends("failed") /\ UNCHANGED got
      \/ Used(Listed) = request.used /\ Rest(Listed) = {} /\ Ends("answered") /\ UNCHANGED got
      \/ Used(Listed) = request.used /\ Rest(Listed) # {} /\ got' = got \cup {Listed[next]}
         /\ request' = [request EXCEPT !.position = next]
    BY DEF NextEntry
<1> HIDE DEF next
<1>5. CASE request' \in {[request EXCEPT !.at = "failed"], [request EXCEPT !.at = "answered"]} /\ UNCHANGED got
    <2>1. /\ request' \in RequestType /\ request'.at \in {"failed", "answered"}
          /\ UNCHANGED <<request.kind, request.detached, request.over, request.position, request.used>>
        BY <1>2, <1>5 DEF RequestType
    <2>2. RequestsTypeOK'
        BY <1>1, <1>2, <1>5, <2>1 DEF RequestsTypeOK, RequestType, Entries
    <2>3. Ahead' /\ ReadyHasSnapshots' /\ StatusInOrder' /\ InStatus'
        BY <1>1, <1>5, <2>1 DEF Ahead, ReadyHasSnapshots, StatusInOrder, InStatus, RequestsInvariant, Listing
    <2>4. Listed' = Listed /\ Passed(Listed)' = Passed(Listed) /\ Rest(Listed)' = Rest(Listed)
        BY <1>1, <2>1 DEF Listed, Passed, Rest
    <2>5. request'.at = "failed" => Used(Listed) # request.used
        BY <1>1, <1>2, <1>4 DEF Ends, RequestType
    <2>6. request'.at = "answered" => Rest(Listed) = {}
        BY <1>1, <1>2, <1>4 DEF Ends, RequestType
    <2>7. InListing'
        BY <1>1, <1>3, <1>5, <2>1, <2>4, <2>5, <2>6 DEF InListing
    <2> QED BY <2>2, <2>3, <2>7 DEF RequestsInvariant
<1>6. CASE Rest(Listed) # {} /\ got' = got \cup {Listed[next]} /\ request' = [request EXCEPT !.position = next]
    <2>1. Rest(Listed) \subseteq Nat
        BY <1>2 DEF Rest
    <2>2. \E i \in Rest(Listed) : \A j \in Rest(Listed) : i <= j
        BY <1>6, <2>1, LeastNumber
    <2>3. next \in Rest(Listed) /\ \A j \in Rest(Listed) : next <= j
        BY <2>2 DEF next
    <2>4. /\ next \in DOMAIN Listed /\ next \in Nat /\ Listed[next] # Hole /\ next > request.position
          /\ Listed[next] \in Keys(Listed) /\ Listed[next] \in Fingerprints
        BY <1>2, <2>1, <2>3 DEF Rest, Keys, Range, Entries
    <2>5. /\ request' \in RequestType /\ request'.at = request.at /\ request'.position = next
          /\ UNCHANGED <<request.kind, request.detached, request.over, request.used>>
        BY <1>2, <1>6, <2>4 DEF RequestType
    <2>6. RequestsTypeOK'
        BY <1>1, <1>2, <1>6, <2>4, <2>5 DEF RequestsTypeOK, RequestType, Entries
    <2>7. Ahead' /\ ReadyHasSnapshots' /\ StatusInOrder' /\ InStatus'
        BY <1>1, <2>5 DEF Ahead, ReadyHasSnapshots, StatusInOrder, InStatus, RequestsInvariant, Listing
    <2>8. Listed' = Listed
        BY <1>1, <2>5 DEF Listed
    <2>9. Passed(Listed)' = Passed(Listed) \cup {next}
        <3>1. \A i \in DOMAIN Listed : Listed[i] # Hole => (i <= next <=> (i <= request.position \/ i = next))
            BY <1>2, <2>3, <2>4 DEF Rest, RequestType
        <3> QED BY <2>4, <2>5, <2>8, <3>1 DEF Passed
    <2>10. InListing'
        <3>1. got' \subseteq ever' /\ Keys(Listed') \subseteq ever' /\ request'.at = "reading" /\ changed' = changed
            BY <1>1, <1>3, <1>6, <2>4, <2>5, <2>8
        <3>2. ASSUME ~changed
              PROVE  /\ ever' = Keys(Listed)' /\ request'.used = Used(Listed)'
                     /\ got' = {Listed'[i] : i \in Passed(Listed)'}
            <4>1. ever = Keys(Listed) /\ request.used = Used(Listed) /\ got = {Listed[i] : i \in Passed(Listed)}
                BY <1>1, <1>3, <3>2 DEF InListing
            <4>2. got' = {Listed[i] : i \in Passed(Listed) \cup {next}}
                BY <1>6, <4>1
            <4> QED BY <1>1, <2>5, <2>8, <2>9, <4>1, <4>2
        <3> QED BY <3>1, <3>2 DEF InListing
    <2> QED BY <2>6, <2>7, <2>10 DEF RequestsInvariant
<1> QED BY <1>4, <1>5, <1>6 DEF Ends

LEMMA CloseKeeps ==
    ASSUME RequestsInvariant, Closed
    PROVE  RequestsInvariant'
<1>1. /\ UNCHANGED <<step, round, last, stamp, watched, dict, swaps, ready>>
      /\ request' = NoRequest /\ got' = {} /\ reads' = <<>> /\ ever' = {} /\ changed' = FALSE
    BY DEF Closed, mainVars
<1>2. RequestsTypeOK'
    <2>1. <<>> \in Seq(Entries) /\ <<>> \in Seq(0..Rounds)
        OBVIOUS
    <2>2. NoRequest \in RequestType
        BY <2>1 DEF RequestType, NoRequest
    <2> QED BY <1>1, <2>1, <2>2 DEF RequestsInvariant, RequestsTypeOK, RequestType, Entries
<1>3. Ahead' /\ ReadyHasSnapshots' /\ StatusInOrder' /\ InStatus' /\ InListing'
    BY <1>1 DEF RequestsInvariant, Ahead, ReadyHasSnapshots, StatusInOrder, InStatus, InListing, NoRequest, Listing
<1> QED BY <1>2, <1>3 DEF RequestsInvariant

LEMMA RequestsInvariantKept == RequestsInvariant /\ [RequestsNext]_requestVars => RequestsInvariant'
<1> SUFFICES ASSUME RequestsInvariant, [RequestsNext]_requestVars PROVE RequestsInvariant'
    OBVIOUS
<1>1. CASE Add \/ Pop
    <2>1. dict \in Seq(Entries)
        BY DEF RequestsInvariant, RequestsTypeOK, Entries
    <2>2. \E d \in Seq(Entries) : Becomes(d)
        BY <1>1, <2>1, InsertedType, DeletedType DEF Add, Pop
    <2> QED BY <2>2, DictChanges
<1>2. CASE UNCHANGED requestVars
    BY <1>2 DEF requestVars, mainVars, threadVars, RequestsInvariant, RequestsTypeOK, Ahead, ReadyHasSnapshots,
                StatusInOrder, InStatus, InListing, Listed, Passed, Rest
<1> QED BY <1>1, <1>2, MainThreadKeeps, SwapKeeps, AnswersKeep, StatusKeeps, BeginKeeps, EntryKeeps, CloseKeeps
        DEF RequestsNext

(***************************************************************************)
(* At every moment of both threads the records of the requests have their  *)
(* types, however often a dictionary is rebuilt under a reader.            *)
(***************************************************************************)
THEOREM RequestsTyped == RequestsSpec => []RequestsTypeOK
<1>1. RequestsInvariant => RequestsTypeOK
    BY DEF RequestsInvariant
<1> QED BY <1>1, RequestsInitially, RequestsInvariantKept, PTL DEF RequestsSpec

(***************************************************************************)
(* For any number of cycles and of entries, and however the main thread is *)
(* interleaved with a request: who was told that the daemon is ready gets  *)
(* snapshots, a status does not go back in time, and a listing that is not *)
(* aborted says what was there.                                            *)
(***************************************************************************)
THEOREM AnswersAlwaysTrue == RequestsSpec => []AnswersTrue
<1>1. RequestsInvariant => AnswersTrue
    <2> SUFFICES ASSUME RequestsInvariant PROVE AnswersTrue
        OBVIOUS
    <2>1. ListingTrue
        <3> SUFFICES ASSUME request.kind \in Listing
                     PROVE  /\ got \subseteq ever
                            /\ request.at = "answered" /\ ~changed => got = ever
                            /\ request.at = "failed" => changed
            BY DEF ListingTrue
        <3>1. InListing /\ Listed \in Seq(Entries) /\ request.position \in Nat
            BY DEF RequestsInvariant, RequestsTypeOK, Entries, Listed
        <3>2. ASSUME request.at = "answered", ~changed PROVE got = ever
            <4>1. Rest(Listed) = {} /\ got = {Listed[i] : i \in Passed(Listed)} /\ ever = Keys(Listed)
                BY <3>1, <3>2 DEF InListing
            <4>2. Passed(Listed) = {i \in DOMAIN Listed : Listed[i] # Hole}
                BY <3>1, <4>1 DEF Passed, Rest
            <4> QED BY <3>1, <4>1, <4>2, KeysAre
        <3> QED BY <3>1, <3>2 DEF InListing
    <2> QED BY <2>1 DEF AnswersTrue, RequestsInvariant
<1> QED BY <1>1, RequestsInitially, RequestsInvariantKept, PTL DEF RequestsSpec

-----------------------------------------------------------------------------
(* -------------------------- The parts together ------------------------- *)

(* The parts begin as they do on their own.                                *)
LEMMA PartsBegin == SurroundingsInit => LifetimesInit /\ RequestsInit /\ ConfigInit
BY DEF SurroundingsInit

(* A step of one part is none of another's.                                *)
LEMMA PartsStep ==
    ASSUME [SurroundingsNext]_<<part, lifetimeVars, requestVars, configVars>>
    PROVE  /\ [LifetimesNext]_lifetimeVars
           /\ [RequestsNext]_requestVars
           /\ [ConfigNext]_configVars
<1>1. CASE LifetimeStep
    BY <1>1 DEF LifetimeStep
<1>2. CASE RequestStep
    BY <1>2 DEF RequestStep
<1>3. CASE FileStep
    BY <1>3 DEF FileStep
<1>4. CASE UNCHANGED <<part, lifetimeVars, requestVars, configVars>>
    BY <1>4
<1> QED BY <1>1, <1>2, <1>3, <1>4 DEF SurroundingsNext

(***************************************************************************)
(* Each part behaves next to the others as its own specification says: the *)
(* composition implements the lives of the process, the request thread and *)
(* the file, so that what is true of one of them is true here.             *)
(***************************************************************************)
THEOREM PartsImplemented == SurroundingsSpec => LifetimesSpec /\ RequestsSpec /\ ConfigSpec
BY PartsBegin, PartsStep, PTL DEF SurroundingsSpec, LifetimesSpec, RequestsSpec, ConfigSpec

(***************************************************************************)
(* The records of all parts have their types, whatever they do in turn.    *)
(***************************************************************************)
THEOREM SurroundingsTyped == SurroundingsSpec => []SurroundingsTypeOK
BY PartsImplemented, LifetimesTyped, RequestsTyped, ConfigTypes, PTL DEF SurroundingsTypeOK

(***************************************************************************)
(* The history in the database, the warm start of the baselines, the       *)
(* answers to requests and the loaded configuration are what they should   *)
(* be in all of the daemon's surroundings at once.                         *)
(***************************************************************************)
THEOREM SurroundingsSafe ==
    SurroundingsSpec => [](HistoryKept /\ WarmStart /\ AnswersTrue /\ RunsWholeConfig)
BY PartsImplemented, HistoryAlwaysKept, AlwaysWarmStart, AnswersAlwaysTrue, WholeConfig, PTL
=============================================================================
