------------------------ MODULE GuardianDaemonProofs ------------------------
(***************************************************************************)
(* Proofs about the daemon's lock: whatever signals arrive, and however    *)
(* many handlers they nest, _config_lock has one owner at most, and the    *)
(* frame that owns it is the one inside a section.                         *)
(*                                                                         *)
(* Then what keeps the main thread moving: with signals at good times      *)
(* nobody waits for what only a frame below could bring about, and no stop *)
(* is forgotten.                                                           *)
(***************************************************************************)
EXTENDS MCGuardianDaemon, SequenceTheorems, TLAPS

USE DEF Free, Depth, Top

(* Handlers begun and yet to begin are no more than the signals sent. *)
Waiting == (IF "SIGTERM" \in pending THEN 1 ELSE 0) + (IF "SIGHUP" \in pending THEN 1 ELSE 0)
SignalsCounted == Depth + Waiting <= sentSignals

DaemonInvariant == TypeOK /\ SignalsCounted

(* The stack of handlers: entering a frame, moving in one, leaving it. *)
LEMMA Pushed ==
    ASSUME frames \in Seq(FrameLabels), NEW label \in FrameLabels,
           frames' = Append(frames, label)
    PROVE  /\ frames' \in Seq(FrameLabels) /\ Depth' = Depth + 1
           /\ frames'[Depth'] = label
           /\ \A d \in 1..Depth : frames'[d] = frames[d]
BY AppendProperties

LEMMA Moved ==
    ASSUME frames \in Seq(FrameLabels), NEW label, NEW next \in FrameLabels,
           Step(label, next)
    PROVE  /\ frames' \in Seq(FrameLabels) /\ Depth' = Depth /\ Depth \in Nat \ {0}
           /\ frames[Depth] = label /\ frames'[Depth] = next
           /\ \A d \in 1..(Depth - 1) : frames'[d] = frames[d]
<1>1. Depth \in Nat \ {0}
    BY EmptySeq DEF Step, AtFrame
<1> QED BY <1>1 DEF Step, AtFrame

LEMMA Left ==
    ASSUME frames \in Seq(FrameLabels), NEW label, Return(label)
    PROVE  /\ frames' \in Seq(FrameLabels) /\ Depth' = Depth - 1 /\ Depth \in Nat \ {0}
           /\ frames[Depth] = label
           /\ \A d \in 1..(Depth - 1) : frames'[d] = frames[d]
<1>1. Depth \in Nat \ {0}
    BY EmptySeq DEF Return, AtFrame
<1> Depth = 1 \/ Depth > 1
    <2> HIDE DEF Depth
    <2> QED BY <1>1
<1>2. frames' = SubSeq(frames, 1, Depth - 1) /\ frames[Depth] = label
    BY DEF Return, AtFrame
<1>3. \A i \in 1..(Depth - 1) : frames[i] \in FrameLabels
    BY <1>1
<1>4. /\ SubSeq(frames, 1, Depth - 1) \in Seq(FrameLabels)
      /\ Len(SubSeq(frames, 1, Depth - 1)) = Depth - 1
      /\ \A d \in 1..(Depth - 1) : SubSeq(frames, 1, Depth - 1)[d] = frames[d]
    <2>1. SubSeq(frames, 1, Depth - 1) \in Seq(FrameLabels)
        BY <1>1, <1>3, SMT
    <2>2. Len(SubSeq(frames, 1, Depth - 1)) = Depth - 1
        <3>1. \A n \in Int : n < 1 => SubSeq(frames, 1, n) = <<>>
            BY SubSeqEmpty
        <3>2. CASE Depth = 1
            BY <3>1, <3>2, EmptySeq
        <3>3. CASE Depth > 1
            BY <1>1, <3>3, SMT
        <3> QED BY <1>1, <3>2, <3>3
    <2>3. \A d \in 1..(Depth - 1) : SubSeq(frames, 1, Depth - 1)[d] = frames[d]
        BY <1>1, <1>3, SMT
    <2> QED BY <2>1, <2>2, <2>3
<1> QED BY <1>1, <1>2, <1>4

LEMMA DepthNat == frames \in Seq(FrameLabels) => Depth \in Nat
BY LenProperties

HIDE DEF Depth, Top

-----------------------------------------------------------------------------
(* Type correctness, with the count of signals that bounds the stack. *)

LEMMA InitialTypes == Init => DaemonInvariant
<1> SUFFICES ASSUME Init PROVE DaemonInvariant
    OBVIOUS
<1>1. frames \in Seq(FrameLabels) /\ Depth = 0
    BY EmptySeq DEF Init, Depth
<1>2. Waiting = 0 /\ sentSignals = 0
    BY DEF Init, Waiting
<1>3. TypeOK
    <2>1. pc \in Labels
        BY DEF Init, Labels
    <2>2. lock \in {Free} \cup 0..MaxSignals
        BY DEF Init
    <2>3. frames \in Seq(FrameLabels) /\ Depth <= MaxSignals /\ sentSignals \in 0..MaxSignals
        BY <1>1, <1>2, DaemonAssumption
    <2>4. /\ running \in BOOLEAN /\ pidFile \in BOOLEAN /\ shutdown \in BOOLEAN
          /\ api \in {"none", "created", "started", "serving", "ended"}
          /\ pending \subseteq Signals
          /\ stopping \in BOOLEAN /\ reloadDue \in BOOLEAN
        BY DEF Init
    <2> QED BY <2>1, <2>2, <2>3, <2>4 DEF TypeOK
<1> QED BY <1>1, <1>2, <1>3 DEF DaemonInvariant, SignalsCounted

LEMMA MainTypes == DaemonInvariant /\ MainStep => DaemonInvariant'
<1> SUFFICES ASSUME DaemonInvariant, MainStep PROVE DaemonInvariant'
    OBVIOUS
<1>1. frames = <<>> /\ UNCHANGED <<frames, pending, sentSignals, shutdown, stopping, reloadDue>>
    BY DEF MainStep, InstallHandlers, WritePidFile, CreateApi, StartApi, Go, TestRunning,
           Acquire, Release, Work, Exit, Goto, Main, environment, handlers, server
<1>2. pc' \in Labels
    BY DEF MainStep, InstallHandlers, WritePidFile, CreateApi, StartApi, Go, TestRunning,
           Acquire, Release, Work, Exit, Goto, Labels, Held, Section
<1>3. /\ lock' \in {lock, Free, 0} /\ running' \in {running, TRUE}
      /\ pidFile' \in {pidFile, TRUE, FALSE} /\ api' \in {api, "created", "none", "started"}
    BY <1>1, EmptySeq DEF MainStep, InstallHandlers, WritePidFile, CreateApi, StartApi, Go,
           TestRunning, Acquire, Release, Work, Exit, Goto, server, handlers, Depth
<1>4. SignalsCounted'
    BY <1>1 DEF DaemonInvariant, SignalsCounted, Waiting, Depth
<1>5. TypeOK'
    <2>1. /\ running \in BOOLEAN /\ pidFile \in BOOLEAN /\ shutdown \in BOOLEAN
          /\ stopping \in BOOLEAN /\ reloadDue \in BOOLEAN
        BY DEF DaemonInvariant, TypeOK
    <2>2. /\ running' \in BOOLEAN /\ pidFile' \in BOOLEAN /\ shutdown' \in BOOLEAN
          /\ stopping' \in BOOLEAN /\ reloadDue' \in BOOLEAN
        BY <2>1, <1>1, <1>3, Zenon
    <2>3. frames' \in Seq(FrameLabels) /\ Depth' <= MaxSignals
          /\ pending' \subseteq Signals /\ sentSignals' \in 0..MaxSignals
        BY <1>1 DEF DaemonInvariant, TypeOK, Depth
    <2>4. /\ lock' \in {Free} \cup 0..MaxSignals
          /\ api' \in {"none", "created", "started", "serving", "ended"}
        BY <1>3, DaemonAssumption DEF DaemonInvariant, TypeOK
    <2> QED BY <1>2, <2>2, <2>3, <2>4 DEF TypeOK
<1> QED BY <1>4, <1>5 DEF DaemonInvariant

(* A handler moves or ends, and the other variables keep their types. *)
LEMMA HandlerMoves ==
    ASSUME TypeOK, HandlerStep
    PROVE  /\ frames' \in Seq(FrameLabels) /\ Depth \in Nat \ {0}
           /\ Depth' \in {Depth, Depth - 1}
<1>1. frames \in Seq(FrameLabels)
    BY DEF TypeOK
<1>2. ASSUME NEW label, NEW next \in FrameLabels, Step(label, next)
      PROVE  /\ frames' \in Seq(FrameLabels) /\ Depth \in Nat \ {0}
             /\ Depth' \in {Depth, Depth - 1}
    BY <1>1, <1>2, Moved
<1>3. ASSUME NEW label, Return(label)
      PROVE  /\ frames' \in Seq(FrameLabels) /\ Depth \in Nat \ {0}
             /\ Depth' \in {Depth, Depth - 1}
    BY <1>1, <1>3, Left
<1>4. CASE ClearRunning
    BY <1>4, <1>2 DEF ClearRunning, FrameLabels
<1>5. CASE RequestShutdown \/ AwaitShutdown \/ LoadConfig \/ ReloadAcquire
    BY <1>5, <1>2 DEF RequestShutdown, AwaitShutdown, LoadConfig, ReloadAcquire, FrameLabels
<1>6. CASE RemovePidFile \/ LoadFails \/ Swap
    BY <1>6, <1>3 DEF RemovePidFile, LoadFails, Swap
<1> QED BY <1>4, <1>5, <1>6 DEF HandlerStep

LEMMA HandlerTypes == DaemonInvariant /\ HandlerStep => DaemonInvariant'
<1> SUFFICES ASSUME DaemonInvariant, HandlerStep PROVE DaemonInvariant'
    OBVIOUS
<1>1. /\ frames' \in Seq(FrameLabels) /\ Depth \in Nat \ {0}
      /\ Depth' \in {Depth, Depth - 1}
    BY HandlerMoves DEF DaemonInvariant
<1>2. UNCHANGED <<pc, api, pending, sentSignals, stopping>>
    BY DEF HandlerStep, ClearRunning, RequestShutdown, AwaitShutdown, RemovePidFile,
           LoadConfig, LoadFails, ReloadAcquire, Swap, server, environment
<1>3. lock' \in {lock, Free, Depth}
    BY DEF HandlerStep, ClearRunning, RequestShutdown, AwaitShutdown, RemovePidFile,
           LoadConfig, LoadFails, ReloadAcquire, Swap
<1>4. /\ running' \in {running, FALSE} /\ pidFile' \in {pidFile, FALSE}
      /\ shutdown' \in {shutdown, TRUE} /\ reloadDue' \in {reloadDue, FALSE}
    BY DEF HandlerStep, ClearRunning, RequestShutdown, AwaitShutdown, RemovePidFile,
           LoadConfig, LoadFails, ReloadAcquire, Swap, server
<1>5. /\ running' \in BOOLEAN /\ pidFile' \in BOOLEAN /\ shutdown' \in BOOLEAN
      /\ stopping' \in BOOLEAN /\ reloadDue' \in BOOLEAN
    BY <1>2, <1>4, Zenon DEF DaemonInvariant, TypeOK
<1>6. Depth <= MaxSignals /\ Depth' <= MaxSignals /\ lock' \in {Free} \cup 0..MaxSignals
    BY <1>1, <1>3, DaemonAssumption DEF DaemonInvariant, TypeOK
<1>7. TypeOK'
    BY <1>1, <1>2, <1>5, <1>6 DEF DaemonInvariant, TypeOK
<1>8. SignalsCounted'
    <2>1. Waiting' = Waiting /\ Waiting \in Nat
        BY <1>2 DEF Waiting
    <2>2. Depth + Waiting <= sentSignals /\ sentSignals \in Int /\ Depth \in Int
        BY <1>1, DaemonAssumption DEF DaemonInvariant, TypeOK, SignalsCounted
    <2>3. Depth' <= Depth /\ Depth' \in Int
        BY <1>1
    <2>4. \A depth, later, waiting, sent \in Int :
            depth + waiting <= sent /\ later <= depth => later + waiting <= sent
        OBVIOUS
    <2>5. Depth \in Int /\ Depth' \in Int /\ Waiting \in Int /\ sentSignals \in Int
        BY <2>1, <2>2, <2>3
    <2>6. Depth' + Waiting <= sentSignals
        BY <2>2, <2>3, <2>4, <2>5, Zenon
    <2> QED BY <1>2, <2>1, <2>6 DEF SignalsCounted
<1> QED BY <1>7, <1>8 DEF DaemonInvariant

LEMMA SignalTypes ==
    ASSUME DaemonInvariant, NEW sig \in Signals, Send(sig) \/ Handle(sig)
    PROVE  DaemonInvariant'
<1>1. sig \in {"SIGTERM", "SIGHUP"} /\ frames \in Seq(FrameLabels) /\ Depth \in Nat
    BY DaemonAssumption, DepthNat DEF DaemonInvariant, TypeOK
<1>2. CASE Send(sig)
    <2>1. /\ UNCHANGED <<pc, lock, running, pidFile, api, shutdown, frames, stopping, reloadDue>>
          /\ pending' = pending \cup {sig}
          /\ sentSignals' = sentSignals + 1 /\ sentSignals < MaxSignals
        BY <1>2 DEF Send, server, handlers
    <2>2. Depth' = Depth
        BY <2>1 DEF Depth
    <2>3. Waiting' <= Waiting + 1
        BY <1>1, <2>1 DEF Waiting
    <2>4. SignalsCounted'
        BY <1>1, <2>1, <2>2, <2>3 DEF DaemonInvariant, SignalsCounted, Waiting, TypeOK
    <2>5. TypeOK'
        BY <2>1, <2>2, DaemonAssumption DEF DaemonInvariant, TypeOK
    <2> QED BY <2>4, <2>5 DEF DaemonInvariant
<1>3. CASE Handle(sig)
    <2>1. /\ UNCHANGED <<pc, lock, running, pidFile, api, shutdown, sentSignals>>
          /\ sig \in pending /\ pending' = pending \ {sig}
          /\ stopping' = (stopping \/ sig = "SIGTERM")
          /\ reloadDue' = (reloadDue \/ sig = "SIGHUP")
        BY <1>3 DEF Handle, server
    <2>2. frames' \in Seq(FrameLabels) /\ Depth' = Depth + 1
        BY <1>1, <1>3, Pushed DEF Handle, FrameLabels
    <2>3. Waiting' = Waiting - 1 /\ Waiting >= 1 /\ Waiting \in Nat /\ Waiting' \in Nat
        BY <1>1, <2>1 DEF Waiting
    <2>4. SignalsCounted'
        BY <1>1, <2>1, <2>2, <2>3 DEF DaemonInvariant, SignalsCounted, TypeOK
    <2>5. Depth' <= MaxSignals
        BY <1>1, <2>1, <2>2, <2>3, <2>4, DaemonAssumption
           DEF DaemonInvariant, SignalsCounted, TypeOK
    <2>6. stopping' \in BOOLEAN /\ reloadDue' \in BOOLEAN
        BY <2>1, Zenon
    <2>7. TypeOK'
        BY <2>1, <2>2, <2>5, <2>6 DEF DaemonInvariant, TypeOK
    <2> QED BY <2>4, <2>7 DEF DaemonInvariant
<1> QED BY <1>2, <1>3

LEMMA OtherTypes ==
    ASSUME DaemonInvariant, ServerStep \/ Killed \/ UNCHANGED vars
    PROVE  DaemonInvariant'
<1>1. UNCHANGED <<frames, lock, running, pidFile, pending, sentSignals, stopping, reloadDue>>
    BY DEF ServerStep, Serve, EndServing, Killed, vars, server, environment, handlers
<1>2. pc' \in {pc, "gone"} /\ api' \in {api, "serving", "ended"} /\ shutdown' \in {shutdown, FALSE}
    BY DEF ServerStep, Serve, EndServing, Killed, vars, server, environment, handlers
<1>3. Depth' = Depth
    BY <1>1 DEF Depth
<1>4. shutdown' \in BOOLEAN
    BY <1>2, Zenon DEF DaemonInvariant, TypeOK
<1>5. TypeOK'
    BY <1>1, <1>2, <1>3, <1>4 DEF DaemonInvariant, TypeOK, Labels
<1>6. SignalsCounted'
    BY <1>1, <1>3 DEF DaemonInvariant, SignalsCounted, Waiting
<1> QED BY <1>5, <1>6 DEF DaemonInvariant

(* Every variable keeps its type, and the stack of handlers its bound.      *)
THEOREM DaemonTypes == Spec => [](TypeOK /\ SignalsCounted)
<1>1. DaemonInvariant /\ [Next]_vars => DaemonInvariant'
    <2> SUFFICES ASSUME DaemonInvariant, [Next]_vars PROVE DaemonInvariant'
        OBVIOUS
    <2>1. CASE MainStep
        BY <2>1, MainTypes
    <2>2. CASE HandlerStep
        BY <2>2, HandlerTypes
    <2>3. CASE \E sig \in Signals : Send(sig) \/ Handle(sig)
        BY <2>3, SignalTypes
    <2>4. CASE ServerStep \/ Killed \/ UNCHANGED vars
        BY <2>4, OtherTypes
    <2> QED BY <2>1, <2>2, <2>3, <2>4 DEF Next, Deliver, Ended
<1> QED BY <1>1, InitialTypes, PTL DEF Spec, DaemonInvariant

-----------------------------------------------------------------------------
(* The lock. *)

LEMMA LockMain ==
    ASSUME TypeOK, LockOwned, MainStep
    PROVE  LockOwned'
<1>1. frames = <<>> /\ frames' = frames /\ Depth = 0 /\ Depth' = 0
    BY EmptySeq DEF MainStep, InstallHandlers, WritePidFile, CreateApi, StartApi, Go,
           TestRunning, Acquire, Release, Work, Exit, Goto, Main, handlers, Depth
<1>2. (lock' = 0 <=> pc' \in Held) /\ lock' <= 0
    <2>1. CASE Acquire
        BY <1>1, <2>1 DEF Acquire, Goto, Section, Held
    <2>2. CASE Release
        BY <1>1, <2>2 DEF Release, Goto, Section, Held
    <2>3. CASE InstallHandlers \/ WritePidFile \/ CreateApi \/ StartApi \/ Go
               \/ TestRunning \/ Work \/ Exit
        <3>1. lock' = lock /\ pc \notin Held /\ pc' \notin Held
            BY <2>3 DEF InstallHandlers, WritePidFile, CreateApi, StartApi, Go,
                   TestRunning, Work, Exit, Goto, Section, Held
        <3> QED BY <1>1, <3>1 DEF LockOwned
    <2> QED BY <2>1, <2>2, <2>3 DEF MainStep
<1> QED BY <1>1, <1>2 DEF LockOwned

(* A frame that moves outside of its section leaves the lock as it is. *)
LEMMA LockMoves ==
    ASSUME TypeOK, LockOwned, NEW label \in FrameLabels, NEW next \in FrameLabels,
           Step(label, next), label # "reload_held", next # "reload_held",
           UNCHANGED <<pc, lock>>
    PROVE  LockOwned'
<1>1. /\ frames' \in Seq(FrameLabels) /\ Depth' = Depth /\ Depth \in Nat \ {0}
      /\ frames[Depth] = label /\ frames'[Depth] = next
      /\ \A d \in 1..(Depth - 1) : frames'[d] = frames[d]
    BY Moved DEF TypeOK
<1>2. lock # Depth
    BY <1>1 DEF LockOwned
<1>3. \A d \in 1..Depth : d = Depth \/ d \in 1..(Depth - 1)
    BY <1>1
<1> QED BY <1>1, <1>2, <1>3 DEF LockOwned

(* So does a frame that returns from elsewhere. *)
LEMMA LockReturns ==
    ASSUME TypeOK, LockOwned, NEW label, Return(label), label # "reload_held",
           UNCHANGED <<pc, lock>>
    PROVE  LockOwned'
<1>1. /\ Depth' = Depth - 1 /\ Depth \in Nat \ {0} /\ frames[Depth] = label
      /\ \A d \in 1..(Depth - 1) : frames'[d] = frames[d]
    BY Left DEF TypeOK
<1>2. lock # Depth /\ lock \in Int
    BY <1>1, DaemonAssumption DEF LockOwned, TypeOK
<1> QED BY <1>1, <1>2 DEF LockOwned

LEMMA LockHandler ==
    ASSUME TypeOK, LockOwned, HandlerStep
    PROVE  LockOwned'
<1>1. CASE ClearRunning \/ RequestShutdown \/ AwaitShutdown \/ LoadConfig
    BY <1>1, LockMoves
       DEF ClearRunning, RequestShutdown, AwaitShutdown, LoadConfig, FrameLabels
<1>2. CASE RemovePidFile \/ LoadFails
    BY <1>2, LockReturns DEF RemovePidFile, LoadFails
<1>3. CASE ReloadAcquire
    <2>1. /\ Depth' = Depth /\ Depth \in Nat \ {0} /\ frames'[Depth] = "reload_held"
          /\ \A d \in 1..(Depth - 1) : frames'[d] = frames[d]
          /\ lock = Free /\ lock' = Depth /\ pc' = pc
        BY <1>3, Moved DEF ReloadAcquire, FrameLabels, TypeOK
    <2>2. \A d \in 1..Depth : d = Depth \/ d \in 1..(Depth - 1)
        BY <2>1
    <2> QED BY <2>1, <2>2 DEF LockOwned
<1>4. CASE Swap
    <2>1. /\ Depth' = Depth - 1 /\ Depth \in Nat \ {0} /\ frames[Depth] = "reload_held"
          /\ \A d \in 1..(Depth - 1) : frames'[d] = frames[d]
          /\ lock' = Free /\ pc' = pc
        BY <1>4, Left DEF Swap, TypeOK
    <2>2. lock = Depth
        BY <2>1 DEF LockOwned
    <2> QED BY <2>1, <2>2 DEF LockOwned
<1> QED BY <1>1, <1>2, <1>3, <1>4 DEF HandlerStep

LEMMA LockOthers ==
    ASSUME TypeOK, LockOwned,
           (\E sig \in Signals : Send(sig) \/ Handle(sig)) \/ ServerStep \/ Killed
               \/ UNCHANGED vars
    PROVE  LockOwned'
<1>1. CASE \E sig \in Signals : Handle(sig)
    <2>1. PICK sig \in Signals : Handle(sig)
        BY <1>1
    <2>2. PICK label \in {"flag", "load"} : frames' = Append(frames, label)
        BY <2>1 DEF Handle
    <2>3. /\ Depth \in Nat /\ Depth' = Depth + 1 /\ frames'[Depth'] # "reload_held"
          /\ \A d \in 1..Depth : frames'[d] = frames[d]
        BY <2>2, Pushed, DepthNat DEF TypeOK, FrameLabels
    <2>4. pc' = pc /\ lock' = lock
        BY <2>1 DEF Handle
    <2>5. lock \in Int /\ \A d \in 1..(Depth + 1) : d = Depth + 1 \/ d \in 1..Depth
        BY <2>3, DaemonAssumption DEF TypeOK
    <2> QED BY <2>3, <2>4, <2>5 DEF LockOwned
<1>2. CASE (\E sig \in Signals : Send(sig)) \/ ServerStep \/ UNCHANGED vars
    <2>1. UNCHANGED <<pc, lock, frames>>
        BY <1>2 DEF Send, ServerStep, Serve, EndServing, vars, handlers
    <2> QED BY <2>1 DEF LockOwned, Depth
<1>3. CASE Killed
    <2>1. pc = "install" /\ pc' = "gone" /\ UNCHANGED <<lock, frames>>
        BY <1>3 DEF Killed, handlers
    <2>2. pc \notin Held /\ pc' \notin Held
        BY <2>1 DEF Held, Section
    <2> QED BY <2>1, <2>2 DEF LockOwned, Depth
<1> QED BY <1>1, <1>2, <1>3

(***************************************************************************)
(* Whatever signals arrive, _config_lock has one owner: the loop inside    *)
(* one of its sections, or the one reload that swaps the configuration.    *)
(***************************************************************************)
THEOREM LockHasOneOwner == Spec => []LockOwned
<1>1. Init => LockOwned
    <2> SUFFICES ASSUME Init PROVE LockOwned
        OBVIOUS
    <2>1. Depth = 0 /\ lock = Free /\ pc \notin Held
        BY EmptySeq DEF Init, Depth, Held, Section
    <2> QED BY <2>1 DEF LockOwned
<1>2. DaemonInvariant /\ LockOwned /\ [Next]_vars => LockOwned'
    BY LockMain, LockHandler, LockOthers DEF Next, Deliver, Ended, DaemonInvariant
<1> QED BY <1>1, <1>2, DaemonTypes, PTL DEF Spec, DaemonInvariant

-----------------------------------------------------------------------------
(* Signals at good times. *)

Stops == {"flag", "request", "await", "unlink"}

(* Nobody waits in vain: the loop and a reload on top of the stack find    *)
(* the lock free, a stop on top finds a server that ends.                  *)
NothingStuck ==
    /\ frames = <<>> /\ pc \in DOMAIN Section => lock = Free
    /\ frames # <<>> /\ Top = "reload_lock" => lock = Free
    /\ frames # <<>> /\ Top = "await" => (api \in {"started", "ended"} \/ (api = "serving" /\ shutdown))

(* A stop that has begun clears _running, and nothing sets it again. *)
StopRemembered == stopping => (~running \/ \E d \in 1..Depth : frames[d] = "flag")

(***************************************************************************)
(* A reload that has yet to take the lock was begun while it was free: if  *)
(* it is held, a frame further up holds it.  A stop begins with the loop,  *)
(* when the server, if there is one, has its thread; what it asks of the   *)
(* server is asked until the server has ended.                             *)
(***************************************************************************)
ReloadsFree == \A d \in 1..Depth : frames[d] \in {"load", "reload_lock"} => (lock = Free \/ lock > d)

ServerThere == \A d \in 1..Depth : frames[d] \in {"request", "await"} => api \in {"started", "serving", "ended"}

ServerAsked == \A d \in 1..Depth : frames[d] = "await" => (api = "ended" \/ shutdown = TRUE)

StopsInLoop ==
    /\ \A d \in 1..Depth : frames[d] = "flag" => stopping = TRUE
    /\ stopping = TRUE => pc \notin Startup /\ (running = FALSE \/ \E d \in 1..Depth : frames[d] = "flag")

ThreadFollows == api = "created" => pc = "start_api"

TimelyInvariant == ReloadsFree /\ ServerThere /\ ServerAsked /\ StopsInLoop /\ ThreadFollows

LEMMA TimelyMain ==
    ASSUME TypeOK, TimelyInvariant, MainStep
    PROVE  TimelyInvariant'
<1>1. /\ frames = <<>> /\ Depth = 0 /\ Depth' = 0
      /\ stopping' = stopping
    BY EmptySeq DEF MainStep, InstallHandlers, WritePidFile, CreateApi, StartApi, Go,
           TestRunning, Acquire, Release, Work, Exit, Goto, Main, handlers, Depth
<1>2. pc \notin Startup => pc' \notin Startup /\ running' = running
    BY DEF MainStep, InstallHandlers, WritePidFile, CreateApi, StartApi, Go, TestRunning, Acquire,
           Release, Work, Exit, Goto, Section, Startup
<1>3. api' = "created" => pc' = "start_api"
    BY DEF TimelyInvariant, ThreadFollows, MainStep, InstallHandlers, WritePidFile, CreateApi, StartApi, Go,
           TestRunning, Acquire, Release, Work, Exit, Goto, Section, server
<1>4. StopsInLoop'
    BY <1>1, <1>2 DEF TimelyInvariant, StopsInLoop
<1> QED BY <1>1, <1>3, <1>4 DEF TimelyInvariant, ReloadsFree, ServerThere, ServerAsked, ThreadFollows

LEMMA TimelyMoves ==
    ASSUME TypeOK, LockOwned, TimelyInvariant,
           ClearRunning \/ RequestShutdown \/ AwaitShutdown \/ LoadConfig \/ ReloadAcquire
    PROVE  TimelyInvariant'
<1>1. PICK label \in FrameLabels, next \in FrameLabels : Step(label, next)
    BY DEF ClearRunning, RequestShutdown, AwaitShutdown, LoadConfig, ReloadAcquire, FrameLabels
<1>2. /\ Depth' = Depth /\ Depth \in Nat \ {0} /\ frames[Depth] = label /\ frames'[Depth] = next
      /\ \A d \in 1..(Depth - 1) : frames'[d] = frames[d]
    BY <1>1, Moved DEF TypeOK
<1>3. \A d \in 1..Depth : d = Depth \/ (d \in 1..(Depth - 1) /\ d < Depth)
    BY <1>2
<1>4. UNCHANGED <<pc, api, stopping>>
    BY DEF ClearRunning, RequestShutdown, AwaitShutdown, LoadConfig, ReloadAcquire, server
<1>5. /\ label = "flag" => running' = FALSE /\ next \in {"unlink", "request"} /\ (next = "request" => api # "none")
      /\ label # "flag" => running' = running
      /\ next # "flag"
      /\ next = "await" => label = "request" /\ shutdown' = TRUE
      /\ shutdown' = shutdown \/ shutdown' = TRUE
      /\ next = "request" => label = "flag"
      /\ next \in {"load", "reload_lock"} => label = "load" /\ lock' = lock
      /\ lock' = lock \/ (lock = Free /\ lock' = Depth)
    <2>1. CASE ClearRunning
        <3>1. label = "flag" /\ next = (IF api = "none" THEN "unlink" ELSE "request")
            BY <1>1, <1>2, <2>1, Moved DEF ClearRunning, FrameLabels, TypeOK
        <3> QED BY <2>1, <3>1 DEF ClearRunning, server
    <2>2. CASE RequestShutdown
        <3>1. label = "request" /\ next = "await"
            BY <1>1, <1>2, <2>2, Moved DEF RequestShutdown, FrameLabels, TypeOK
        <3> QED BY <2>2, <3>1 DEF RequestShutdown, server
    <2>3. CASE AwaitShutdown
        <3>1. label = "await" /\ next = "unlink"
            BY <1>1, <1>2, <2>3, Moved DEF AwaitShutdown, FrameLabels, TypeOK
        <3> QED BY <2>3, <3>1 DEF AwaitShutdown, server
    <2>4. CASE LoadConfig
        <3>1. label = "load" /\ next = "reload_lock"
            BY <1>1, <1>2, <2>4, Moved DEF LoadConfig, FrameLabels, TypeOK
        <3> QED BY <2>4, <3>1 DEF LoadConfig, server
    <2>5. CASE ReloadAcquire
        <3>1. label = "reload_lock" /\ next = "reload_held"
            BY <1>1, <1>2, <2>5, Moved DEF ReloadAcquire, FrameLabels, TypeOK
        <3> QED BY <2>5, <3>1 DEF ReloadAcquire, server
    <2> QED BY <2>1, <2>2, <2>3, <2>4, <2>5
<1>6. ReloadsFree'
    BY <1>2, <1>3, <1>5 DEF TimelyInvariant, ReloadsFree
<1>7. ServerThere'
    <2>1. label = "flag" => api # "created"
        BY <1>2, <1>3 DEF TimelyInvariant, StopsInLoop, ThreadFollows, Startup
    <2>2. api # "none" /\ api # "created" => api \in {"started", "serving", "ended"}
        BY DEF TypeOK
    <2> QED BY <1>2, <1>3, <1>4, <1>5, <2>1, <2>2 DEF TimelyInvariant, ServerThere
<1>8. ServerAsked'
    BY <1>2, <1>3, <1>4, <1>5 DEF TimelyInvariant, ServerAsked
<1>9. StopsInLoop'
    BY <1>2, <1>3, <1>4, <1>5 DEF TimelyInvariant, StopsInLoop
<1> QED BY <1>4, <1>6, <1>7, <1>8, <1>9 DEF TimelyInvariant, ThreadFollows

LEMMA TimelyReturns ==
    ASSUME TypeOK, LockOwned, TimelyInvariant, RemovePidFile \/ LoadFails \/ Swap
    PROVE  TimelyInvariant'
<1>1. PICK label \in {"unlink", "load", "reload_held"} : Return(label)
    BY DEF RemovePidFile, LoadFails, Swap
<1>2. /\ Depth' = Depth - 1 /\ Depth \in Nat \ {0} /\ frames[Depth] = label
      /\ \A d \in 1..(Depth - 1) : frames'[d] = frames[d]
    BY <1>1, Left DEF TypeOK
<1>3. \A d \in 1..Depth : d = Depth \/ d \in 1..(Depth - 1)
    BY <1>2
<1>4. \A d \in 1..(Depth - 1) : d \in 1..Depth
    BY <1>2
<1>5. UNCHANGED <<pc, api, shutdown, stopping, running>> /\ (lock' = lock \/ lock' = Free)
    BY DEF RemovePidFile, LoadFails, Swap, server
<1> QED BY <1>1, <1>2, <1>3, <1>4, <1>5
        DEF TimelyInvariant, ReloadsFree, ServerThere, ServerAsked, StopsInLoop, ThreadFollows

LEMMA TimelySignals ==
    ASSUME TypeOK, LockOwned, TimelyInvariant, NEW sig \in Signals, Handle(sig), ~Untimely
    PROVE  TimelyInvariant'
<1>1. sig = "SIGTERM" \/ sig = "SIGHUP"
    BY DaemonAssumption
<1> DEFINE label == IF sig = "SIGTERM" THEN "flag" ELSE "load"
<1>2. /\ Depth' = Depth + 1 /\ Depth \in Nat /\ frames'[Depth + 1] = label
      /\ \A d \in 1..Depth : frames'[d] = frames[d]
    BY Pushed, DepthNat DEF TypeOK, FrameLabels, Handle
<1>3. \A d \in 1..(Depth + 1) : d = Depth + 1 \/ d \in 1..Depth
    BY <1>2
<1>4. \A d \in 1..Depth : d \in 1..(Depth + 1)
    BY <1>2
<1>5. Depth + 1 \in 1..(Depth + 1)
    BY <1>2
<1>6. UNCHANGED <<pc, api, shutdown, lock, running>>
    BY DEF Handle, server
<1>7. /\ sig = "SIGTERM" => stopping' = TRUE /\ pc \notin Startup
      /\ sig # "SIGTERM" => stopping' = stopping /\ lock = Free
    BY <1>1 DEF Handle, Untimely, TypeOK
<1> QED BY <1>1, <1>2, <1>3, <1>4, <1>5, <1>6, <1>7
        DEF TimelyInvariant, ReloadsFree, ServerThere, ServerAsked, StopsInLoop, ThreadFollows

LEMMA TimelyOthers ==
    ASSUME TypeOK, TimelyInvariant,
           (\E sig \in Signals : Send(sig)) \/ ServerStep \/ Killed \/ UNCHANGED vars
    PROVE  TimelyInvariant'
<1>1. UNCHANGED <<frames, lock, running, stopping>>
    BY DEF Send, ServerStep, Serve, EndServing, Killed, vars, server, environment, handlers
<1>2. \/ UNCHANGED <<pc, api, shutdown>>
      \/ pc' = pc /\ api = "started" /\ api' = "serving" /\ shutdown' = shutdown
      \/ pc' = pc /\ api = "serving" /\ api' = "ended"
      \/ pc = "install" /\ pc' = "gone" /\ UNCHANGED <<api, shutdown>>
    BY DEF Send, ServerStep, Serve, EndServing, Killed, vars, server, environment, handlers
<1>3. Depth' = Depth
    BY <1>1 DEF Depth
<1> QED BY <1>1, <1>2, <1>3
        DEF TimelyInvariant, ReloadsFree, ServerThere, ServerAsked, StopsInLoop, ThreadFollows, Startup

LEMMA TimelyStep ==
    TypeOK /\ LockOwned /\ TimelyInvariant /\ Next /\ ~Untimely => TimelyInvariant'
<1> SUFFICES ASSUME TypeOK, LockOwned, TimelyInvariant, Next, ~Untimely PROVE TimelyInvariant'
    OBVIOUS
<1>1. CASE MainStep
    BY <1>1, TimelyMain
<1>2. CASE HandlerStep
    BY <1>2, TimelyMoves, TimelyReturns DEF HandlerStep
<1>3. CASE \E sig \in Signals : Handle(sig)
    BY <1>3, TimelySignals
<1>4. CASE (\E sig \in Signals : Send(sig)) \/ ServerStep \/ Killed \/ UNCHANGED vars
    BY <1>4, TimelyOthers
<1> QED BY <1>1, <1>2, <1>3, <1>4 DEF Next, Deliver, Ended

LEMMA TimelyMeans ==
    ASSUME TypeOK, LockOwned, TimelyInvariant
    PROVE  NothingStuck /\ StopRemembered
<1>1. frames = <<>> => Depth = 0
    BY EmptySeq DEF Depth
<1>2. frames # <<>> => Depth \in 1..Depth /\ Depth \in Nat
    BY EmptySeq, DepthNat DEF TypeOK, Depth
<1>3. lock \in Int /\ lock >= -1
    BY DaemonAssumption DEF TypeOK
<1>4. frames = <<>> /\ pc \in DOMAIN Section => lock = Free
    BY <1>1, <1>3 DEF LockOwned, Section, Held
<1>5. frames # <<>> /\ frames[Depth] = "reload_lock" => lock = Free
    BY <1>2, <1>3 DEF LockOwned, TimelyInvariant, ReloadsFree
<1>6. frames # <<>> /\ frames[Depth] = "await" => (api \in {"started", "ended"} \/ (api = "serving" /\ shutdown))
    BY <1>2 DEF TimelyInvariant, ServerThere, ServerAsked
<1>7. StopRemembered
    BY DEF TimelyInvariant, StopsInLoop, StopRemembered, TypeOK
<1> QED BY <1>4, <1>5, <1>6, <1>7 DEF NothingStuck, Top

(***************************************************************************)
(* However many signals are sent and handlers nest: as long as no SIGHUP   *)
(* is handled while the lock is held and no SIGTERM before the loop, the   *)
(* main thread never waits for what cannot come, and a stop is not         *)
(* forgotten (start, stop, _reload).                                       *)
(***************************************************************************)
THEOREM TimelyNeverStuck == NotedSpec => [](lucky => NothingStuck /\ StopRemembered)
<1>1. NotedSpec => [](TypeOK /\ LockOwned)
    <2>1. [NotedNext]_<<vars, lucky>> => [Next]_vars
        BY DEF NotedNext
    <2>2. NotedSpec => Spec
        BY <2>1, PTL DEF NotedSpec, NotedInit, Spec
    <2> QED BY <2>2, DaemonTypes, LockHasOneOwner, PTL
<1> DEFINE Timely == lucky => TimelyInvariant
<1>2. NotedInit => Timely
    BY EmptySeq DEF NotedInit, Init, Depth, TimelyInvariant, ReloadsFree, ServerThere, ServerAsked,
           StopsInLoop, ThreadFollows
<1>3. TypeOK /\ LockOwned /\ Timely /\ [NotedNext]_<<vars, lucky>> => Timely'
    <2>1. CASE NotedNext
        BY <2>1, TimelyStep, Zenon DEF NotedNext
    <2>2. CASE UNCHANGED <<vars, lucky>>
        BY <2>2, TimelyOthers, Zenon
    <2> QED BY <2>1, <2>2
<1>4. TypeOK /\ LockOwned /\ Timely => (lucky => NothingStuck /\ StopRemembered)
    BY TimelyMeans
<1> QED BY <1>1, <1>2, <1>3, <1>4, PTL DEF NotedSpec
=============================================================================
