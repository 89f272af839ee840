---------------------------- MODULE InventoryProofs ----------------------------
(***************************************************************************)
(* Proofs about InventorySession for an application that starts one        *)
(* inventory, with any number of goroutines and of connections.  With a    *)
(* second inventory OwedRunIsOn and ClosedOnce do not hold: TLC finds how. *)
(***************************************************************************)
EXTENDS InventorySession, TLAPS

\* Before the inventory starts nobody has anything to do with it.
Unstarted(r) ==
    /\ ~inventoryOn /\ inventoryDone = None /\ owed = None
    /\ tpc[r] = "unused" /\ ~ctxDone[r]
    /\ \A c \in Callers : cpc[c] \in {"idle", "lock"}

\* The fields are set together and stay until the run ends.
Fields(r) ==
    /\ cancelInv = IF inventoryOn THEN r ELSE None
    /\ inventoryOn => /\ inventoryDone = r /\ rpc[r] \in {"apply", "begin", "consume", "finish"}
                      /\ tpc[r] # "cancel"
                      /\ \A c \in Callers : cpc[c] # "cancel"

\* One goroutine starts the run, until it has spawned it; the transmitter follows.
Starter(r) ==
    /\ \A c \in Callers : cpc[c] = "apply" => at[c] = r /\ rpc[r] = "apply"
    /\ \A c, d \in Callers : cpc[c] = "apply" /\ cpc[d] = "apply" => c = d
    /\ rpc[r] \in {"apply", "begin"} => tpc[r] = "unused"

\* The run that the application counts on has its session, and nobody is about to
\* cancel it.
Counted(r) ==
    owed = r =>
      /\ inventoryOn /\ ~ctxDone[r] /\ link # None /\ ~broken
      /\ rpc[r] \in {"apply", "begin", "consume"}
      /\ rpc[r] = "consume" => reads[r] = link
      /\ tpc[r] # "async"

\* Whoever switches the inventory off cancels the run.
Told(r) ==
    \/ ctxDone[r]
    \/ \E c \in Callers : cpc[c] = "cancel" /\ target[c] = r
    \/ tpc[r] = "cancel" /\ cancels[r] = r

Off(r) == ~inventoryOn /\ rpc[r] \in {"apply", "begin", "consume"} => Told(r)

InvTypes ==
    /\ inventoryOn \in BOOLEAN
    /\ inventoryDone \in Runs \cup {None} /\ cancelInv \in Runs \cup {None}
    /\ owed \in Runs \cup {None}
    /\ ctxDone \in [Runs -> BOOLEAN] /\ closings \in [Runs -> 0..1]
    /\ rpc \in [Runs -> {"unused", "apply", "begin", "consume", "finish", "close", "over"}]
    /\ tpc \in [Runs -> {"unused", "next", "send", "async", "cancel", "wait", "over"}]
    /\ reads \in [Runs -> Links \cup {None}]
    /\ finishes \in [Runs -> Runs \cup {None}] /\ cancels \in [Runs -> Runs \cup {None}]
    /\ link \in Links \cup {None} /\ broken \in BOOLEAN /\ used \subseteq Links
    /\ cpc \in [Callers -> {"idle", "lock", "apply", "cancel", "wait"}]
    /\ at \in [Callers -> Runs \cup {None}] /\ target \in [Callers -> Runs \cup {None}]

\* The invariant of the one inventory.
InventoryInv(r) ==
    /\ InvTypes
    /\ rpc[r] = "unused" => Unstarted(r)
    /\ rpc[r] # "over" => closings[r] = 0
    /\ Fields(r) /\ Starter(r) /\ Counted(r) /\ Off(r)

LEMMA InventoryInit ==
    ASSUME NEW r, Runs = {r}, Init
    PROVE  InventoryInv(r)
<1>1. InvTypes
  <2>1. /\ ctxDone \in [Runs -> BOOLEAN] /\ closings \in [Runs -> 0..1]
        /\ rpc \in [Runs -> {"unused", "apply", "begin", "consume", "finish", "close", "over"}]
        /\ tpc \in [Runs -> {"unused", "next", "send", "async", "cancel", "wait", "over"}]
        /\ cpc \in [Callers -> {"idle", "lock", "apply", "cancel", "wait"}]
    BY DEF Init
  <2>2. QED
    BY <2>1 DEF Init, InvTypes
<1>2. rpc[r] = "unused" /\ tpc[r] = "unused" /\ closings[r] = 0 /\ ~ctxDone[r] /\ r # None
  BY NoneAssumption DEF Init
<1>3. Unstarted(r) /\ Fields(r) /\ Starter(r) /\ Counted(r) /\ Off(r)
  BY <1>2 DEF Init, Unstarted, Fields, Starter, Counted, Off
<1>4. QED
  BY <1>1, <1>2, <1>3 DEF InventoryInv

-----------------------------------------------------------------------------
LEMMA TransportKeeps ==
    ASSUME NEW r, Runs = {r}, InventoryInv(r),
           (\E c \in Callers : LinkUp(c)) \/ LinkFails \/ LinkDown
    PROVE  InventoryInv(r)'
<1> USE NoneAssumption DEF InventoryInv, InvTypes, Unstarted, Fields, Starter, Counted, Off, Told,
        fieldVars, runVars, txVars, callerVars
<1>1. CASE \E c \in Callers : LinkUp(c)
  BY <1>1 DEF LinkUp
<1>2. CASE LinkFails
  BY <1>2 DEF LinkFails
<1>3. CASE LinkDown
  BY <1>3 DEF LinkDown
<1>4. QED
  BY <1>1, <1>2, <1>3

LEMMA StartKeeps ==
    ASSUME NEW r, Runs = {r}, InventoryInv(r), NEW c \in Callers,
           \/ IsConnected(c) \/ AlreadyRunning(c) \/ StartInventory(c, r)
           \/ Applied(c) \/ ApplyFails(c)
    PROVE  InventoryInv(r)'
<1> USE NoneAssumption DEF InventoryInv, InvTypes, Unstarted, Fields, Starter, Counted, Off, Told,
        fieldVars, runVars, txVars, linkVars, Closing, Renounce, Cancelling
<1>1. CASE IsConnected(c) \/ AlreadyRunning(c)
  BY <1>1 DEF IsConnected, AlreadyRunning
<1>2. CASE StartInventory(c, r)
  <2>1. /\ rpc[r] = "unused" /\ Unstarted(r) /\ cpc[c] = "lock" /\ r # None
        /\ rpc' = [rpc EXCEPT ![r] = "apply"]
        /\ cpc' = [cpc EXCEPT ![c] = "apply"] /\ at' = [at EXCEPT ![c] = r]
    BY <1>2 DEF StartInventory
  <2>2. /\ rpc'[r] = "apply" /\ cpc'[c] = "apply" /\ at'[c] = r
        /\ \A d \in Callers : d # c => cpc'[d] = cpc[d] /\ at'[d] = at[d]
    BY <2>1
  <2>3. InvTypes'
    BY <1>2, <2>1 DEF StartInventory
  <2>4. Fields(r)' /\ Starter(r)'
    BY <1>2, <2>1, <2>2 DEF StartInventory
  <2>5. Counted(r)' /\ Off(r)'
    BY <1>2, <2>1, <2>2 DEF StartInventory
  <2>6. QED
    BY <1>2, <2>2, <2>3, <2>4, <2>5 DEF StartInventory
<1>3. CASE Applied(c)
  BY <1>3 DEF Applied
<1>4. CASE ApplyFails(c)
  <2>1. /\ cpc[c] = "apply" /\ at[c] = r /\ rpc[r] = "apply" /\ closings[r] = 0 /\ r # None
        /\ rpc' = [rpc EXCEPT ![r] = "over"]
        /\ cpc' = [cpc EXCEPT ![c] = "idle"] /\ at' = [at EXCEPT ![c] = None]
        /\ closings' = [closings EXCEPT ![r] = @ + 1]
    BY <1>4 DEF ApplyFails
  <2>2. /\ rpc'[r] = "over" /\ cpc'[c] = "idle"
        /\ \A d \in Callers : d # c => cpc'[d] = cpc[d] /\ at'[d] = at[d]
    BY <2>1
  <2>3. closings' \in [Runs -> 0..1] /\ owed' = None
    BY <1>4, <2>1 DEF ApplyFails
  <2>4. InvTypes'
    BY <1>4, <2>1, <2>3 DEF ApplyFails
  <2>5. Fields(r)' /\ Starter(r)' /\ Counted(r)' /\ Off(r)'
    BY <1>4, <2>1, <2>2, <2>3 DEF ApplyFails
  <2>6. QED
    BY <2>2, <2>4, <2>5
<1>5. QED
  BY <1>1, <1>2, <1>3, <1>4

LEMMA StopKeeps ==
    ASSUME NEW r, Runs = {r}, InventoryInv(r), NEW c \in Callers,
           StopInventory(c) \/ StopCancels(c) \/ StopReturns(c)
    PROVE  InventoryInv(r)'
<1> USE NoneAssumption DEF InventoryInv, InvTypes, Unstarted, Fields, Starter, Counted, Off, Told,
        fieldVars, runVars, txVars, linkVars, Cancelling
<1>1. CASE StopInventory(c)
  BY <1>1 DEF StopInventory
<1>2. CASE StopCancels(c)
  <2>1. /\ cpc[c] = "cancel" /\ ~inventoryOn /\ owed # r
        /\ cpc' = [cpc EXCEPT ![c] = "wait"] /\ target' = [target EXCEPT ![c] = None]
        /\ ctxDone' = [k \in Runs |-> ctxDone[k] \/ k = target[c]]
    BY <1>2 DEF StopCancels
  <2>2. /\ cpc'[c] = "wait" /\ ctxDone'[r] = (ctxDone[r] \/ r = target[c])
        /\ \A d \in Callers : d # c => cpc'[d] = cpc[d] /\ target'[d] = target[d]
    BY <2>1
  <2>3. InvTypes'
    BY <1>2, <2>1 DEF StopCancels
  <2>4. Fields(r)' /\ Starter(r)' /\ Counted(r)'
    BY <1>2, <2>1, <2>2 DEF StopCancels
  <2>5. Off(r)'
    <3>1. UNCHANGED <<inventoryOn, rpc, tpc, cancels>>
      BY <1>2 DEF StopCancels
    <3>2. SUFFICES ASSUME Told(r) PROVE Told(r)'
      BY <3>1
    <3>3. CASE ctxDone[r]
      BY <2>2, <3>3
    <3>4. ASSUME NEW d \in Callers, cpc[d] = "cancel", target[d] = r PROVE Told(r)'
      BY <2>2, <3>4
    <3>5. CASE tpc[r] = "cancel" /\ cancels[r] = r
      BY <3>1, <3>5
    <3>6. QED
      BY <3>2, <3>3, <3>4, <3>5
  <2>6. QED
    BY <1>2, <2>2, <2>3, <2>4, <2>5 DEF StopCancels
<1>3. CASE StopReturns(c)
  BY <1>3 DEF StopReturns
<1>4. QED
  BY <1>1, <1>2, <1>3

LEMMA RunKeeps ==
    ASSUME NEW r, Runs = {r}, InventoryInv(r), RunStep(r) \/ ContextEnds(r)
    PROVE  InventoryInv(r)'
<1> USE NoneAssumption DEF InventoryInv, InvTypes, Unstarted, Fields, Starter, Counted, Off, Told,
        fieldVars, txVars, linkVars, callerVars, Closing
<1>1. CASE RunBegins(r)
  BY <1>1 DEF RunBegins
<1>2. CASE RunEnds(r)
  BY <1>2 DEF RunEnds
<1>3. CASE Finish(r)
  BY <1>3 DEF Finish
<1>4. CASE FinishCloses(r)
  BY <1>4 DEF FinishCloses
<1>5. CASE ContextEnds(r)
  BY <1>5 DEF ContextEnds, Cancelling, Renounce, runVars
<1>6. QED
  BY <1>1, <1>2, <1>3, <1>4, <1>5 DEF RunStep

LEMMA TransmitKeeps ==
    ASSUME NEW r, Runs = {r}, InventoryInv(r), TxStep(r)
    PROVE  InventoryInv(r)'
<1> USE NoneAssumption DEF InventoryInv, InvTypes, Unstarted, Fields, Starter, Counted, Off, Told,
        fieldVars, runVars, linkVars, callerVars, TGoto
<1>1. CASE TxNext(r) \/ TxSent(r) \/ TxWaits(r)
  BY <1>1 DEF TxNext, TxSent, TxWaits
<1>2. CASE TxFails(r)
  BY <1>2 DEF TxFails, Renounce
<1>3. CASE TxStops(r)
  BY <1>3 DEF TxStops
<1>4. CASE TxCancels(r)
  BY <1>4 DEF TxCancels, Cancelling
<1>5. QED
  BY <1>1, <1>2, <1>3, <1>4 DEF TxStep

LEMMA InventoryStep ==
    ASSUME NEW r, Runs = {r}, InventoryInv(r), [Next]_vars
    PROVE  InventoryInv(r)'
<1>1. CASE UNCHANGED vars
  BY <1>1 DEF vars, fieldVars, runVars, txVars, linkVars, callerVars, InventoryInv, InvTypes,
       Unstarted, Fields, Starter, Counted, Off, Told
<1>2. CASE Next
  BY <1>2, TransportKeeps, StartKeeps, StopKeeps, RunKeeps, TransmitKeeps DEF Next, CallStep
<1>3. QED
  BY <1>1, <1>2

LEMMA InventoryInvariant ==
    ASSUME NEW r, Runs = {r}
    PROVE  Spec => []InventoryInv(r)
<1>1. Init => InventoryInv(r)
  BY InventoryInit
<1>2. InventoryInv(r) /\ [Next]_vars => InventoryInv(r)'
  BY InventoryStep
<1>3. QED
  BY <1>1, <1>2, PTL DEF Spec

-----------------------------------------------------------------------------
\* The three fields, the run's goroutines, the calls and the transport keep their types.
THEOREM InventoryTypeCorrect ==
    ASSUME NEW r, Runs = {r}
    PROVE  Spec => []TypeOK
<1>1. InventoryInv(r) => TypeOK
  <2>1. InvTypes /\ closings \in [Runs -> 0..1] => closings \in [Runs -> 0..2]
    OBVIOUS
  <2>2. QED
    BY <2>1 DEF InventoryInv, InvTypes, TypeOK
<1>2. QED
  BY <1>1, InventoryInvariant, PTL

\* The one inventory of an application is on until it is stopped or fails: not its
\* own goroutines nor overlapping calls switch it off or cancel it before.
THEOREM InventoryLasts ==
    ASSUME NEW r, Runs = {r}
    PROVE  Spec => []OwedRunIsOn
<1>1. InventoryInv(r) => OwedRunIsOn
  BY NoneAssumption DEF InventoryInv, InvTypes, Fields, Counted, OwedRunIsOn
<1>2. QED
  BY <1>1, InventoryInvariant, PTL

\* Its done channel is closed once, by the failed start or by the run's end.
THEOREM DoneClosedOnce ==
    ASSUME NEW r, Runs = {r}
    PROVE  Spec => []ClosedOnce
<1>1. InventoryInv(r) => ClosedOnce
  BY DEF InventoryInv, InvTypes, ClosedOnce, Panicked
<1>2. QED
  BY <1>1, InventoryInvariant, PTL

\* Whoever switches the inventory off sees to it that its run ends: a stop and a
\* failed command take the cancel function under c.mu, and one of them calls it.
THEOREM OffInventoryEnds ==
    ASSUME NEW r, Runs = {r}
    PROVE  Spec => []OffIsCancelled
<1>1. InventoryInv(r) => OffIsCancelled
  BY DEF InventoryInv, Off, Told, OffIsCancelled
<1>2. QED
  BY <1>1, InventoryInvariant, PTL
=============================================================================
