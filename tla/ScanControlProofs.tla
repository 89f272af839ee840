-------------------------- MODULE ScanControlProofs --------------------------
(***************************************************************************)
(* Proofs about ReaderManager and about ScanControl, whose handlers are    *)
(* its callers, for every set of callers on every surface and every set of *)
(* loops.                                                                  *)
(***************************************************************************)
EXTENDS ScanControl, TLAPS

-----------------------------------------------------------------------------
(***************************************************************************)
(* The reader manager: Spec is its specification, with any callers.        *)
(***************************************************************************)

\* A Stop that has read m.done, called its cancel function or not yet, waits for
\* a loop that will see its context done: WaitersServed holds one step earlier.
Served ==
    \A c \in Callers :
      cpc[c] # "idle" /\ awaited[c] # None =>
        \/ ctxDone[awaited[c]] \/ Cancelling(awaited[c])
        \/ ~Active(awaited[c])

ManagerInv == TypeOK /\ FieldsExact /\ Stoppable /\ Served

\* Every field keeps its type.
LEMMA TypeStep == TypeOK /\ [Next]_vars => TypeOK'
<1> SUFFICES ASSUME TypeOK, Next PROVE TypeOK'
  BY DEF TypeOK, vars, fieldVars, loopVars, callerVars
<1> USE DEF TypeOK
<1>1. ASSUME NEW c \in Callers, StartIgnored(c) PROVE TypeOK'
  BY <1>1 DEF StartIgnored, vars, fieldVars, loopVars, callerVars
<1>2. ASSUME NEW c \in Callers, NEW l \in Loops, NEW p \in Parents, Start(c, l, p)
      PROVE TypeOK'
  BY <1>2 DEF Start, LoopPc, callerVars
<1>3. ASSUME NEW c \in Callers, Stop(c) \/ Cancel(c) \/ Stopped(c) PROVE TypeOK'
  <2>1. CASE Stop(c)
    BY <2>1 DEF Stop, fieldVars, loopVars
  <2>2. CASE Cancel(c)
    BY <2>2 DEF Cancel, fieldVars, loopVars
  <2>3. CASE Stopped(c)
    BY <2>3 DEF Stopped, fieldVars, loopVars
  <2>4. QED
    BY <1>3, <2>1, <2>2, <2>3
<1>4. ASSUME NEW l \in Loops, LoopStep(l) PROVE TypeOK'
  BY <1>4 DEF LoopStep, Top, ConnectFails, ConnectSucceeds, ConsumeEnds,
       Disconnect, Sleep, FinishStopped, CloseDone, LGoto, LoopPc, fieldVars, callerVars
<1>5. ASSUME NEW l \in Loops, RequestEnds(l) PROVE TypeOK'
  BY <1>5 DEF RequestEnds, fieldVars, callerVars
<1>6. CASE Shutdown
  BY <1>6 DEF Shutdown, fieldVars, callerVars
<1>7. QED
  BY <1>1, <1>2, <1>3, <1>4, <1>5, <1>6 DEF Next, StopStep

\* A step of the loop in service keeps the fields exact: the loop is the one in
\* m.done until finishStopped takes it out.
LEMMA LoopKeepsFields ==
    ASSUME TypeOK, FieldsExact, NEW l \in Loops, LoopStep(l)
    PROVE  FieldsExact'
<1> USE NoneAssumption DEF TypeOK, FieldsExact, Active, LGoto
<1>1. CASE FinishStopped(l)
  BY <1>1 DEF FinishStopped, callerVars
<1>2. CASE CloseDone(l)
  BY <1>2 DEF CloseDone, fieldVars
<1>3. CASE ConnectSucceeds(l)
  BY <1>3 DEF ConnectSucceeds
<1>4. CASE Disconnect(l)
  BY <1>4 DEF Disconnect
<1>5. CASE Top(l) \/ ConnectFails(l) \/ ConsumeEnds(l) \/ Sleep(l)
  BY <1>5 DEF Top, ConnectFails, ConsumeEnds, Sleep, fieldVars
<1>6. QED
  BY <1>1, <1>2, <1>3, <1>4, <1>5 DEF LoopStep

\* m.running, m.done and m.cancel stay exact.
LEMMA FieldsStep == TypeOK /\ FieldsExact /\ [Next]_vars => FieldsExact'
<1> SUFFICES ASSUME TypeOK, FieldsExact, Next PROVE FieldsExact'
  BY DEF FieldsExact, Active, vars, fieldVars, loopVars
<1>1. ASSUME NEW c \in Callers, StartIgnored(c) PROVE FieldsExact'
  BY <1>1 DEF StartIgnored, FieldsExact, Active, vars, fieldVars, loopVars
<1>2. ASSUME NEW c \in Callers, NEW l \in Loops, NEW p \in Parents, Start(c, l, p)
      PROVE FieldsExact'
  BY <1>2, NoneAssumption DEF Start, Free, FieldsExact, Active, TypeOK
<1>3. ASSUME NEW c \in Callers, Stop(c) \/ Cancel(c) \/ Stopped(c) PROVE FieldsExact'
  BY <1>3 DEF Stop, Cancel, Stopped, FieldsExact, Active, fieldVars, loopVars
<1>4. ASSUME NEW l \in Loops, LoopStep(l) PROVE FieldsExact'
  BY <1>4, LoopKeepsFields
<1>5. ASSUME NEW l \in Loops, RequestEnds(l) PROVE FieldsExact'
  BY <1>5 DEF RequestEnds, FieldsExact, Active, fieldVars
<1>6. CASE Shutdown
  BY <1>6 DEF Shutdown, FieldsExact, Active, fieldVars
<1>7. QED
  BY <1>1, <1>2, <1>3, <1>4, <1>5, <1>6 DEF Next, StopStep
\* A step of a loop cancels nothing and lets no loop escape: a loop it takes
\* out of service needs nobody, and m.cancel falls with that loop only.
LEMMA LoopKeepsStops ==
    ASSUME ManagerInv, NEW l \in Loops, LoopStep(l)
    PROVE  Stoppable' /\ Served'
<1> USE DEF ManagerInv, TypeOK, LGoto
<1>1. /\ ctxDone' = ctxDone /\ callerVars' = callerVars
      /\ \A k \in Loops : Active(k)' => Active(k)
  BY DEF LoopStep, Top, ConnectFails, ConnectSucceeds, ConsumeEnds, Disconnect,
     Sleep, FinishStopped, CloseDone, Active
<1>2. cancel' = cancel \/ (FinishStopped(l) /\ \A k \in Loops : ~Active(k)')
  <2>1. CASE FinishStopped(l)
    BY <2>1 DEF FinishStopped, FieldsExact, Active
  <2>2. CASE ~FinishStopped(l)
    BY <2>2 DEF LoopStep, Top, ConnectFails, ConnectSucceeds, ConsumeEnds,
       Disconnect, Sleep, CloseDone, fieldVars
  <2>3. QED
    BY <2>1, <2>2
<1>3. \A k \in Loops : Cancelling(k)' <=> Cancelling(k)
  BY <1>1 DEF Cancelling, callerVars
<1>4. Stoppable'
  BY <1>1, <1>2, <1>3 DEF Stoppable
<1>5. Served'
  BY <1>1, <1>3 DEF Served, callerVars
<1>6. QED
  BY <1>4, <1>5

\* Start hands the cancel function of the new loop to m; the loop was free, so
\* no Stop waits for it.
LEMMA StartKeepsStops ==
    ASSUME ManagerInv, NEW c \in Callers, NEW l \in Loops, NEW p \in Parents,
           Start(c, l, p)
    PROVE  Stoppable' /\ Served'
<1> USE DEF ManagerInv, TypeOK, Start, Free
<1>1. \A k \in Loops : Cancelling(k)' <=> Cancelling(k)
  BY DEF Cancelling, callerVars
<1>2. \A k \in Loops : ~Active(k)
  BY NoneAssumption DEF FieldsExact
<1>3. Stoppable'
  BY <1>2 DEF Stoppable, Active
<1>4. Served'
  BY <1>1, <1>2 DEF Served, Active, callerVars
<1>5. QED
  BY <1>3, <1>4

\* Stop, its call of the cancel function and its return: whoever takes the
\* function out of m calls it next, and until then counts as cancelling.
LEMMA StopKeepsStops ==
    ASSUME ManagerInv, NEW c \in Callers, Stop(c) \/ Cancel(c) \/ Stopped(c)
    PROVE  Stoppable' /\ Served'
<1> USE NoneAssumption DEF ManagerInv, TypeOK
<1>1. CASE Stop(c)
  <2> USE <1>1 DEF Stop, loopVars
  <2>1. \A k \in Loops : Cancelling(k) => Cancelling(k)'
    BY DEF Cancelling
  <2>2. \A k \in Loops : cancel = k => Cancelling(k)'
    BY DEF Cancelling
  <2>3. Stoppable'
    BY <2>1, <2>2 DEF Stoppable, Active
  <2>4. Served'
    BY <2>1, <2>2 DEF Served, Stoppable, Active
  <2>5. QED
    BY <2>3, <2>4
<1>2. CASE Cancel(c)
  <2> USE <1>2 DEF Cancel, fieldVars
  <2>1. \A k \in Loops : Cancelling(k) => Cancelling(k)' \/ ctxDone'[k]
    BY DEF Cancelling
  <2>2. \A k \in Loops : ctxDone[k] => ctxDone'[k]
    OBVIOUS
  <2>3. Stoppable'
    BY <2>1, <2>2 DEF Stoppable, Active
  <2>4. Served'
    BY <2>1, <2>2 DEF Served, Active
  <2>5. QED
    BY <2>3, <2>4
<1>3. CASE Stopped(c)
  <2>1. \A k \in Loops : Cancelling(k)' <=> Cancelling(k)
    BY <1>3 DEF Stopped, Cancelling
  <2>2. QED
    BY <1>3, <2>1 DEF Stopped, Stoppable, Served, Active, fieldVars, loopVars
<1>4. QED
  BY <1>1, <1>2, <1>3

\* ManagerInv is inductive.
LEMMA ManagerInvStep == ManagerInv /\ [Next]_vars => ManagerInv'
<1> SUFFICES ASSUME ManagerInv, [Next]_vars PROVE ManagerInv'
  OBVIOUS
<1>1. TypeOK' /\ FieldsExact'
  BY TypeStep, FieldsStep DEF ManagerInv
<1>2. Stoppable' /\ Served'
  <2>1. CASE UNCHANGED vars
    BY <2>1 DEF ManagerInv, Stoppable, Served, Cancelling, Active, vars,
       fieldVars, loopVars, callerVars
  <2>2. ASSUME NEW c \in Callers, StartIgnored(c) PROVE Stoppable' /\ Served'
    BY <2>1, <2>2 DEF StartIgnored
  <2>3. ASSUME NEW c \in Callers, NEW l \in Loops, NEW p \in Parents, Start(c, l, p)
        PROVE  Stoppable' /\ Served'
    BY <2>3, StartKeepsStops
  <2>4. ASSUME NEW c \in Callers, Stop(c) \/ StopStep(c) PROVE Stoppable' /\ Served'
    BY <2>4, StopKeepsStops DEF StopStep
  <2>5. ASSUME NEW l \in Loops, LoopStep(l) PROVE Stoppable' /\ Served'
    BY <2>5, LoopKeepsStops
  <2>6. ASSUME Shutdown \/ \E l \in Loops : RequestEnds(l) PROVE Stoppable' /\ Served'
    <3>1. /\ fieldVars' = fieldVars /\ lpc' = lpc /\ callerVars' = callerVars
          /\ \A k \in Loops : ctxDone[k] => ctxDone'[k]
      BY <2>6 DEF Shutdown, RequestEnds, ManagerInv, TypeOK
    <3>2. \A k \in Loops : Cancelling(k)' <=> Cancelling(k)
      BY <3>1 DEF Cancelling, callerVars
    <3>3. QED
      BY <3>1, <3>2 DEF ManagerInv, TypeOK, Stoppable, Served, Active, fieldVars, callerVars
  <2>7. QED
    BY <2>1, <2>2, <2>3, <2>4, <2>5, <2>6 DEF Next
<1>3. QED
  BY <1>1, <1>2 DEF ManagerInv

\* A new manager: no loop, no caller in Stop.
LEMMA ManagerInvInit == Init => ManagerInv
<1> SUFFICES ASSUME Init PROVE ManagerInv
  OBVIOUS
<1> USE DEF Init
<1>1. TypeOK
  BY DEF TypeOK, LoopPc, Parents
<1>2. \A l \in Loops : ~Active(l)
  BY DEF Active
<1>3. FieldsExact
  BY <1>2, NoneAssumption DEF FieldsExact
<1>4. Stoppable
  BY <1>2 DEF Stoppable
<1>5. Served
  BY DEF Served
<1>6. QED
  BY <1>1, <1>3, <1>4, <1>5 DEF ManagerInv

LEMMA ManagerInvariant == Spec => []ManagerInv
<1>1. QED
  BY ManagerInvInit, ManagerInvStep, PTL DEF Spec

-----------------------------------------------------------------------------
\* The variables of the manager keep their types.
THEOREM ManagerTypeCorrect == Spec => []TypeOK
<1>1. ManagerInv => TypeOK
  BY DEF ManagerInv
<1>2. QED
  BY <1>1, ManagerInvariant, PTL

\* m.running, m.done, m.cancel and the status always tell of the loop in
\* service, whoever called Start and Stop meanwhile.
THEOREM FieldsAreExact == Spec => []FieldsExact
<1>1. ManagerInv => FieldsExact
  BY DEF ManagerInv
<1>2. QED
  BY <1>1, ManagerInvariant, PTL

\* No two goroutines of scanLoop are between their spawn and finishStopped.
THEOREM OneLoopAtATime == Spec => []AtMostOneLoop
<1>1. ManagerInv => AtMostOneLoop
  BY DEF ManagerInv, FieldsExact, AtMostOneLoop
<1>2. QED
  BY <1>1, ManagerInvariant, PTL

\* The loop in service is cancelled, or m.cancel or a Stop under way reaches it.
THEOREM LoopStoppable == Spec => []Stoppable
<1>1. ManagerInv => Stoppable
  BY DEF ManagerInv
<1>2. QED
  BY <1>1, ManagerInvariant, PTL

\* No Stop waits for a loop that nobody has cancelled or is about to cancel.
THEOREM NoStopForgotten == Spec => []WaitersServed
<1>1. ManagerInv => WaitersServed
  BY DEF ManagerInv, Served, WaitersServed
<1>2. QED
  BY <1>1, ManagerInvariant, PTL

-----------------------------------------------------------------------------
(***************************************************************************)
(* The handlers of the surfaces.                                           *)
(***************************************************************************)

\* A caller is inside Stop of the manager exactly while its handler is.
Linked == \A c \in Callers : cpc[c] # "idle" <=> hpc[c] = "stop"

\* While a scan stop runs alone m.done is the channel it waits for, or nil; when
\* Stop has returned it is nil.
Alone(c) == \A d \in Callers : hpc[d] \notin Starting
QuietInv ==
    \A c \in Callers : quiet[c] /\ hpc[c] \in {"stop", "deactivate"} =>
      /\ Alone(c)
      /\ hpc[c] = "stop" => done \in {None, awaited[c]}
      /\ hpc[c] = "deactivate" /\ HasReader => done = None

ControlInv == ControlTypeOK /\ ManagerInv /\ Linked /\ QuietInv

-----------------------------------------------------------------------------
\* The handlers use the manager through its operations only.
LEMMA ControlRefinesManager == [ControlNext]_controlVars => [Next]_vars
<1> SUFFICES ASSUME ControlNext PROVE [Next]_vars
  BY DEF controlVars, vars
<1>1. ASSUME NEW c \in Callers, HandlerStep(c) PROVE [Next]_vars
  <2>1. CASE BeginStart(c) \/ Refreshed(c) \/ Activate(c) \/ AutoActivate(c) \/ Deactivate(c)
    BY <2>1 DEF BeginStart, Refreshed, Activate, AutoActivate, Deactivate
  <2>2. ASSUME StartReader(c) PROVE Next
    <3>1. ContextOf(c) \in Parents
      BY DEF ContextOf, Parents
    <3>2. QED
      BY <2>2, <3>1 DEF StartReader, Next
  <2>3. CASE StartScanner(c) \/ AutoStart(c)
    BY <2>2, <2>3 DEF StartScanner, AutoStart
  <2>4. CASE BeginStop(c)
    BY <2>4 DEF BeginStop, Next
  <2>5. CASE Stopping(c)
    BY <2>5 DEF Stopping, StopStep, Next
  <2>6. QED
    BY <1>1, <2>1, <2>3, <2>4, <2>5 DEF HandlerStep
<1>2. CASE ReaderStep
  BY <1>2 DEF ReaderStep, Next
<1>3. QED
  BY <1>1, <1>2 DEF ControlNext

\* The types of the handlers' own state.
LEMMA ControlTypeStep ==
    ASSUME ControlTypeOK, [ControlNext]_controlVars
    PROVE  ControlTypeOK'
<1>1. TypeOK'
  BY ControlRefinesManager, TypeStep DEF ControlTypeOK
<1> DEFINE HandlerTypeOK ==
      /\ scanActive \in BOOLEAN /\ hpc \in [Callers -> HandlerPc]
      /\ quiet \in [Callers -> BOOLEAN] /\ unread \in BOOLEAN
<1>2. HandlerTypeOK'
  <2> USE DEF ControlTypeOK, HandlerPc, Starting, HGoto
  <2>1. CASE UNCHANGED controlVars
    BY <2>1 DEF controlVars
  <2>2. CASE ReaderStep
    BY <2>2 DEF ReaderStep
  <2>3. ASSUME NEW c \in Callers, HandlerStep(c) PROVE HandlerTypeOK'
    <3>1. CASE BeginStart(c) \/ Refreshed(c) \/ Activate(c)
      BY <3>1 DEF BeginStart, Refreshed, Activate
    <3>2. CASE StartScanner(c) \/ AutoStart(c) \/ AutoActivate(c)
      BY <3>2 DEF StartScanner, AutoStart, AutoActivate, StartReader
    <3>3. CASE BeginStop(c)
      BY <3>3 DEF BeginStop
    <3>4. CASE Stopping(c) \/ Deactivate(c)
      BY <3>4 DEF Stopping, Deactivate
    <3>5. QED
      BY <2>3, <3>1, <3>2, <3>3, <3>4 DEF HandlerStep
  <2>4. QED
    BY <2>1, <2>2, <2>3 DEF ControlNext
<1>3. QED
  BY <1>1, <1>2 DEF ControlTypeOK

\* What a step of the reader does to the fields the handlers' invariants read.
LEMMA ReaderStepFrame ==
    ASSUME ControlTypeOK, ReaderStep
    PROVE  /\ hpc' = hpc /\ quiet' = quiet /\ scanActive' = scanActive
           /\ cpc' = cpc /\ awaited' = awaited /\ target' = target
           /\ done' \in {done, None} /\ parent' = parent
<1>1. (\E l \in Loops : LoopStep(l) \/ RequestEnds(l)) \/ Shutdown
  BY DEF ReaderStep
<1>2. QED
  BY <1>1 DEF ReaderStep, LoopStep, Top, ConnectFails, ConnectSucceeds, ConsumeEnds,
     Disconnect, Sleep, FinishStopped, CloseDone, LGoto, RequestEnds, Shutdown,
     fieldVars, callerVars

\* The handlers stay in step with the manager.
LEMMA LinkedStep ==
    ASSUME ControlTypeOK, Linked, [ControlNext]_controlVars
    PROVE  Linked'
<1> USE DEF ControlTypeOK, TypeOK, HGoto
<1>1. CASE UNCHANGED controlVars
  BY <1>1 DEF Linked, controlVars, vars, callerVars
<1>2. CASE ReaderStep
  BY <1>2, ReaderStepFrame DEF Linked
<1>3. ASSUME NEW c \in Callers, HandlerStep(c) PROVE Linked'
  <2>1. CASE BeginStart(c) \/ Refreshed(c) \/ Activate(c) \/ AutoActivate(c) \/ Deactivate(c)
    BY <2>1 DEF BeginStart, Refreshed, Activate, AutoActivate, Deactivate, Linked,
         vars, callerVars
  <2>2. CASE StartScanner(c) \/ AutoStart(c)
    <3>1. cpc' = cpc
      BY <2>2 DEF StartScanner, AutoStart, StartReader, StartIgnored, Start, vars, callerVars
    <3>2. QED
      BY <2>2, <3>1 DEF StartScanner, AutoStart, Linked
  <2>3. CASE BeginStop(c)
    BY <2>3 DEF BeginStop, Stop, Linked, vars, callerVars
  <2>4. CASE Stopping(c)
    BY <2>4 DEF Stopping, Cancel, Stopped, Linked
  <2>5. QED
    BY <1>3, <2>1, <2>2, <2>3, <2>4 DEF HandlerStep
<1>4. QED
  BY <1>1, <1>2, <1>3 DEF ControlNext
\* The scan stops that run alone stay alone, and nobody puts a loop into m.done
\* beside them.
LEMMA QuietStep ==
    ASSUME ControlInv, [ControlNext]_controlVars
    PROVE  QuietInv'
<1> USE DEF ControlInv, ControlTypeOK, TypeOK, HGoto
<1>1. CASE UNCHANGED controlVars
  BY <1>1 DEF QuietInv, Alone, controlVars, vars, fieldVars, callerVars
<1>2. CASE ReaderStep
  BY <1>2, ReaderStepFrame DEF QuietInv, Alone
<1>3. ASSUME NEW c \in Callers, HandlerStep(c) PROVE QuietInv'
  <2>1. CASE BeginStart(c)
    BY <2>1 DEF BeginStart, QuietInv
  <2>2. CASE Refreshed(c) \/ Activate(c) \/ StartScanner(c) \/ AutoStart(c) \/ AutoActivate(c)
    <3>1. hpc[c] \in Starting /\ quiet' = quiet
      BY <2>2 DEF Refreshed, Activate, StartScanner, AutoStart, AutoActivate, Starting
    <3>2. \A d \in Callers : quiet[d] => hpc[d] \notin {"stop", "deactivate"}
      BY <3>1 DEF QuietInv, Alone
    <3>3. hpc'[c] \notin {"stop", "deactivate"} /\ \A d \in Callers \ {c} : hpc'[d] = hpc[d]
      BY <2>2 DEF Refreshed, Activate, StartScanner, AutoStart, AutoActivate
    <3>4. QED
      BY <3>1, <3>2, <3>3 DEF QuietInv
  <2>3. CASE BeginStop(c)
    <3>1. \A d \in Callers : d # c => hpc'[d] = hpc[d] /\ quiet'[d] = quiet[d]
      BY <2>3 DEF BeginStop
    <3>2. done' = done /\ \A d \in Callers : d # c => awaited'[d] = awaited[d]
      BY <2>3 DEF BeginStop, Stop, vars, fieldVars, callerVars
    <3>3. hpc'[c] \notin Starting /\ (quiet'[c] => Alone(c)) /\ (hpc'[c] = "deactivate" => ~HasReader)
      BY <2>3 DEF BeginStop, Starting, Alone
    <3>4. hpc'[c] = "stop" => awaited'[c] = done
      BY <2>3 DEF BeginStop, Stop
    <3>5. \A d \in Callers : Alone(d) => Alone(d)'
      BY <3>1, <3>3 DEF Alone
    <3>6. QED
      BY <3>1, <3>2, <3>3, <3>4, <3>5 DEF QuietInv
  <2>4. CASE Stopping(c)
    <3>1. done' = done /\ quiet' = quiet
      BY <2>4 DEF Stopping, Cancel, Stopped, fieldVars
    <3>2. \A d \in Callers : d # c => hpc'[d] = hpc[d] /\ awaited'[d] = awaited[d]
      BY <2>4 DEF Stopping, Cancel, Stopped
    <3>3. hpc[c] = "stop"
      BY <2>4 DEF Stopping, Cancel, Stopped, Linked
    <3>4. \/ hpc'[c] = "stop" /\ awaited'[c] = awaited[c]
          \/ hpc'[c] = "deactivate" /\ (done \in {None, awaited[c]} => done = None)
      <4>1. CASE Cancel(c)
        BY <2>4, <3>3, <4>1 DEF Stopping, Cancel, Stopped
      <4>2. CASE ~Cancel(c)
        <5>1. Stopped(c) /\ hpc'[c] = "deactivate"
          BY <2>4, <4>2 DEF Stopping
        <5>2. done = awaited[c] => done = None
          BY <5>1, NoneAssumption DEF Stopped, ManagerInv, FieldsExact, Active
        <5>3. QED
          BY <5>1, <5>2
      <4>3. QED
        BY <4>1, <4>2
    <3>5. \A d \in Callers : Alone(d) => Alone(d)'
      BY <3>2, <3>4 DEF Alone, Starting
    <3>6. QED
      BY <3>1, <3>2, <3>3, <3>4, <3>5 DEF QuietInv
  <2>5. CASE Deactivate(c)
    BY <2>5 DEF Deactivate, QuietInv, Alone, Starting, vars, fieldVars, callerVars
  <2>6. QED
    BY <1>3, <2>1, <2>2, <2>3, <2>4, <2>5 DEF HandlerStep
<1>4. QED
  BY <1>1, <1>2, <1>3 DEF ControlNext

LEMMA ControlInvStep == ControlInv /\ [ControlNext]_controlVars => ControlInv'
<1> SUFFICES ASSUME ControlInv, [ControlNext]_controlVars PROVE ControlInv'
  OBVIOUS
<1>1. ControlTypeOK' /\ Linked'
  BY ControlTypeStep, LinkedStep DEF ControlInv
<1>2. ManagerInv'
  BY ControlRefinesManager, ManagerInvStep DEF ControlInv
<1>3. QuietInv'
  BY QuietStep
<1>4. QED
  BY <1>1, <1>2, <1>3 DEF ControlInv

\* No handler is in a scan stop when main is done with its setup.
LEMMA ControlInvInit == ControlInit => ControlInv
<1> SUFFICES ASSUME ControlInit PROVE ControlInv
  OBVIOUS
<1>1. ManagerInv
  BY ManagerInvInit DEF ControlInit
<1>2. ControlTypeOK
  BY <1>1, SurfaceAssumption DEF ControlInit, ControlTypeOK, ManagerInv, HandlerPc, Starting
<1>3. Linked /\ QuietInv
  BY DEF ControlInit, Init, Linked, QuietInv
<1>4. QED
  BY <1>1, <1>2, <1>3 DEF ControlInv

LEMMA ControlInvariant == ControlSpec => []ControlInv
<1>1. QED
  BY ControlInvInit, ControlInvStep, PTL DEF ControlSpec

-----------------------------------------------------------------------------
\* A step that answers a scan stop that ran alone leaves the flag off and no
\* loop in m.
LEMMA QuietAnswer ==
    ASSUME ControlInv, [ControlNext]_controlVars,
           NEW c \in Callers, hpc[c] = "deactivate", hpc'[c] = "idle",
           quiet[c], HasReader
    PROVE  ~scanActive' /\ ~running'
<1> USE DEF ControlInv, ControlTypeOK, HGoto
<1>1. ~ReaderStep /\ ~UNCHANGED controlVars
  BY ReaderStepFrame DEF controlVars
<1>2. PICK d \in Callers : HandlerStep(d)
  BY <1>1 DEF ControlNext
<1>3. Deactivate(c)
  BY <1>2 DEF HandlerStep, BeginStart, Refreshed, Activate, StartScanner, AutoStart,
     AutoActivate, BeginStop, Stopping, Deactivate, Cancel, Stopped
<1>4. ~running
  BY DEF QuietInv, ManagerInv, FieldsExact
<1>5. QED
  BY <1>3, <1>4 DEF Deactivate, vars, fieldVars

\* A scan stop that no scan start ran beside leaves nothing running.
THEOREM QuietStops == ControlSpec => QuietStop
<1>1. ControlInv /\ [ControlNext]_controlVars =>
        [\A c \in Callers :
           hpc[c] = "deactivate" /\ hpc'[c] = "idle" /\ quiet[c] /\ HasReader =>
             ~scanActive' /\ ~running']_controlVars
  BY QuietAnswer
<1>2. QED
  BY <1>1, ControlInvariant, PTL DEF ControlSpec, QuietStop
-----------------------------------------------------------------------------
(***************************************************************************)
(* ActiveScanReads, on every surface and in every configuration.           *)
(***************************************************************************)
InStop(l) == \E c \in Callers : hpc[c] = "stop" /\ awaited[c] = l

\* A loop in service whose context is done is being stopped, or the process is
\* going down, or the loop belonged to an HTTP request.
CancelledKnown ==
    /\ \A l \in Loops : Active(l) /\ ctxDone[l] => down \/ unread \/ InStop(l)
    /\ \A c \in Callers :
         cpc[c] = "cancelling" /\ target[c] # None => awaited[c] = target[c]

\* A loop gives up only when its context is done.
LeavesCancelled ==
    \A l \in Loops : lpc[l] \in {"retire", "finishing"} => ctxDone[l]

\* A scan that is on is read for, or a handler is about to start the reader or
\* to switch the scan off.
ScanServed ==
    scanActive /\ HasReader /\ ~down /\ ~unread =>
      \/ \E l \in Loops : Reading(l)
      \/ \E c \in Callers : hpc[c] \in {"start", "stop", "deactivate"}

ReadInv == ControlInv /\ CancelledKnown /\ LeavesCancelled /\ ScanServed

\* A loop ends its service with its context done.
LEMMA LoopKeepsReading ==
    ASSUME ReadInv, NEW l \in Loops, LoopStep(l),
           UNCHANGED <<scanActive, hpc, quiet, unread>>
    PROVE  CancelledKnown' /\ LeavesCancelled' /\ ScanServed'
<1> USE DEF ReadInv, ControlInv, ControlTypeOK, TypeOK, LGoto
<1>1. /\ ctxDone' = ctxDone /\ callerVars' = callerVars /\ down' = down
      /\ \A k \in Loops : Active(k)' => Active(k)
      /\ \A k \in Loops : Active(k) => Active(k)' \/ lpc[k] = "finishing"
      /\ \A k \in Loops : lpc'[k] = "finishing" \/ lpc'[k] = "retire" =>
           ctxDone[k] \/ lpc[k] \in {"retire", "finishing"}
  BY DEF LoopStep, Top, ConnectFails, ConnectSucceeds, ConsumeEnds, Disconnect,
     Sleep, FinishStopped, CloseDone, Active
<1>2. CancelledKnown'
  BY <1>1 DEF CancelledKnown, InStop, callerVars
<1>3. LeavesCancelled'
  BY <1>1 DEF LeavesCancelled
<1>4. \A k \in Loops : Reading(k) => Reading(k)'
  BY <1>1 DEF Reading, LeavesCancelled
<1>5. ScanServed'
  BY <1>1, <1>4 DEF ScanServed
<1>6. QED
  BY <1>2, <1>3, <1>5

\* A Start that spawns a loop found none in service; its loop reads, unless the
\* process is going down.
LEMMA NewLoopReads ==
    ASSUME ReadInv, NEW c \in Callers, NEW l \in Loops, NEW p \in Parents,
           Start(c, l, p)
    PROVE  CancelledKnown' /\ LeavesCancelled' /\ (~down' => Reading(l)')
<1> USE DEF ReadInv, ControlInv, ControlTypeOK, TypeOK
<1>1. \A k \in Loops : ~Active(k)
  BY NoneAssumption DEF Start, ManagerInv, FieldsExact
<1>2. /\ ctxDone' = [ctxDone EXCEPT ![l] = down /\ p = "process"]
      /\ lpc' = [lpc EXCEPT ![l] = "top"] /\ down' = down
      /\ cpc' = cpc /\ awaited' = awaited /\ target' = target
  BY DEF Start, callerVars
<1>3. CancelledKnown'
  BY <1>1, <1>2 DEF CancelledKnown, Active
<1>4. LeavesCancelled' /\ (~down' => Reading(l)')
  BY <1>2 DEF LeavesCancelled, Reading, Active
<1>5. QED
  BY <1>3, <1>4

\* A step on the flags and on one handler, outside Stop, leaves the loops alone.
LEMMA HandlerKeepsReading ==
    ASSUME ReadInv, UNCHANGED vars, unread \in BOOLEAN, unread => unread',
           \A c \in Callers : hpc[c] = "stop" => hpc'[c] = "stop"
    PROVE  CancelledKnown' /\ LeavesCancelled' /\ (\A l \in Loops : Reading(l) => Reading(l)')
<1>1. \A l \in Loops : InStop(l) => InStop(l)'
  BY DEF InStop, vars, callerVars
<1>2. QED
  BY <1>1 DEF ReadInv, CancelledKnown, LeavesCancelled, Reading, Active, vars,
     loopVars, callerVars

\* Start: a new loop reads; one that is found reads too, or a stop is under way.
LEMMA StartKeepsReading ==
    ASSUME ReadInv, NEW c \in Callers, StartScanner(c) \/ AutoStart(c)
    PROVE  CancelledKnown' /\ LeavesCancelled' /\ ScanServed'
<1> USE DEF ReadInv, ControlInv, ControlTypeOK, TypeOK, HGoto
<1>1. /\ hpc[c] \in {"start", "autostart"} /\ scanActive' = scanActive
      /\ \A d \in Callers : d # c => hpc'[d] = hpc[d]
      /\ hpc[c] = "start" \/ hpc'[c] # "start"
      /\ \/ HasReader /\ StartReader(c)
         \/ ~HasReader /\ UNCHANGED <<vars, unread>>
  BY DEF StartScanner, AutoStart
<1>2. CASE UNCHANGED <<vars, unread>> /\ (HasReader => running)
  <2>1. HasReader => \E l \in Loops : Active(l)
    BY <1>2 DEF ManagerInv, FieldsExact
  <2>2. HasReader /\ ~down /\ ~unread =>
          (\E l \in Loops : Reading(l)) \/ \E d \in Callers : hpc[d] = "stop"
    BY <2>1 DEF CancelledKnown, Reading, InStop
  <2>3. CancelledKnown' /\ LeavesCancelled' /\ \A l \in Loops : Reading(l) => Reading(l)'
    BY <1>1, <1>2, HandlerKeepsReading
  <2>4. ScanServed'
    BY <1>1, <1>2, <2>2, <2>3 DEF ScanServed, vars, loopVars
  <2>5. QED
    BY <2>3, <2>4
<1>3. ASSUME NEW l \in Loops, Start(c, l, ContextOf(c))
      PROVE  CancelledKnown' /\ LeavesCancelled' /\ ScanServed'
  <2>1. ContextOf(c) \in Parents
    BY DEF ContextOf, Parents
  <2>2. CancelledKnown' /\ LeavesCancelled' /\ (~down' => Reading(l)')
    BY <1>3, <2>1, NewLoopReads
  <2>3. QED
    BY <2>2 DEF ScanServed
<1>4. QED
  <2>1. CASE HasReader
    BY <1>1, <1>2, <1>3, <2>1 DEF StartReader, StartIgnored
  <2>2. CASE ~HasReader
    BY <1>1, <1>2, <2>2
  <2>3. QED
    BY <2>1, <2>2

\* A scan stop cancels only as a handler in Stop, and the flag falls last.
LEMMA StopKeepsReading ==
    ASSUME ReadInv, NEW c \in Callers, BeginStop(c) \/ Stopping(c) \/ Deactivate(c)
    PROVE  CancelledKnown' /\ LeavesCancelled' /\ ScanServed'
<1> USE NoneAssumption DEF ReadInv, ControlInv, ControlTypeOK, TypeOK, HGoto
<1>1. CASE BeginStop(c) /\ HasReader
  <2>1. /\ Stop(c) /\ hpc[c] = "idle" /\ hpc' = [hpc EXCEPT ![c] = "stop"]
        /\ scanActive' = scanActive /\ unread' = unread
    BY <1>1 DEF BeginStop
  <2>2. \A l \in Loops : InStop(l) => InStop(l)'
    BY <2>1 DEF InStop, Stop
  <2>3. CancelledKnown'
    BY <2>1, <2>2 DEF CancelledKnown, Stop, ManagerInv, FieldsExact, Active, loopVars
  <2>4. LeavesCancelled' /\ ScanServed'
    BY <2>1 DEF LeavesCancelled, ScanServed, Stop, loopVars
  <2>5. QED
    BY <2>3, <2>4
<1>2. CASE (BeginStop(c) /\ ~HasReader) \/ Deactivate(c)
  <2>1. UNCHANGED vars /\ unread' = unread /\ \A d \in Callers : hpc[d] = "stop" => hpc'[d] = "stop"
    BY <1>2 DEF BeginStop, Deactivate
  <2>2. CancelledKnown' /\ LeavesCancelled'
    BY <2>1, HandlerKeepsReading
  <2>3. ScanServed'
    BY <1>2 DEF ScanServed, BeginStop, Deactivate
  <2>4. QED
    BY <2>2, <2>3
<1>3. CASE Stopping(c)
  <2>1. hpc[c] = "stop"
    BY <1>3 DEF Stopping, Cancel, Stopped, Linked
  <2>2. ScanServed'
    BY <1>3, <2>1 DEF ScanServed, Stopping
  <2>3. CASE Cancel(c)
    <3>1. hpc' = hpc /\ awaited' = awaited /\ unread' = unread
      BY <1>3, <2>1, <2>3 DEF Stopping, Cancel, Stopped
    <3>2. \A l \in Loops : InStop(l)' <=> InStop(l)
      BY <3>1 DEF InStop
    <3>3. \A l \in Loops : l = target[c] => InStop(l)
      BY <2>1, <2>3 DEF InStop, CancelledKnown, Cancel
    <3>4. CancelledKnown' /\ LeavesCancelled'
      BY <2>3, <3>1, <3>2, <3>3 DEF CancelledKnown, LeavesCancelled, Cancel, Active
    <3>5. QED
      BY <2>2, <3>4
  <2>4. CASE Stopped(c)
    <3>1. \A l \in Loops : Active(l) => l # awaited[c]
      BY <2>4 DEF Stopped, Active
    <3>2. \A l \in Loops : Active(l) /\ InStop(l) => InStop(l)'
      BY <1>3, <2>4, <3>1 DEF InStop, Stopping, Stopped, Cancel
    <3>3. CancelledKnown' /\ LeavesCancelled'
      BY <1>3, <2>4, <3>2 DEF Stopping, CancelledKnown, LeavesCancelled, Stopped, Active, loopVars
    <3>4. QED
      BY <2>2, <3>3
  <2>5. QED
    BY <1>3, <2>3, <2>4 DEF Stopping
<1>4. QED
  BY <1>1, <1>2, <1>3

\* ReadInv is inductive.
LEMMA ReadInvStep == ReadInv /\ [ControlNext]_controlVars => ReadInv'
<1> SUFFICES ASSUME ReadInv, [ControlNext]_controlVars
             PROVE  CancelledKnown' /\ LeavesCancelled' /\ ScanServed'
  BY ControlInvStep DEF ReadInv
<1> DEFINE Goal == CancelledKnown' /\ LeavesCancelled' /\ ScanServed'
<1> USE DEF ReadInv, ControlInv, ControlTypeOK
<1>1. CASE UNCHANGED controlVars
  <2>1. CancelledKnown' /\ LeavesCancelled' /\ \A l \in Loops : Reading(l) => Reading(l)'
    BY <1>1, HandlerKeepsReading DEF controlVars
  <2>2. QED
    BY <1>1, <2>1 DEF controlVars, ScanServed, vars, loopVars
<1>2. ASSUME NEW c \in Callers, HandlerStep(c) PROVE Goal
  <2> USE DEF HGoto
  <2>1. CASE BeginStart(c) \/ Refreshed(c) \/ Activate(c) \/ AutoActivate(c)
    <3>1. /\ UNCHANGED vars /\ hpc[c] \notin {"start", "stop", "deactivate"}
          /\ (unread => unread') /\ \A d \in Callers : d # c => hpc'[d] = hpc[d]
      BY <2>1 DEF BeginStart, Refreshed, Activate, AutoActivate
    <3>2. CancelledKnown' /\ LeavesCancelled' /\ \A l \in Loops : Reading(l) => Reading(l)'
      BY <3>1, HandlerKeepsReading
    <3>3. \/ scanActive' = scanActive
          \/ HasReader => hpc'[c] = "start"
          \/ unread' \/ \E l \in Loops : Reading(l)
      BY <2>1 DEF BeginStart, Refreshed, Activate, AutoActivate
    <3>4. ScanServed'
      BY <3>1, <3>2, <3>3 DEF ScanServed, vars, loopVars
    <3>5. QED
      BY <3>2, <3>4
  <2>2. CASE StartScanner(c) \/ AutoStart(c)
    BY <2>2, StartKeepsReading
  <2>3. CASE BeginStop(c) \/ Stopping(c) \/ Deactivate(c)
    BY <2>3, StopKeepsReading
  <2>4. QED
    BY <1>2, <2>1, <2>2, <2>3 DEF HandlerStep
<1>3. CASE ReaderStep
  <2>1. UNCHANGED <<scanActive, hpc, quiet>>
    BY <1>3 DEF ReaderStep
  <2>2. ASSUME NEW l \in Loops, LoopStep(l), unread' = unread PROVE Goal
    BY <2>1, <2>2, LoopKeepsReading
  <2>3. ASSUME NEW l \in Loops, RequestEnds(l), unread' = (unread \/ Reading(l))
        PROVE  Goal
    <3>1. /\ lpc' = lpc /\ down' = down /\ callerVars' = callerVars
          /\ ctxDone' = [ctxDone EXCEPT ![l] = TRUE]
      BY <2>3 DEF RequestEnds
    <3>2. CancelledKnown'
      <4>1. \A k \in Loops : InStop(k)' <=> InStop(k)
        BY <2>1, <3>1 DEF InStop, callerVars
      <4>2. \A k \in Loops : Active(k)' /\ ctxDone'[k] => unread' \/ (Active(k) /\ ctxDone[k])
        BY <2>3, <3>1 DEF TypeOK, Reading, Active
      <4>3. unread => unread'
        BY <2>3
      <4>4. QED
        BY <3>1, <4>1, <4>2, <4>3 DEF CancelledKnown, callerVars
    <3>3. LeavesCancelled'
      BY <3>1 DEF TypeOK, LeavesCancelled
    <3>4. unread' \/ \A k \in Loops : Reading(k) => Reading(k)'
      BY <2>3, <3>1 DEF TypeOK, Reading, Active
    <3>5. ScanServed'
      BY <2>1, <2>3, <3>1, <3>4 DEF ScanServed
    <3>6. QED
      BY <3>2, <3>3, <3>5
  <2>4. CASE Shutdown
    BY <2>1, <2>4 DEF Shutdown, TypeOK, CancelledKnown, LeavesCancelled, ScanServed,
       Active, callerVars
  <2>5. QED
    BY <1>3, <2>2, <2>3, <2>4 DEF ReaderStep
<1>4. QED
  BY <1>1, <1>2, <1>3 DEF ControlNext

\* No loop has run; a scan that is on from the start is unread.
LEMMA ReadInvInit == ControlInit => ReadInv
<1> SUFFICES ASSUME ControlInit PROVE ReadInv
  OBVIOUS
<1>1. CancelledKnown /\ LeavesCancelled
  BY DEF ControlInit, Init, CancelledKnown, LeavesCancelled, Active
<1>2. ScanServed
  BY DEF ControlInit, ScanServed
<1>3. QED
  BY <1>1, <1>2, ControlInvInit DEF ReadInv

\* Whenever no request is under way an active scan has a loop that reads for it,
\* however many connections, requests and chats sent starts and stops that
\* crossed, except after the three events that unread names.
THEOREM ActiveScansRead == ControlSpec => []ActiveScanReads
<1>1. ReadInv => ActiveScanReads
  BY DEF ReadInv, ScanServed, ActiveScanReads, AtRest
<1>2. QED
  BY <1>1, ReadInvInit, ReadInvStep, PTL DEF ControlSpec
=============================================================================
