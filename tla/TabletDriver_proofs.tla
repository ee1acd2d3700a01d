------------------------- MODULE TabletDriver_proofs -------------------------
(***************************************************************************)
(* Theorems about the life cycle of the tablet driver, for any number of   *)
(* work items: the state keeps its type, nothing but an error silences an  *)
(* open tablet, a killed urb stays killed and one item at a time evaluates *)
(* a report.                                                               *)
(***************************************************************************)
EXTENDS TabletDriver, FiniteSetTheorems, TLAPS

\* The input core has a device to keep open only until disconnect takes it away.
OpenHasDevice == open => HasInputDevice

\* The urb is with the device or with one item, never with two of them: an item
\* hands it on when it ends, and open takes it when there is none.
OneToken ==
    ~overlap =>
        /\ \A v, w \in Pending : v = w
        /\ Pending # {} => urb = "idle"

IInv == TypeOK /\ OpenHasDevice /\ OneToken /\ OpenPolls /\ UrbHasTablet

LEMMA InitHolds == Init => IInv
  BY DEF Init, IInv, TypeOK, OpenHasDevice, OneToken, OpenPolls, UrbHasTablet,
         Pending, Active, HasInputDevice

-----------------------------------------------------------------------------
\* What a completion does when the queue is there.
LEMMA IrqPreserves ==
  ASSUME IInv, NEW s \in {"ok", "error"}, urb = "flight", tablet_irq(s),
         UNCHANGED <<module, overlap>>, open' \in {open, FALSE},
         tablet' = tablet \/ (tablet = "unbinding" /\ tablet' = "killed")
  PROVE  TypeOK' /\ OneToken' /\ OpenPolls' /\ UrbHasTablet'
<1> USE DEF IInv, Pending, Active
<1>1. TypeOK'
  BY DEF tablet_irq, TypeOK
<1>2. OneToken'
  BY DEF tablet_irq, TypeOK, OneToken
<1>3. OpenPolls'
  BY DEF tablet_irq, TypeOK, OpenPolls
<1>4. UrbHasTablet'
  BY DEF tablet_irq, UrbHasTablet
<1> QED
  BY <1>1, <1>2, <1>3, <1>4

\* usb_kill_urb, which close and disconnect call.
LEMMA KillPreserves ==
  ASSUME IInv, usb_kill_urb,
         UNCHANGED <<module, overlap>>, open' \in {open, FALSE},
         \/ tablet' = tablet /\ ~open'
         \/ tablet = "unbinding" /\ tablet' = "killed"
  PROVE  TypeOK' /\ OneToken' /\ OpenPolls' /\ UrbHasTablet' /\ urb' = "idle"
<1>1. CASE urb = "flight" /\ tablet_irq("error")
  BY <1>1, IrqPreserves DEF tablet_irq
<1>2. CASE urb = "idle" /\ UNCHANGED <<urb, status, work, failed, fault>>
  <2>1. TypeOK' /\ UrbHasTablet' /\ urb' = "idle"
    BY <1>2 DEF IInv, TypeOK, UrbHasTablet
  <2>2. OneToken'
    BY <1>2 DEF IInv, OneToken, Pending
  <2>3. OpenPolls'
    BY <1>2 DEF IInv, TypeOK, OpenPolls
  <2> QED
    BY <2>1, <2>2, <2>3
<1> QED
  BY <1>1, <1>2 DEF usb_kill_urb

LEMMA CompletePreserves ==
  ASSUME IInv, NEW s \in {"ok", "error"}, Complete(s)
  PROVE  IInv'
<1>1. TypeOK' /\ OneToken' /\ OpenPolls' /\ UrbHasTablet'
  BY IrqPreserves DEF Complete
<1>2. OpenHasDevice'
  BY DEF Complete, IInv, OpenHasDevice, HasInputDevice
<1> QED
  BY <1>1, <1>2 DEF IInv

\* An undefined step changes nothing but fault.
LEMMA CrashPreserves ==
  ASSUME IInv, NEW what \in {"queue", "input_dev", "tablet", "module"}, Crash(what)
  PROVE  IInv'
  BY DEF Crash, IInv, TypeOK, OpenHasDevice, OneToken, OpenPolls, UrbHasTablet,
         Pending, Active, HasInputDevice

-----------------------------------------------------------------------------
LEMMA WorkPreserves ==
  ASSUME IInv, NEW w \in Containers, work_irq(w)
  PROVE  IInv'
<1> USE DEF IInv, Pending, Active, HasInputDevice
<1>1. CASE work_irq_check(w)
  <2>1. TypeOK' /\ OpenHasDevice' /\ UrbHasTablet'
    BY <1>1 DEF work_irq_check, TypeOK, OpenHasDevice, UrbHasTablet
  <2>2. OneToken'
    BY <1>1 DEF work_irq_check, TypeOK, OneToken
  <2>3. OpenPolls'
    <3>1. CASE status = "ok"
      BY <1>1, <3>1 DEF work_irq_check, TypeOK, OpenPolls
    <3>2. CASE status # "ok"
      BY <1>1, <3>2 DEF work_irq_check, TypeOK, OpenPolls
    <3> QED
      BY <3>1, <3>2
  <2> QED
    BY <2>1, <2>2, <2>3
<1>2. CASE work_irq_report(w)
  <2>1. CASE tablet = "unregistered" /\ Crash("input_dev")
    BY <2>1, CrashPreserves
  <2>2. CASE /\ work[w] = "report" /\ work' = [work EXCEPT ![w] = "submit"]
             /\ UNCHANGED <<module, tablet, urb, status, open, failed, overlap, fault>>
    <3>1. TypeOK' /\ OpenHasDevice' /\ UrbHasTablet' /\ OneToken'
      BY <2>2 DEF TypeOK, OpenHasDevice, UrbHasTablet, OneToken
    <3>2. OpenPolls'
      BY <2>2 DEF TypeOK, OpenPolls
    <3> QED
      BY <3>1, <3>2
  <2> QED
    BY <1>2, <2>1, <2>2 DEF work_irq_report
<1>3. CASE work_irq_submit(w)
  <2> USE DEF work_irq_submit, SubmitAccepted, SubmitBusy, SubmitRefused
  <2>1. TypeOK' /\ OpenHasDevice' /\ UrbHasTablet'
    BY <1>3 DEF TypeOK, OpenHasDevice, UrbHasTablet
  <2>2. OneToken'
    BY <1>3 DEF TypeOK, OneToken
  <2>3. OpenPolls'
    BY <1>3 DEF TypeOK, OpenPolls
  <2> QED
    BY <2>1, <2>2, <2>3
<1>4. CASE work_irq_stale(w)
  BY <1>4, CrashPreserves DEF work_irq_stale
<1> QED
  BY <1>1, <1>2, <1>3, <1>4 DEF work_irq

-----------------------------------------------------------------------------
LEMMA InputPreserves ==
  ASSUME IInv, InputStep
  PROVE  IInv'
<1>1. CASE tablet_open
  <2> USE <1>1 DEF tablet_open, SubmitAccepted, SubmitRefused, IInv, Pending,
                   Active, HasInputDevice
  <2>1. TypeOK' /\ OpenHasDevice' /\ UrbHasTablet'
    BY DEF TypeOK, OpenHasDevice, UrbHasTablet
  <2>2. OneToken'
    <3>1. Pending' = Pending /\ urb = "idle"
      OBVIOUS
    <3> HIDE DEF Pending
    <3>2. CASE overlap' = (Pending # {})
      BY <3>1, <3>2 DEF OneToken
    <3>3. CASE SubmitRefused /\ UNCHANGED overlap
      BY <3>1, <3>3 DEF OneToken
    <3> QED
      BY <3>2, <3>3
  <2>3. OpenPolls'
    BY DEF TypeOK, OpenPolls
  <2> QED
    BY <2>1, <2>2, <2>3
<1>2. CASE tablet_close
  <2>1. TypeOK' /\ OneToken' /\ OpenPolls' /\ UrbHasTablet'
    BY <1>2, KillPreserves DEF tablet_close
  <2>2. OpenHasDevice'
    BY <1>2 DEF tablet_close, OpenHasDevice
  <2> QED
    BY <2>1, <2>2 DEF IInv
<1> QED
  BY <1>1, <1>2 DEF InputStep

LEMMA TabletPreserves ==
  ASSUME IInv, TabletStep
  PROVE  IInv'
<1> USE DEF IInv, TypeOK, OpenHasDevice, OneToken, OpenPolls, UrbHasTablet,
            Pending, Active, HasInputDevice
<1>1. CASE tablet_probe
  <2>1. ~open
    BY <1>1 DEF tablet_probe
  <2> QED
    BY <1>1, <2>1 DEF tablet_probe
<1>2. CASE Unbind
  BY <1>2 DEF Unbind
<1>3. CASE tablet_disconnect_kill
  <2>1. TypeOK' /\ OneToken' /\ OpenPolls' /\ UrbHasTablet'
    <3>1. /\ usb_kill_urb /\ UNCHANGED <<module, overlap>> /\ open' \in {open, FALSE}
          /\ tablet = "unbinding" /\ tablet' = "killed"
      BY <1>3 DEF tablet_disconnect_kill
    <3>2. IInv
      OBVIOUS
    <3> HIDE DEF IInv, TypeOK, OneToken, OpenPolls, UrbHasTablet
    <3> QED
      BY <3>1, <3>2, KillPreserves
  <2>2. OpenHasDevice'
    BY <1>3 DEF tablet_disconnect_kill
  <2> QED
    BY <2>1, <2>2
<1>4. CASE tablet_disconnect_unregister
  BY <1>4 DEF tablet_disconnect_unregister
<1>5. CASE tablet_disconnect_free
  <2>1. Pending' = {}
    BY <1>5 DEF tablet_disconnect_free
  <2>2. work' \in [Containers -> {"none", "queued", "report", "submit", "stale"}]
    BY <1>5 DEF tablet_disconnect_free
  <2> QED
    BY <1>5, <2>1, <2>2 DEF tablet_disconnect_free
<1> QED
  BY <1>1, <1>2, <1>3, <1>4, <1>5 DEF TabletStep

LEMMA ModulePreserves ==
  ASSUME IInv, ModuleStep
  PROVE  IInv'
<1>1. /\ UNCHANGED <<tablet, urb, status, work, open, failed, overlap, fault>>
      /\ module' \in {"out", "loading", "loaded", "draining", "unloading", "broken"}
  BY DEF ModuleStep, MoveModule, usb_register, create_workqueue, StartUnload,
         destroy_workqueue, usb_deregister
<1> QED
  <2>1. TypeOK'
    BY <1>1 DEF IInv, TypeOK
  <2>2. OneToken' /\ OpenPolls'
    BY <1>1 DEF IInv, OneToken, OpenPolls, Pending, Active
  <2>3. OpenHasDevice' /\ UrbHasTablet'
    BY <1>1 DEF IInv, OpenHasDevice, UrbHasTablet, HasInputDevice
  <2> QED
    BY <2>1, <2>2, <2>3 DEF IInv

-----------------------------------------------------------------------------
LEMMA StepPreserves ==
  ASSUME IInv, [Next]_vars
  PROVE  IInv'
<1>1. CASE ModuleStep
  BY <1>1, ModulePreserves
<1>2. CASE InputStep
  BY <1>2, InputPreserves
<1>3. CASE TabletStep
  BY <1>3, TabletPreserves
<1>4. CASE \E s \in {"ok", "error"} : Complete(s)
  BY <1>4, CompletePreserves
<1>5. CASE \E w \in Containers : work_irq(w)
  BY <1>5, WorkPreserves
<1>6. CASE CallIntoBrokenModule \/ CompleteWithoutQueue \/ KillWithoutQueue
  BY <1>6, CrashPreserves
     DEF CallIntoBrokenModule, CompleteWithoutQueue, KillWithoutQueue
<1>7. CASE UNCHANGED vars
  BY <1>7 DEF vars, IInv, TypeOK, OpenHasDevice, OneToken, OpenPolls, UrbHasTablet,
              Pending, Active, HasInputDevice
<1> QED
  BY <1>1, <1>2, <1>3, <1>4, <1>5, <1>6, <1>7 DEF Next

\* The inductive invariant holds in every reachable state.
THEOREM Invariance == Spec => []IInv
  BY InitHolds, StepPreserves, PTL DEF Spec

\* The driver's state keeps its form.
THEOREM TypeCorrect == Spec => []TypeOK
<1>1. IInv => TypeOK
  BY DEF IInv
<1> QED
  BY Invariance, <1>1, PTL

\* Nothing but an error silences an open tablet, for any number of work items.
THEOREM Polls == Spec => []OpenPolls
<1>1. IInv => OpenPolls
  BY DEF IInv
<1> QED
  BY Invariance, <1>1, PTL

\* The urb that disconnect has killed stays out of flight.
THEOREM KilledForGood == Spec => []UrbHasTablet
<1>1. IInv => UrbHasTablet
  BY DEF IInv
<1> QED
  BY Invariance, <1>1, PTL

\* One item evaluates a report, and the device leaves the buffer alone, unless the
\* tablet was opened over the items of an earlier opening.
THEOREM OneReport == Spec => []OneReportAtATime
<1>1. IInv => OneReportAtATime
  <2> SUFFICES ASSUME IInv, ~overlap
               PROVE  Cardinality(Active) <= 1 /\ (Active # {} => urb = "idle")
    BY DEF OneReportAtATime
  <2>1. Active \subseteq Pending
    BY DEF Active, Pending
  <2>2. Active # {} => urb = "idle"
    BY <2>1 DEF IInv, OneToken
  <2>3. Cardinality(Active) <= 1
    <3>1. CASE Active = {}
      BY <3>1, FS_EmptySet
    <3>2. CASE Active # {}
      <4>1. PICK w \in Active : TRUE
        BY <3>2
      <4>2. Active = {w}
        BY <2>1, <4>1 DEF IInv, OneToken
      <4>3. Cardinality({w}) = 1
        BY FS_Singleton
      <4> QED
        BY <4>2, <4>3
    <3> QED
      BY <3>1, <3>2
  <2> QED
    BY <2>2, <2>3
<1> QED
  BY Invariance, <1>1, PTL
=============================================================================
