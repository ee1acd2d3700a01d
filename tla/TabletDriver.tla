---------------------------- MODULE TabletDriver ----------------------------
(***************************************************************************)
(* The life cycle of src/tablet_touch_driver/touch_tablet_main.c: loading  *)
(* and unloading the module, probe and disconnect of one interface of the  *)
(* tablet, open and close of its input device, the completion handler      *)
(* tablet_irq and the work items work_irq.                                 *)
(*                                                                         *)
(* An urb that completes is handed to a work item, which evaluates the     *)
(* report and submits the urb again.  open, close, disconnect and unload   *)
(* run in other contexts, at any moment.  Of the kernel the model takes:   *)
(* a submission fails for an urb in flight (EBUSY), for an interface that  *)
(* is being unbound, or for want of memory; usb_kill_urb ends a flight and *)
(* returns after the completion handler; destroy_workqueue runs what is    *)
(* queued and takes nothing new.  Work items may all run at a time.        *)
(*                                                                         *)
(* Touching freed memory, a queue that is not there or unloaded code is    *)
(* undefined: the behaviour ends with its cause in fault.                  *)
(*                                                                         *)
(* A definition named Faulty_X is X with a plausible bug; no specification *)
(* uses it, it serves to show that the properties notice the bug.          *)
(***************************************************************************)
EXTENDS FiniteSets, Naturals

\* The containers there can be at a time: the bound on unfinished work items.
CONSTANT Containers

ASSUME TabletAssumption == IsFiniteSet(Containers)

VARIABLES
    module,      \* how far loading and unloading have got
    tablet,      \* the struct tablet of the interface
    urb,         \* "idle" or "flight"
    status,      \* urb->status: "ok", "progress" or "error"
    work,        \* where the work item of each container stands
    open,        \* the input device is open
    failed,      \* since it was opened the kernel has reported an error
    overlap,     \* it was opened while items of an earlier opening were left
    fault        \* what was touched that is not there

vars == <<module, tablet, urb, status, work, open, failed, overlap, fault>>

Registered == module \in {"loading", "loaded", "draining", "unloading"}
Pending    == {w \in Containers : work[w] \in {"queued", "report", "submit"}}
Active     == {w \in Containers : work[w] \in {"report", "submit"}}

Init ==
    /\ module = "out" /\ tablet = "none"
    /\ urb = "idle" /\ status = "ok"
    /\ work = [w \in Containers |-> "none"]
    /\ open = FALSE /\ failed = FALSE /\ overlap = FALSE
    /\ fault = "none"

Crash(what) ==
    /\ fault' = what
    /\ UNCHANGED <<module, tablet, urb, status, work, open, failed, overlap>>

-----------------------------------------------------------------------------
\* usb_submit_urb, which returns 0, EBUSY, or another error.
SubmitAccepted ==
    /\ urb = "idle" /\ tablet = "bound"
    /\ urb' = "flight" /\ status' = "progress"

SubmitBusy == urb = "flight" /\ UNCHANGED <<urb, status>>

\* An error code of usb_submit_urb is kept in the urb.
SubmitRefused == urb = "idle" /\ status' = "progress" /\ UNCHANGED urb

\* tablet_irq for an urb that ends with status s: the item is queued, or there
\* is no memory for it, or the queue that is being destroyed does not take it.
tablet_irq(s) ==
    /\ urb' = "idle" /\ status' = s
    /\ \/ /\ module = "loaded"
          /\ \E w \in Containers :
                work[w] = "none" /\ work' = [work EXCEPT ![w] = "queued"]
          /\ failed' = (failed \/ s = "error")
       \/ module \in {"loaded", "draining"} /\ failed' = TRUE /\ UNCHANGED work
    /\ UNCHANGED fault

\* usb_kill_urb.  It makes a flight end with an error.
usb_kill_urb ==
    \/ urb = "flight" /\ tablet_irq("error")
    \/ urb = "idle" /\ UNCHANGED <<urb, status, work, failed, fault>>

\* The urb ends, in any context, while nobody has made the queue.
QueueMissing == urb = "flight" /\ module \in {"loading", "unloading"}

Complete(s) ==
    /\ urb = "flight"
    /\ tablet_irq(s)
    /\ UNCHANGED <<module, tablet, open, overlap>>

CompleteWithoutQueue == QueueMissing /\ Crash("queue")

-----------------------------------------------------------------------------
\* The urb is submitted before the report is evaluated.
Faulty_work_irq_check(w) ==
    /\ work[w] = "queued"
    /\ IF status = "ok" THEN /\ work' = [work EXCEPT ![w] = "report"]
                             /\ SubmitAccepted \/ SubmitBusy \/ SubmitRefused
                        ELSE /\ work' = [work EXCEPT ![w] = "none"]
                             /\ UNCHANGED <<urb, status>>
    /\ UNCHANGED <<module, tablet, open, failed, overlap, fault>>

\* work_irq up to its first return: an urb whose status is not 0 is left alone.
work_irq_check(w) ==
    /\ work[w] = "queued"
    /\ work' = [work EXCEPT ![w] = IF status = "ok" THEN "report" ELSE "none"]
    /\ UNCHANGED <<module, tablet, urb, status, open, failed, overlap, fault>>

\* A report with nothing to say ends the item before the submission.
Faulty_work_irq_report(w) ==
    /\ work[w] = "report"
    /\ work' = [work EXCEPT ![w] = "none"]
    /\ UNCHANGED <<module, tablet, urb, status, open, failed, overlap, fault>>

\* irq_touch or irq_pen and input_sync; after disconnect has reset input_dev a
\* report that has something to say goes through a null pointer.
work_irq_report(w) ==
    /\ work[w] = "report"
    /\ \/ /\ work' = [work EXCEPT ![w] = "submit"]
          /\ UNCHANGED <<module, tablet, urb, status, open, failed, overlap, fault>>
       \/ tablet = "unregistered" /\ Crash("input_dev")

\* The item frees its container and submits nothing.
Faulty_work_irq_submit(w) ==
    /\ work[w] = "submit"
    /\ work' = [work EXCEPT ![w] = "none"]
    /\ UNCHANGED <<module, tablet, urb, status, open, failed, overlap, fault>>

\* The submission and kfree(container).
work_irq_submit(w) ==
    /\ work[w] = "submit"
    /\ work' = [work EXCEPT ![w] = "none"]
    /\ \/ (SubmitAccepted \/ SubmitBusy) /\ UNCHANGED failed
       \/ SubmitRefused /\ failed' = TRUE
    /\ UNCHANGED <<module, tablet, open, overlap, fault>>

\* An item that has outlived its tablet: it reads freed memory at any point.
work_irq_stale(w) == work[w] = "stale" /\ Crash("tablet")

work_irq(w) ==
    \/ work_irq_check(w)
    \/ work_irq_report(w)
    \/ work_irq_submit(w)
    \/ work_irq_stale(w)

-----------------------------------------------------------------------------
\* The input core calls open for the first user and close for the last one,
\* never both at a time, as long as the input device is registered.
HasInputDevice == tablet \in {"bound", "unbinding", "killed"}

tablet_open ==
    /\ HasInputDevice /\ ~open
    /\ \/ /\ SubmitAccepted
          /\ open' = TRUE /\ failed' = FALSE
          /\ overlap' = (Pending # {})
       \/ SubmitRefused /\ UNCHANGED <<open, failed, overlap>>
    /\ UNCHANGED <<module, tablet, work, fault>>

tablet_close ==
    /\ HasInputDevice /\ open
    /\ open' = FALSE
    /\ usb_kill_urb
    /\ UNCHANGED <<module, tablet, overlap>>

\* close and disconnect kill an urb that has no queue to go to.
KillWithoutQueue ==
    /\ QueueMissing
    /\ (HasInputDevice /\ open) \/ tablet = "unbinding"
    /\ Crash("queue")

-----------------------------------------------------------------------------
\* A probe that fails frees what it has allocated and leaves no trace.
tablet_probe ==
    /\ Registered /\ tablet = "none"
    /\ tablet' = "bound" /\ urb' = "idle" /\ status' = "ok"
    /\ UNCHANGED <<module, work, open, failed, overlap, fault>>

\* The tablet is unplugged, or the driver deregistered: the USB core refuses
\* submissions from here on and then calls tablet_disconnect.
Unbind ==
    /\ Registered /\ tablet = "bound"
    /\ tablet' = "unbinding"
    /\ UNCHANGED <<module, urb, status, work, open, failed, overlap, fault>>

\* disconnect does not kill the urb.
Faulty_tablet_disconnect_kill ==
    /\ tablet = "unbinding"
    /\ tablet' = "killed"
    /\ UNCHANGED <<module, urb, status, work, open, failed, overlap, fault>>

tablet_disconnect_kill ==
    /\ tablet = "unbinding"
    /\ tablet' = "killed"
    /\ usb_kill_urb
    /\ UNCHANGED <<module, open, overlap>>

\* input_unregister_device closes an open device; its urb is idle by now.
tablet_disconnect_unregister ==
    /\ tablet = "killed"
    /\ tablet' = "unregistered" /\ open' = FALSE
    /\ UNCHANGED <<module, urb, status, work, failed, overlap, fault>>

tablet_disconnect_free ==
    /\ tablet = "unregistered"
    /\ tablet' = "none"
    /\ work' = [w \in Containers |-> IF w \in Pending THEN "stale" ELSE work[w]]
    /\ UNCHANGED <<module, urb, status, open, failed, overlap, fault>>

-----------------------------------------------------------------------------
MoveModule(from, to) ==
    /\ module = from /\ module' = to
    /\ UNCHANGED <<tablet, urb, status, work, open, failed, overlap, fault>>

usb_register == MoveModule("out", "loading")

create_workqueue ==
    MoveModule("loading", "loaded") \/ MoveModule("loading", "broken")

\* The kernel has freed a module whose init failed; the driver is still listed.
CallIntoBrokenModule == module = "broken" /\ Crash("module")

\* flush_workqueue waits for items that destroy_workqueue would wait for too.
StartUnload == MoveModule("loaded", "draining")

destroy_workqueue ==
    /\ \A w \in Containers : work[w] = "none"
    /\ MoveModule("draining", "unloading")

\* usb_deregister unbinds the interface (Unbind) before it returns.
usb_deregister == tablet = "none" /\ MoveModule("unloading", "out")

-----------------------------------------------------------------------------
ModuleStep ==
    \/ usb_register \/ create_workqueue
    \/ StartUnload \/ destroy_workqueue \/ usb_deregister

InputStep == tablet_open \/ tablet_close

TabletStep ==
    \/ tablet_probe \/ Unbind
    \/ tablet_disconnect_kill \/ tablet_disconnect_unregister
    \/ tablet_disconnect_free

Next ==
    /\ fault = "none"
    /\ \/ CallIntoBrokenModule
       \/ /\ module # "broken"
          /\ \/ ModuleStep \/ InputStep \/ TabletStep
             \/ \E s \in {"ok", "error"} : Complete(s)
             \/ CompleteWithoutQueue \/ KillWithoutQueue
             \/ \E w \in Containers : work_irq(w)

Spec == Init /\ [][Next]_vars

\* Queued work is carried out, and a tablet that is used goes on sending.
FairSpec ==
    /\ Spec
    /\ \A w \in Containers :
          WF_vars(fault = "none" /\ module # "broken" /\ work_irq(w))
    /\ WF_vars(fault = "none" /\ module # "broken" /\ Complete("ok"))

-----------------------------------------------------------------------------
\* The states of module, tablet, urb, items and input device, and the causes a
\* behaviour may end with.
TypeOK ==
    /\ module \in {"out", "loading", "loaded", "draining", "unloading", "broken"}
    /\ tablet \in {"none", "bound", "unbinding", "killed", "unregistered"}
    /\ urb \in {"idle", "flight"} /\ status \in {"ok", "progress", "error"}
    /\ work \in [Containers -> {"none", "queued", "report", "submit", "stale"}]
    /\ open \in BOOLEAN /\ failed \in BOOLEAN /\ overlap \in BOOLEAN
    /\ fault \in {"none", "queue", "input_dev", "tablet", "module"}

\* While the device is open and the kernel has reported no error, the urb is in
\* flight or an item is about to submit it, however open, close, late items and
\* completions have met: nothing but an error silences an open tablet.
OpenPolls ==
    open /\ ~failed /\ tablet = "bound" =>
        \/ urb = "flight"
        \/ Active # {}
        \/ status = "ok" /\ \E w \in Containers : work[w] = "queued"

\* Unless the device was opened while items of an earlier opening were left, one
\* item at a time evaluates a report, and the device does not write into the
\* buffer meanwhile: the statics of irq_touch have a single user, and a report
\* is read whole and once.
OneReportAtATime ==
    ~overlap =>
        /\ Cardinality(Active) <= 1
        /\ Active # {} => urb = "idle"

\* From the moment disconnect has killed the urb nobody gets it into flight
\* again, not even a late item, so the completion handler and the device's
\* writes never find the tablet freed.
UrbHasTablet == urb = "flight" => tablet \in {"bound", "unbinding"}

\* A tablet that is used, stays open and meets no error has its reports
\* evaluated again and again.
ReportsKeepComing ==
    <>[](open /\ ~failed /\ tablet = "bound" /\ module = "loaded" /\ fault = "none")
        => []<>(\E w \in Containers : work[w] = "submit")
=============================================================================
