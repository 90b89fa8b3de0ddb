----------------------------- MODULE AsyncTasks -----------------------------
(***************************************************************************)
(* The asynchronous tasks of kernel/async_task.rs and the mediated block   *)
(* device that uses them.  A guest VM kicks its virtqueue; an IPI task     *)
(* asks the service VM 0 to read the queue; each request found there       *)
(* becomes an I/O task of the fair queue; the executor hands I/O tasks to  *)
(* the service VM one at a time and, when the service VM reports, puts the *)
(* request in the used ring.                                               *)
(*                                                                         *)
(* A context is a VM whose core is in the hypervisor on its behalf: 0 is   *)
(* the service VM.  A step is a region under locks, or the access to a     *)
(* task's own state.  Placement says which regions interleave:             *)
(*   "own"     VM 0 has core 0 to itself and each guest VM another core:   *)
(*             the regions of all contexts interleave;                     *)
(*   "serial"  the same, restricted to the behaviours in which no two cores*)
(*             are in the hypervisor at once;                              *)
(*   "shared"  all VMs run on core 0, a handler runs to its end with       *)
(*             interrupts masked, and an IPI interrupts whichever VM runs. *)
(***************************************************************************)
EXTENDS FairQueue, FiniteSets, SequencesExt

CONSTANTS
    NVms,           \* number of guest VMs
    Kinds,          \* kinds of requests they issue: subset of {"rw", "id", "bad"}
    MaxReqs,        \* bound: requests per VM
    Outstanding,    \* requests a guest has under way at a time
    Limit,          \* IPI tasks beyond which add_async_task waits (1024)
    Placement       \* "own", "serial" or "shared"

VMs      == 1..NVms
Contexts == 0..NVms
Ipi(v, n) == <<"ipi", v, n>>
Io(v, n)  == <<"io", v, n>>
Tasks == {"ipi", "io"} \X VMs \X (1..MaxReqs)

VARIABLES
    avail,      \* avail ring of each VM: the kind of each request
    last,       \* last_avail_idx of each VM's queue
    used,       \* used ring of each VM: the requests completed
    ipiList,    \* ASYNC_IPI_TASK_LIST
    ioList,     \* ASYNC_IO_TASK_LIST
    info,       \* ASYNC_USED_INFO_LIST
    state,      \* state of every task, shared by the clones of the task
    status,     \* ASYNC_EXE_STATUS
    msgs,       \* mediated IPI messages of core 0, a stack
    svc,        \* I/O requests the service VM is working on
    performed,  \* I/O requests it has performed
    pc,         \* where each context is
    ctx         \* the locals of each context

ring  == <<avail, last, used>>
lists == <<ipiList, ioList, info, state>>
vars  == <<avail, last, used, ipiList, ioList, info, state, status, msgs, svc, performed, pc, ctx>>

NoLocals == [need |-> FALSE, task |-> None, done |-> FALSE, vm |-> 0, batch |-> << >>, by |-> "exe"]

Init ==
    /\ avail = [v \in VMs |-> << >>] /\ last = [v \in VMs |-> 0] /\ used = [v \in VMs |-> << >>]
    /\ ipiList = << >> /\ ioList = new /\ info = [v \in VMs |-> << >>]
    /\ state = [t \in Tasks |-> "Pending"]
    /\ status = "Pending" /\ msgs = << >> /\ svc = {} /\ performed = {}
    /\ pc = [c \in Contexts |-> "guest"]
    /\ ctx = [c \in Contexts |-> NoLocals]

-----------------------------------------------------------------------------
Goto(c, l)      == pc' = [pc EXCEPT ![c] = l]
InGuest(c)      == pc[c] \in {"guest", "kick"}
\* Except with cores of their own, the others are in their guests while c is in the
\* hypervisor.
OnCore(c)       == Placement # "own" => \A d \in Contexts \ {c} : InGuest(d)
At(c, l)        == pc[c] = l /\ OnCore(c)
Panic(c)        == Goto(c, "panic") /\ UNCHANGED ctx
Return(c)       == Goto(c, "guest") /\ ctx' = [ctx EXCEPT ![c] = NoLocals]
IsIpi(t)        == t # None /\ t[1] = "ipi"

(* The guest: put a request in the avail ring, then write QueueNotify. *)
Submit(v) ==
    /\ At(v, "guest")
    /\ Len(avail[v]) < MaxReqs
    /\ Len(avail[v]) - Len(used[v]) < Outstanding
    /\ \E k \in Kinds : avail' = [avail EXCEPT ![v] = Append(@, k)]
    /\ Goto(v, "kick")
    /\ UNCHANGED <<last, used, lists, status, msgs, svc, performed, ctx>>

(* add_async_task(task, true), from virtio_mediated_blk_notify_handler *)
AddNeverExecutes(v) ==
    /\ At(v, "kick")
    /\ ipiList' = Append(ipiList, Ipi(v, Len(avail[v])))
    /\ Goto(v, "room")
    /\ UNCHANGED <<ring, ioList, info, state, status, msgs, svc, performed, ctx>>

AddIpiTask(v) ==
    /\ At(v, "kick")
    /\ ipiList' = Append(ipiList, Ipi(v, Len(avail[v])))
    /\ ctx' = [ctx EXCEPT ![v].need = Len(ipiList') = 1 /\ is_empty(ioList) /\ status = "Pending"]
    /\ Goto(v, "room")
    /\ UNCHANGED <<ring, ioList, info, state, status, msgs, svc, performed>>

\* The wait for room, then the executor if this was the first request.
WaitRoom(v) ==
    /\ At(v, "room")
    /\ Len(ipiList) < Limit
    /\ IF ctx[v].need THEN Goto(v, "pick") /\ UNCHANGED ctx ELSE Return(v)
    /\ UNCHANGED <<ring, lists, status, msgs, svc, performed>>

-----------------------------------------------------------------------------
(* async_task_exe *)

\* Only the service VM takes part in the status protocol on entry.
Enter(c) ==
    /\ At(c, "enter")
    /\ IF c # 0 THEN Goto(c, "pick") /\ UNCHANGED <<status, ctx>>
       ELSE IF status = "Pending" THEN Goto(c, "pick") /\ status' = "Scheduling" /\ UNCHANGED ctx
       ELSE Return(c) /\ UNCHANGED status
    /\ UNCHANGED <<ring, lists, msgs, svc, performed>>

\* Under both locks: the front I/O task, else the front IPI task, else done.
Pick(c) ==
    /\ At(c, "pick")
    /\ LET t == IF ~is_empty(ioList) THEN front(ioList)
                ELSE IF ipiList # << >> THEN Head(ipiList) ELSE None
       IN  IF is_empty(ioList) /\ ipiList = << >> THEN Return(c) /\ status' = "Pending"
           ELSE IF t = None THEN Panic(c) /\ UNCHANGED status
           ELSE Goto(c, "handle") /\ ctx' = [ctx EXCEPT ![c].task = t] /\ UNCHANGED status
    /\ UNCHANGED <<ring, lists, msgs, svc, performed>>

\* AsyncTask::handle, up to the poll.
Handle(c) ==
    LET t == ctx[c].task IN
    /\ At(c, "handle")
    /\ \/ /\ state[t] = "Pending"
          /\ state' = [state EXCEPT ![t] = "Running"]
          /\ Goto(c, "poll")
          /\ UNCHANGED ctx
       \/ /\ state[t] # "Pending"
          /\ ctx' = [ctx EXCEPT ![c].done = state[t] = "Finish"]
          /\ Goto(c, "after")
          /\ UNCHANGED state
    /\ UNCHANGED <<ring, ipiList, ioList, info, status, msgs, svc, performed>>

\* async_ipi_req: takes whatever task is at the front by now.
PollIpi(c) ==
    /\ At(c, "poll") /\ IsIpi(ctx[c].task)
    /\ IF ipiList = << >> THEN Panic(c) /\ UNCHANGED msgs
       ELSE IF c = 0
            THEN /\ ctx' = [ctx EXCEPT ![c].vm = Head(ipiList)[2]]
                 /\ Goto(c, "scan")
                 /\ UNCHANGED msgs
            ELSE /\ msgs' = Append(msgs, Head(ipiList)[2])
                 /\ Goto(c, "after")
                 /\ UNCHANGED ctx
    /\ UNCHANGED <<ring, lists, status, svc, performed>>

\* async_blk_io_req and mediated_blk_read or mediated_blk_write.
PollIo(c) ==
    /\ At(c, "poll") /\ ~IsIpi(ctx[c].task)
    /\ IF front(ioList) = None THEN Panic(c) /\ UNCHANGED svc
       ELSE /\ LET t == front(ioList) IN
               svc' = IF avail[t[2]][t[3]] = "rw" THEN svc \cup {t} ELSE svc
            /\ Goto(c, "after")
            /\ UNCHANGED ctx
    /\ UNCHANGED <<ring, lists, status, msgs, performed>>

\* Finish the task, or wait for the service VM's report.
After(c) ==
    /\ At(c, "after")
    /\ IF ctx[c].done \/ (IsIpi(ctx[c].task) /\ c = 0)
       THEN Goto(c, "finish") /\ UNCHANGED <<ctx, status>>
       ELSE Return(c) /\ status' = "Pending"
    /\ UNCHANGED <<ring, lists, msgs, svc, performed>>

-----------------------------------------------------------------------------
(* finish_async_task *)

\* Where its caller goes on: the executor's loop, or the rest of the IPI handler.
Continue(c) ==
    IF ctx[c].by = "handler"
    THEN Goto(c, "enter") /\ ctx' = [ctx EXCEPT ![c] = NoLocals]
    ELSE IF c = 0
         THEN Goto(c, "pick") /\ ctx' = [ctx EXCEPT ![c] = NoLocals]
         ELSE Return(c)

FinishIpi(c) ==
    /\ At(c, "finish") /\ (ctx[c].by = "handler" \/ IsIpi(ctx[c].task))
    /\ IF ipiList = << >> THEN Panic(c) /\ UNCHANGED ipiList
       ELSE ipiList' = Tail(ipiList) /\ Continue(c)
    /\ UNCHANGED <<ring, ioList, info, state, status, msgs, svc, performed>>

FinishIo(c) ==
    /\ At(c, "finish") /\ ctx[c].by = "exe" /\ ~IsIpi(ctx[c].task)
    /\ ioList' = pop_front(ioList)
    /\ IF front(ioList) = None THEN Panic(c)
       ELSE ctx' = [ctx EXCEPT ![c].task = front(ioList)] /\ Goto(c, "publish")
    /\ UNCHANGED <<ring, ipiList, info, state, status, msgs, svc, performed>>

\* update_used_info; the interrupt that follows is not modelled.
Publish(c) ==
    LET v == ctx[c].task[2] IN
    /\ At(c, "publish")
    /\ IF info[v] = << >> THEN Panic(c) /\ UNCHANGED <<info, used>>
       ELSE /\ info' = [info EXCEPT ![v] = Tail(@)]
            /\ used' = [used EXCEPT ![v] = Append(@, Head(info[v]))]
            /\ Continue(c)
    /\ UNCHANGED <<avail, last, ipiList, ioList, state, status, msgs, svc, performed>>

-----------------------------------------------------------------------------
(* virtio_blk_notify_handler: read the avail ring, then one task per request. *)

Scan(c) ==
    LET v == ctx[c].vm IN
    /\ At(c, "scan")
    /\ ctx' = [ctx EXCEPT ![c].batch = [i \in 1..(Len(avail[v]) - last[v]) |-> last[v] + i]]
    /\ last' = [last EXCEPT ![v] = Len(avail[v])]
    /\ Goto(c, "request")
    /\ UNCHANGED <<avail, used, lists, status, msgs, svc, performed>>

\* generate_blk_req: a request outside the VM's region is dropped with a warning.
SkipBad(c) ==
    LET v == ctx[c].vm IN
    /\ At(c, "request") /\ ctx[c].batch # << >>
    /\ avail[v][Head(ctx[c].batch)] = "bad"
    /\ ctx' = [ctx EXCEPT ![c].batch = Tail(@)]
    /\ UNCHANGED <<ring, lists, status, msgs, svc, performed, pc>>

\* add_async_task(task, false): never runs the executor, the I/O list is not empty.
AddIoTask(c) ==
    LET v == ctx[c].vm
        n == Head(ctx[c].batch)
    IN  /\ At(c, "request") /\ ctx[c].batch # << >>
        /\ avail[v][n] # "bad"
        /\ ioList' = push_back(ioList, v, Io(v, n))
        /\ state' = [state EXCEPT ![Io(v, n)] = IF avail[v][n] = "id" THEN "Finish" ELSE "Pending"]
        /\ Goto(c, "info")
        /\ UNCHANGED <<ring, ipiList, info, status, msgs, svc, performed, ctx>>

PushNoInfo(c) ==
    /\ At(c, "info")
    /\ ctx' = [ctx EXCEPT ![c].batch = Tail(@)]
    /\ Goto(c, "request")
    /\ UNCHANGED <<ring, lists, status, msgs, svc, performed>>

\* push_used_info
PushInfo(c) ==
    LET v == ctx[c].vm IN
    /\ At(c, "info")
    /\ info' = [info EXCEPT ![v] = Append(@, Head(ctx[c].batch))]
    /\ ctx' = [ctx EXCEPT ![c].batch = Tail(@)]
    /\ Goto(c, "request")
    /\ UNCHANGED <<ring, ipiList, ioList, state, status, msgs, svc, performed>>

ScanDone(c) ==
    /\ At(c, "request") /\ ctx[c].batch = << >>
    /\ Goto(c, IF ctx[c].by = "handler" THEN "finish" ELSE "after")
    /\ UNCHANGED <<ring, lists, status, msgs, svc, performed, ctx>>

-----------------------------------------------------------------------------
(* Events of core 0. *)

\* mediated_ipi_handler, for the message pushed last.
TakeIpi(c) ==
    /\ c = 0 \/ Placement = "shared"
    /\ At(c, "guest")
    /\ msgs # << >>
    /\ msgs' = Front(msgs)
    /\ ctx' = [ctx EXCEPT ![c] = [NoLocals EXCEPT !.vm = Last(msgs), !.by = "handler"]]
    /\ Goto(c, "scan")
    /\ UNCHANGED <<ring, lists, status, svc, performed>>

\* The service VM has performed a request: mediated_blk_notify_handler marks the
\* task at the front of the I/O list.
CompleteAny(t) ==
    /\ At(0, "guest")
    /\ t \in svc
    /\ svc' = svc \ {t} /\ performed' = performed \cup {t}
    /\ state' = [u \in Tasks |-> IF u[1] = "io" /\ u \in ToSet(ioList.map[u[2]]) THEN "Finish" ELSE state[u]]
    /\ Goto(0, "enter")
    /\ UNCHANGED <<ring, ipiList, ioList, info, status, msgs, ctx>>

Complete(t) ==
    /\ At(0, "guest")
    /\ t \in svc
    /\ svc' = svc \ {t} /\ performed' = performed \cup {t}
    /\ IF front(ioList) = None THEN Panic(0) /\ UNCHANGED state
       ELSE /\ state' = [state EXCEPT ![front(ioList)] = "Finish"]
            /\ Goto(0, "enter")
            /\ UNCHANGED ctx
    /\ UNCHANGED <<ring, ipiList, ioList, info, status, msgs>>

-----------------------------------------------------------------------------
Step(c) ==
    \/ Enter(c) \/ Pick(c) \/ Handle(c) \/ PollIpi(c) \/ PollIo(c) \/ After(c)
    \/ FinishIpi(c) \/ FinishIo(c) \/ Publish(c)
    \/ Scan(c) \/ SkipBad(c) \/ AddIoTask(c) \/ PushInfo(c) \/ ScanDone(c)

Next ==
    \/ \E c \in Contexts : Step(c) \/ TakeIpi(c)
    \/ \E v \in VMs : Submit(v) \/ AddIpiTask(v) \/ WaitRoom(v)
    \/ \E t \in Tasks : Complete(t)

\* A core in the hypervisor runs on; a guest that has put a request in its ring
\* kicks; an IPI is taken; the service VM answers.
Fairness ==
    /\ WF_vars(Step(0)) /\ \A v \in VMs : WF_vars(Step(v) \/ AddIpiTask(v) \/ WaitRoom(v))
    /\ WF_vars(\E c \in Contexts : TakeIpi(c))
    /\ WF_vars(\E t \in Tasks : Complete(t))

Spec == Init /\ [][Next]_vars /\ Fairness

-----------------------------------------------------------------------------
(* Properties. *)

\* Shape of the state.
TypeOK ==
    /\ \A v \in VMs : avail[v] \in Seq(Kinds) /\ last[v] \in 0..MaxReqs
    /\ ipiList \in Seq(Tasks) /\ svc \subseteq Tasks /\ performed \subseteq Tasks
    /\ status \in {"Pending", "Scheduling"}
    /\ \A c \in Contexts : ctx[c].task \in Tasks \cup {None}

\* No assertion of the code fails: async_ipi_req and async_blk_io_req find their
\* lists non-empty, finish_async_task finds a task ("there is no IPI task"),
\* set_front_io_task_state finds a front task, update_used_info finds a record.
NoPanic == \A c \in Contexts : pc[c] # "panic"

\* A read or write that a guest finds in its used ring was performed by the service
\* VM, whatever tasks of other VMs went through the queue in between.
NoFalseCompletion ==
    \A v \in VMs : \A i \in DOMAIN used[v] :
        avail[v][used[v][i]] = "rw" => Io(v, used[v][i]) \in performed

\* Requests complete in the order the guest issued them, none twice.
InOrder == \A v \in VMs : \A i, j \in DOMAIN used[v] : i < j => used[v][i] < used[v][j]

\* Whenever no context is in the hypervisor, the used-info list of a VM and its I/O
\* tasks name the same requests in the same order.
InfoMatchesTasks ==
    (\A c \in Contexts : InGuest(c)) =>
        \A v \in VMs : info[v] = [i \in DOMAIN ioList.map[v] |-> ioList.map[v][i][3]]

\* At most one I/O request is with the service VM, and it is the front task: the
\* report of the service VM, which names no task, is credited to the right one.
OneAtATime == svc \subseteq {front(ioList)}

\* Every request inside the VM's region is eventually in the used ring.
RequestServed ==
    \A v \in VMs, n \in 1..MaxReqs :
        (n <= Len(avail[v]) /\ avail[v][n] # "bad") ~> (n \in ToSet(used[v]))
=============================================================================
