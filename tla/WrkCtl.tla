------------------------------- MODULE WrkCtl -------------------------------
(***************************************************************************)
(* Worker control (src/src/resource/wrk-ctl.c): the parent-side worker     *)
(* proxies, the forked worker processes, the two channels wired between    *)
(* each pair, the exec timeout, the child-exit reaping and the signals     *)
(* that drive a worker out of its event loop.                              *)
(*                                                                         *)
(* Each worker w has one "req" channel (SID_WRK_WIRE_PIPE_TO_WRK, proxy    *)
(* writes, worker reads) and one "resp" channel (SID_WRK_WIRE_PIPE_TO_PRX, *)
(* worker writes, proxy reads); pipe() gives blocking descriptors, so a    *)
(* write into a full pipe blocks the whole writing process.  A frame is    *)
(* written and read whole; Cap is the pipe capacity counted in frames.     *)
(***************************************************************************)
EXTENDS Naturals, Sequences, SequencesExt

CONSTANTS
    Workers,         \* worker ids handed to sid_wrk_ctl_get_new_worker
    WorkerType,      \* worker_control->worker_type
    Payloads,        \* data carried by DATA frames
    TimeoutSpecs,    \* sid_wrk_timeout_spec values callers may pass in params
    DefaultTimeout,  \* worker_control->timeout_spec
    Cap,             \* pipe capacity, in frames
    MaxPrxFrames,    \* bound: sends and closes issued per proxy
    MaxWrkFrames     \* bound: sends and yields issued per worker

ASSUME /\ WorkerType \in {"internal", "external"}
       /\ Cap \in Nat \ {0}
       /\ DefaultTimeout \in TimeoutSpecs

States == {"NONE", "NEW", "IDLE", "ASSIGNED", "EXITING", "TIMED_OUT", "EXITED"}
Procs  == {"none", "forked", "running", "exited", "reaped"}
Signals == {"SIGTERM", "SIGKILL", "SIGUSR1"}
NoData == "nodata"
NoFrame == [cmd |-> "NOOP", data |-> NoData]
NoBlock == [w |-> "none", data |-> NoData]
Frame(c, d) == [cmd |-> c, data |-> d]

VARIABLES
    parent,       \* the daemon process: "alive" or "dead"
    prxBlk,       \* the daemon blocked inside write() on a req pipe, or NoBlock
    state,        \* worker_proxy->state; "NONE" before a proxy exists
    signum,       \* worker_proxy->timeout_spec.signum
    timer,        \* worker_proxy->exec_timeout_es armed and not yet fired
    proc,         \* the worker process
    masked,       \* the worker process has all signals blocked
    sigs,         \* signals pending for the worker process
    parentExited, \* worker->parent_exited
    req,          \* frames in the req pipe
    resp,         \* frames in the resp pipe
    reqOpen,      \* proxy-side fd of req still open (not sid_wrk_ctl_chan_close'd)
    respOpen,     \* worker-side fd of resp still open
    prxRx,        \* proxy io event source on resp still registered
    wrkRx,        \* worker io event source on req still registered
    wrkBlk,       \* the worker blocked inside write() on resp, or NoFrame
    rxBuf,        \* plain-mode rx buffer of an external worker's proxy
    prxFrames,    \* count of proxy sends/closes (bound)
    wrkFrames,    \* count of worker sends/yields (bound)
    wrkSent,      \* history: payloads the worker wrote into resp
    prxGot,       \* history: payloads handed to proxy_rx.cb.fn
    lateYield     \* history: the worker called sid_wrk_ctl_yield_worker after the daemon died

vars == <<parent, prxBlk, state, signum, timer, proc, masked, sigs, parentExited,
          req, resp, reqOpen, respOpen, prxRx, wrkRx, wrkBlk, rxBuf,
          prxFrames, wrkFrames, wrkSent, prxGot, lateYield>>

TypeOK ==
    /\ parent \in {"alive", "dead"}
    /\ prxBlk \in {NoBlock} \cup [w : Workers, data : Payloads]
    /\ state \in [Workers -> States]
    /\ signum \in [Workers -> Signals \cup {"none"}]
    /\ timer \in [Workers -> BOOLEAN]
    /\ proc \in [Workers -> Procs]
    /\ masked \in [Workers -> BOOLEAN]
    /\ sigs \in [Workers -> SUBSET Signals]
    /\ parentExited \in [Workers -> BOOLEAN]
    /\ req \in [Workers -> BoundedSeq(Payloads, Cap)]
    /\ resp \in [Workers -> BoundedSeq({Frame("DATA", d) : d \in Payloads}
                                       \cup {Frame("YIELD", NoData)}, Cap)]
    /\ reqOpen \in [Workers -> BOOLEAN]
    /\ respOpen \in [Workers -> BOOLEAN]
    /\ prxRx \in [Workers -> BOOLEAN]
    /\ wrkRx \in [Workers -> BOOLEAN]
    /\ wrkBlk \in [Workers -> {NoFrame} \cup {Frame("DATA", d) : d \in Payloads}
                                         \cup {Frame("YIELD", NoData)}]
    /\ rxBuf \in [Workers -> Seq(Payloads)]
    /\ prxFrames \in [Workers -> 0..MaxPrxFrames]
    /\ wrkFrames \in [Workers -> 0..MaxWrkFrames]
    /\ wrkSent \in [Workers -> Seq(Payloads)]
    /\ prxGot \in [Workers -> Seq(Payloads)]
    /\ lateYield \in [Workers -> BOOLEAN]

-----------------------------------------------------------------------------
(* Helpers                                                                 *)

ProxyAlive(w) == state[w] \notin {"NONE", "EXITED"}
ProcLive(w) == proc[w] \in {"forked", "running"}
\* The daemon's event loop is free to dispatch (not stuck inside a write).
ParentFree == parent = "alive" /\ prxBlk = NoBlock
\* Someone still holds the read end of resp: the proxy of a living daemon.
RespReaderOpen(w) == parent = "alive" /\ ProxyAlive(w)
\* Someone still holds the write end of req.
ReqWriterOpen(w) == parent = "alive" /\ ProxyAlive(w) /\ reqOpen[w]
\* PR_SET_PDEATHSIG chosen in the child (wrk-ctl.c 832-844).
PDeathSig == IF WorkerType = "internal" THEN "SIGUSR1" ELSE "SIGTERM"
Kill(w, s) == sigs' = [sigs EXCEPT ![w] = @ \cup {s}]

-----------------------------------------------------------------------------
Init ==
    /\ parent = "alive"
    /\ prxBlk = NoBlock
    /\ state = [w \in Workers |-> "NONE"]
    /\ signum = [w \in Workers |-> "none"]
    /\ timer = [w \in Workers |-> FALSE]
    /\ proc = [w \in Workers |-> "none"]
    /\ masked = [w \in Workers |-> FALSE]
    /\ sigs = [w \in Workers |-> {}]
    /\ parentExited = [w \in Workers |-> FALSE]
    /\ req = [w \in Workers |-> <<>>]
    /\ resp = [w \in Workers |-> <<>>]
    /\ reqOpen = [w \in Workers |-> FALSE]
    /\ respOpen = [w \in Workers |-> FALSE]
    /\ prxRx = [w \in Workers |-> FALSE]
    /\ wrkRx = [w \in Workers |-> FALSE]
    /\ wrkBlk = [w \in Workers |-> NoFrame]
    /\ rxBuf = [w \in Workers |-> <<>>]
    /\ prxFrames = [w \in Workers |-> 0]
    /\ wrkFrames = [w \in Workers |-> 0]
    /\ wrkSent = [w \in Workers |-> <<>>]
    /\ prxGot = [w \in Workers |-> <<>>]
    /\ lateYield = [w \in Workers |-> FALSE]

-----------------------------------------------------------------------------
(* Daemon side: worker control and worker proxies                         *)

\* _init_worker_proxy: state NEW, the timeout spec kept, the child-exit
\* source, the channel sources and, for a non-zero usec, the exec timer.
InitWorkerProxy(w, t) ==
    /\ state' = [state EXCEPT ![w] = "NEW"]
    /\ signum' = [signum EXCEPT ![w] = t.signum]
    /\ timer' = [timer EXCEPT ![w] = t.usec # 0]
    /\ reqOpen' = [reqOpen EXCEPT ![w] = TRUE]
    /\ prxRx' = [prxRx EXCEPT ![w] = TRUE]

\* _do_worker_control_get_new_worker: _create_channels, fork with every
\* signal blocked, then in the parent sid_res_create of the proxy.  The
\* params' timeout overrides the default only when its usec is non-zero.  When
\* the proxy cannot be created the parent only destroys its channel ends and
\* the child is left running (FIXME at line 940).
GetNewWorker(w) ==
    /\ ParentFree
    /\ proc[w] = "none"
    /\ \E p \in TimeoutSpecs :
         LET t == IF p.usec # 0 THEN p ELSE DefaultTimeout IN
         \/ InitWorkerProxy(w, t)
         \/ UNCHANGED <<state, signum, timer, reqOpen, prxRx>>
    /\ proc' = [proc EXCEPT ![w] = "forked"]
    /\ masked' = [masked EXCEPT ![w] = TRUE]
    /\ respOpen' = [respOpen EXCEPT ![w] = TRUE]
    /\ UNCHANGED <<parent, prxBlk, sigs, parentExited, req, resp, wrkRx, wrkBlk,
                   rxBuf, prxFrames, wrkFrames, wrkSent, prxGot, lateYield>>

\* _channel_prepare_send on a proxy: any state other than ASSIGNED becomes
\* ASSIGNED (the idle-timeout source is never armed, see the YIELD handler).
ChannelPrepareSend(w) ==
    state' = [state EXCEPT ![w] = "ASSIGNED"]

\* The daemon ends: every worker past its prctl(PR_SET_PDEATHSIG) gets the
\* parent-death signal; the pipe ends the daemon held are closed.
DaemonEnds ==
    /\ parent' = "dead"
    /\ sigs' = [w \in Workers |->
                  IF proc[w] = "running" THEN sigs[w] \cup {PDeathSig} ELSE sigs[w]]

\* _chan_buf_send of payload d by the proxy on req: sid_buf_write_all fails
\* on a closed fd or a gone reader (EPIPE) and blocks on a full pipe.  The
\* daemon's SIGPIPE disposition is left to sid_res_type_sid, not under src; the
\* write is taken to fail with EPIPE, not to end the daemon.
PrxWrite(w, d) ==
    IF ~reqOpen[w] \/ ~ProcLive(w)
      THEN UNCHANGED <<req, prxBlk, parent, sigs>>
    ELSE IF Len(req[w]) < Cap
      THEN /\ req' = [req EXCEPT ![w] = Append(@, d)]
           /\ UNCHANGED <<prxBlk, parent, sigs>>
    ELSE /\ prxBlk' = [w |-> w, data |-> d]
         /\ UNCHANGED <<req, parent, sigs>>

\* sid_wrk_ctl_chan_send from the proxy.
ChanSend(w, d) ==
    /\ ParentFree
    /\ ProxyAlive(w)
    /\ prxFrames[w] < MaxPrxFrames
    /\ prxFrames' = [prxFrames EXCEPT ![w] = @ + 1]
    /\ ChannelPrepareSend(w)
    /\ PrxWrite(w, d)
    /\ UNCHANGED <<signum, timer, proc, masked, parentExited, resp,
                   reqOpen, respOpen, prxRx, wrkRx, wrkBlk, rxBuf, wrkFrames,
                   wrkSent, prxGot, lateYield>>

\* A blocked write that returns only once there is room, never with EPIPE.
ProxyWriteDoneNoEpipe ==
    /\ parent = "alive"
    /\ prxBlk # NoBlock
    /\ ProcLive(prxBlk.w)
    /\ Len(req[prxBlk.w]) < Cap
    /\ req' = [req EXCEPT ![prxBlk.w] = Append(@, prxBlk.data)]
    /\ prxBlk' = NoBlock
    /\ UNCHANGED <<parent, state, signum, timer, proc, masked, sigs, parentExited,
                   resp, reqOpen, respOpen, prxRx, wrkRx, wrkBlk, rxBuf,
                   prxFrames, wrkFrames, wrkSent, prxGot, lateYield>>

\* The daemon's write() on a full req pipe returns: the worker read a frame,
\* or the worker's read end is gone (EPIPE).
ProxyWriteDone ==
    /\ parent = "alive"
    /\ prxBlk # NoBlock
    /\ LET w == prxBlk.w IN
         \/ /\ ~ProcLive(w)
            /\ UNCHANGED <<req, parent, sigs>>
         \/ /\ ProcLive(w)
            /\ Len(req[w]) < Cap
            /\ req' = [req EXCEPT ![w] = Append(@, prxBlk.data)]
            /\ UNCHANGED <<parent, sigs>>
    /\ prxBlk' = NoBlock
    /\ UNCHANGED <<state, signum, timer, proc, masked, parentExited,
                   resp, reqOpen, respOpen, prxRx, wrkRx, wrkBlk, rxBuf,
                   prxFrames, wrkFrames, wrkSent, prxGot, lateYield>>

\* sid_wrk_ctl_chan_close from the proxy: _channel_prepare_send (state to
\* ASSIGNED), then close the proxy's req fd.
ChanClose(w) ==
    /\ ParentFree
    /\ ProxyAlive(w)
    /\ prxFrames[w] < MaxPrxFrames
    /\ prxFrames' = [prxFrames EXCEPT ![w] = @ + 1]
    /\ ChannelPrepareSend(w)
    /\ reqOpen' = [reqOpen EXCEPT ![w] = FALSE]
    /\ UNCHANGED <<parent, prxBlk, signum, timer, proc, masked, sigs, parentExited,
                   req, resp, respOpen, prxRx, wrkRx, wrkBlk, rxBuf, wrkFrames,
                   wrkSent, prxGot, lateYield>>

\* A _make_worker_exit that changes the state without the kill().
MakeWorkerExitNoKill(w) ==
    /\ state' = [state EXCEPT ![w] = "EXITING"]
    /\ UNCHANGED sigs

\* _make_worker_exit: kill(pid, SIGTERM), then state EXITING.
MakeWorkerExit(w) ==
    /\ state' = [state EXCEPT ![w] = "EXITING"]
    /\ Kill(w, "SIGTERM")

\* _chan_buf_recv on a pipe read end holding q: with a size-prefix buffer
\* a whole frame is a message ("msg"); a plain buffer keeps what it read
\* ("more") until EOF, which returns it as one message ("eof_msg"); EOF is
\* a drained pipe with no writer left ("eof"); otherwise EAGAIN ("none").
\* The ancillary-data loop of the socket wire is not taken on pipes.
ChanBufRecv(q, writerGone, plain) ==
    IF q # <<>> THEN IF plain THEN "more" ELSE "msg"
    ELSE IF writerGone THEN IF plain THEN "eof_msg" ELSE "eof"
    ELSE "none"

\* A channel handler that, at EOF, delivers the buffer but keeps the event
\* source: the EOF stays ready at priority 0 for ever.
ProxyChannelEventEofKeepsSource(w) ==
    /\ ParentFree
    /\ ProxyAlive(w)
    /\ prxRx[w]
    /\ LET r == ChanBufRecv(resp[w], ~respOpen[w] \/ ~ProcLive(w), WorkerType = "external") IN
       \/ /\ r = "more"
          /\ resp' = [resp EXCEPT ![w] = Tail(@)]
          /\ rxBuf' = [rxBuf EXCEPT ![w] = Append(@, Head(resp[w]).data)]
          /\ UNCHANGED <<state, sigs, prxGot, prxRx>>
       \/ /\ r = "msg"
          /\ resp' = [resp EXCEPT ![w] = Tail(@)]
          /\ IF Head(resp[w]).cmd = "YIELD"
               THEN /\ MakeWorkerExit(w)
                    /\ UNCHANGED prxGot
               ELSE /\ prxGot' = [prxGot EXCEPT ![w] = Append(@, Head(resp[w]).data)]
                    /\ UNCHANGED <<state, sigs>>
          /\ UNCHANGED <<rxBuf, prxRx>>
       \/ /\ r \in {"eof", "eof_msg"}
          /\ prxGot' = [prxGot EXCEPT ![w] = @ \o rxBuf[w]]
          /\ rxBuf' = [rxBuf EXCEPT ![w] = <<>>]
          /\ UNCHANGED <<resp, state, sigs, prxRx>>
    /\ UNCHANGED <<parent, prxBlk, signum, timer, proc, masked, parentExited, req,
                   reqOpen, respOpen, wrkRx, wrkBlk, prxFrames, wrkFrames, wrkSent, lateYield>>

\* _on_worker_proxy_channel_event with _chan_buf_recv on resp.  Internal
\* workers frame every message (size prefix + command): YIELD makes the worker
\* exit (_make_worker_exit: kill SIGTERM, then EXITING), DATA goes to
\* proxy_rx.cb.fn.  External workers use a plain buffer that is delivered as
\* one DATA message at EOF.  EOF destroys the event source.
ProxyChannelEvent(w) ==
    /\ ParentFree
    /\ ProxyAlive(w)
    /\ prxRx[w]
    /\ LET r == ChanBufRecv(resp[w], ~respOpen[w] \/ ~ProcLive(w), WorkerType = "external") IN
       \/ /\ r = "more"
          /\ resp' = [resp EXCEPT ![w] = Tail(@)]
          /\ rxBuf' = [rxBuf EXCEPT ![w] = Append(@, Head(resp[w]).data)]
          /\ UNCHANGED <<state, sigs, prxGot, prxRx>>
       \/ /\ r = "msg"
          /\ resp' = [resp EXCEPT ![w] = Tail(@)]
          /\ IF Head(resp[w]).cmd = "YIELD"
               THEN /\ MakeWorkerExit(w)
                    /\ UNCHANGED prxGot
               ELSE /\ prxGot' = [prxGot EXCEPT ![w] = Append(@, Head(resp[w]).data)]
                    /\ UNCHANGED <<state, sigs>>
          /\ UNCHANGED <<rxBuf, prxRx>>
       \/ /\ r \in {"eof", "eof_msg"}
          /\ prxRx' = [prxRx EXCEPT ![w] = FALSE]
          /\ prxGot' = [prxGot EXCEPT ![w] = @ \o rxBuf[w]]
          /\ rxBuf' = [rxBuf EXCEPT ![w] = <<>>]
          /\ UNCHANGED <<resp, state, sigs>>
    /\ UNCHANGED <<parent, prxBlk, signum, timer, proc, masked, parentExited, req,
                   reqOpen, respOpen, wrkRx, wrkBlk, prxFrames, wrkFrames, wrkSent, lateYield>>

\* A child-exit source registered at the channels' priority 0: it may run
\* while channel data is still pending.
ProxyChildEventSamePrio(w) ==
    /\ ParentFree
    /\ ProxyAlive(w)
    /\ proc[w] = "exited"
    /\ state' = [state EXCEPT ![w] = "EXITED"]
    /\ proc' = [proc EXCEPT ![w] = "reaped"]
    /\ timer' = [timer EXCEPT ![w] = FALSE]
    /\ UNCHANGED <<parent, prxBlk, signum, masked, sigs, parentExited, req, resp,
                   reqOpen, respOpen, prxRx, wrkRx, wrkBlk, rxBuf, prxFrames,
                   wrkFrames, wrkSent, prxGot, lateYield>>

\* _on_worker_proxy_child_event: the worker is reaped, the proxy becomes EXITED
\* and is unreferenced, which destroys it with its timer and channels.  The
\* source has priority 1, below the channel sources (priority 0), so it runs
\* only once no channel event of this proxy is pending.
ProxyChildEvent(w) ==
    /\ ParentFree
    /\ ProxyAlive(w)
    /\ proc[w] = "exited"
    /\ ~prxRx[w]
    /\ state' = [state EXCEPT ![w] = "EXITED"]
    /\ proc' = [proc EXCEPT ![w] = "reaped"]
    /\ timer' = [timer EXCEPT ![w] = FALSE]
    /\ UNCHANGED <<parent, prxBlk, signum, masked, sigs, parentExited, req, resp,
                   reqOpen, respOpen, prxRx, wrkRx, wrkBlk, rxBuf, prxFrames,
                   wrkFrames, wrkSent, prxGot, lateYield>>

\* A timeout handler that marks TIMED_OUT but never sends the signal.
ProxyTimeoutEventNoSignal(w) ==
    /\ ParentFree
    /\ timer[w]
    /\ state' = [state EXCEPT ![w] = "TIMED_OUT"]
    /\ timer' = [timer EXCEPT ![w] = FALSE]
    /\ UNCHANGED <<parent, prxBlk, signum, proc, masked, sigs, parentExited, req,
                   resp, reqOpen, respOpen, prxRx, wrkRx, wrkBlk, rxBuf, prxFrames,
                   wrkFrames, wrkSent, prxGot, lateYield>>

\* _on_worker_proxy_timeout_event: the one-shot exec timer, while it is
\* registered (it goes with the proxy), fires, the state
\* becomes TIMED_OUT and timeout_spec.signum, when non-zero, is sent.
ProxyTimeoutEvent(w) ==
    /\ ParentFree
    /\ timer[w]
    /\ state' = [state EXCEPT ![w] = "TIMED_OUT"]
    /\ timer' = [timer EXCEPT ![w] = FALSE]
    /\ IF signum[w] # "none" THEN Kill(w, signum[w]) ELSE UNCHANGED sigs
    /\ UNCHANGED <<parent, prxBlk, signum, proc, masked, parentExited, req, resp,
                   reqOpen, respOpen, prxRx, wrkRx, wrkBlk, rxBuf, prxFrames,
                   wrkFrames, wrkSent, prxGot, lateYield>>

\* The daemon dies (a crash, a kill, its own exit).
ParentDeath ==
    /\ parent = "alive"
    /\ DaemonEnds
    /\ UNCHANGED <<prxBlk, state, signum, timer, proc, masked, parentExited, req,
                   resp, reqOpen, respOpen, prxRx, wrkRx, wrkBlk, rxBuf, prxFrames,
                   wrkFrames, wrkSent, prxGot, lateYield>>

-----------------------------------------------------------------------------
(* Worker process side                                                     *)

\* The child after fork(): prctl(PR_SET_PDEATHSIG), then the getppid() check
\* (a parent that died in the window makes it raise SIGTERM and exit), then
\* sid_wrk_ctl_run_worker: _run_internal_worker creates the worker resource
\* (_init_worker: signal source, channel sources) and runs its loop;
\* _run_external_worker sets up channels and execve()s.  Preparation, init
\* and execve may fail, and the child exits.  The signal mask stays fully
\* blocked: the child returns before the sigprocmask restore at line 943.
\* _init_worker, creating the internal worker's resource: the signal source
\* for SIGTERM, SIGINT and SIGUSR1 (read through a signalfd, so the
\* inherited blocked mask does not stop it) and the channel sources.  A
\* failing allocation, source or _setup_channels fails the creation and
\* the child exits.
InitWorker(w) ==
    \/ /\ proc' = [proc EXCEPT ![w] = "running"]
       /\ wrkRx' = [wrkRx EXCEPT ![w] = TRUE]
    \/ /\ proc' = [proc EXCEPT ![w] = "exited"]
       /\ UNCHANGED wrkRx

\* _run_external_worker: execve of the program, which reads and writes the
\* channel fds itself; a failing preparation or execve ends the child.
ExecWorker(w) ==
    /\ proc' \in {[proc EXCEPT ![w] = "running"], [proc EXCEPT ![w] = "exited"]}
    /\ UNCHANGED wrkRx

RunWorker(w) ==
    /\ proc[w] = "forked"
    /\ \/ /\ parent = "dead"
          /\ proc' = [proc EXCEPT ![w] = "exited"]
          /\ UNCHANGED wrkRx
       \/ /\ parent = "alive"
          /\ WorkerType = "internal"
          /\ InitWorker(w)
       \/ /\ parent = "alive"
          /\ WorkerType = "external"
          /\ ExecWorker(w)
    /\ UNCHANGED <<parent, prxBlk, state, signum, timer, masked, sigs, parentExited,
                   req, resp, reqOpen, respOpen, prxRx, wrkBlk, rxBuf, prxFrames,
                   wrkFrames, wrkSent, prxGot, lateYield>>

\* SIGKILL cannot be blocked: the kernel ends the process wherever it is.
KernelKill(w) ==
    /\ ProcLive(w)
    /\ "SIGKILL" \in sigs[w]
    /\ proc' = [proc EXCEPT ![w] = "exited"]
    /\ wrkBlk' = [wrkBlk EXCEPT ![w] = NoFrame]
    /\ UNCHANGED <<parent, prxBlk, state, signum, timer, masked, sigs, parentExited,
                   req, resp, reqOpen, respOpen, prxRx, wrkRx, rxBuf, prxFrames,
                   wrkFrames, wrkSent, prxGot, lateYield>>

\* _on_worker_signal_event (internal worker, via its signalfd source):
\* SIGTERM exits the loop and the process ends; SIGUSR1 sets parent_exited.
WorkerSignalEvent(w) ==
    /\ WorkerType = "internal"
    /\ proc[w] = "running"
    /\ wrkBlk[w] = NoFrame
    /\ \E s \in sigs[w] \ {"SIGKILL"} :
         /\ sigs' = [sigs EXCEPT ![w] = @ \ {s}]
         /\ IF s = "SIGTERM"
              THEN /\ proc' = [proc EXCEPT ![w] = "exited"]
                   /\ UNCHANGED parentExited
              ELSE /\ parentExited' = [parentExited EXCEPT ![w] = TRUE]
                   /\ UNCHANGED proc
    /\ UNCHANGED <<parent, prxBlk, state, signum, timer, masked, req, resp, reqOpen,
                   respOpen, prxRx, wrkRx, wrkBlk, rxBuf, prxFrames, wrkFrames,
                   wrkSent, prxGot, lateYield>>

\* _on_worker_channel_event with _chan_buf_recv on req: a DATA frame goes to
\* worker_rx.cb.fn; EOF destroys the event source.
WorkerChannelEvent(w) ==
    /\ WorkerType = "internal"
    /\ proc[w] = "running"
    /\ wrkBlk[w] = NoFrame
    /\ wrkRx[w]
    /\ LET r == ChanBufRecv(req[w], ~ReqWriterOpen(w), FALSE) IN
       \/ /\ r = "msg"
          /\ req' = [req EXCEPT ![w] = Tail(@)]
          /\ UNCHANGED wrkRx
       \/ /\ r = "eof"
          /\ wrkRx' = [wrkRx EXCEPT ![w] = FALSE]
          /\ UNCHANGED req
    /\ UNCHANGED <<parent, prxBlk, state, signum, timer, proc, masked, sigs,
                   parentExited, resp, reqOpen, respOpen, prxRx, wrkBlk, rxBuf,
                   prxFrames, wrkFrames, wrkSent, prxGot, lateYield>>

\* _chan_buf_send of frame f by the worker on resp: fails on its own closed fd
\* or on a closed reader (EPIPE; SIGPIPE is blocked), blocks on a full pipe.
WrkWrite(w, f) ==
    IF ~respOpen[w] \/ ~RespReaderOpen(w)
      THEN UNCHANGED <<resp, wrkSent, wrkBlk>>
    ELSE IF Len(resp[w]) < Cap
      THEN /\ resp' = [resp EXCEPT ![w] = Append(@, f)]
           /\ wrkSent' = IF f.cmd = "DATA"
                           THEN [wrkSent EXCEPT ![w] = Append(@, f.data)]
                           ELSE wrkSent
           /\ UNCHANGED wrkBlk
    ELSE /\ wrkBlk' = [wrkBlk EXCEPT ![w] = f]
         /\ UNCHANGED <<resp, wrkSent>>

\* sid_wrk_ctl_chan_send from an internal worker (worker_tx.cb.fn, then
\* _chan_buf_send with DATA).
WorkerChanSend(w, d) ==
    /\ WorkerType = "internal"
    /\ proc[w] = "running"
    /\ wrkBlk[w] = NoFrame
    /\ wrkFrames[w] < MaxWrkFrames
    /\ wrkFrames' = [wrkFrames EXCEPT ![w] = @ + 1]
    /\ WrkWrite(w, Frame("DATA", d))
    /\ UNCHANGED <<parent, prxBlk, state, signum, timer, proc, masked, sigs,
                   parentExited, req, reqOpen, respOpen, prxRx, wrkRx, rxBuf,
                   prxFrames, prxGot, lateYield>>

\* sid_wrk_ctl_yield_worker: on the first PIPE_TO_PRX channel send YIELD, or,
\* once parent_exited is set, raise(SIGTERM) instead.
YieldWorker(w) ==
    /\ WorkerType = "internal"
    /\ proc[w] = "running"
    /\ wrkBlk[w] = NoFrame
    /\ wrkFrames[w] < MaxWrkFrames
    /\ wrkFrames' = [wrkFrames EXCEPT ![w] = @ + 1]
    /\ lateYield' = [lateYield EXCEPT ![w] = @ \/ parent = "dead"]
    /\ IF parentExited[w]
         THEN /\ Kill(w, "SIGTERM")
              /\ UNCHANGED <<resp, wrkSent, wrkBlk>>
         ELSE /\ WrkWrite(w, Frame("YIELD", NoData))
              /\ UNCHANGED sigs
    /\ UNCHANGED <<parent, prxBlk, state, signum, timer, proc, masked,
                   parentExited, req, reqOpen, respOpen, prxRx, wrkRx, rxBuf,
                   prxFrames, prxGot>>

\* A blocked worker write that returns only once there is room.
WorkerWriteDoneNoEpipe(w) ==
    /\ proc[w] = "running"
    /\ wrkBlk[w] # NoFrame
    /\ RespReaderOpen(w)
    /\ Len(resp[w]) < Cap
    /\ resp' = [resp EXCEPT ![w] = Append(@, wrkBlk[w])]
    /\ wrkSent' = IF wrkBlk[w].cmd = "DATA"
                    THEN [wrkSent EXCEPT ![w] = Append(@, wrkBlk[w].data)]
                    ELSE wrkSent
    /\ wrkBlk' = [wrkBlk EXCEPT ![w] = NoFrame]
    /\ UNCHANGED <<parent, prxBlk, state, signum, timer, proc, masked, sigs,
                   parentExited, req, reqOpen, respOpen, prxRx, wrkRx, rxBuf,
                   prxFrames, wrkFrames, prxGot, lateYield>>

\* The worker's write() on a full resp pipe returns: the proxy read a frame,
\* or the read end is gone (EPIPE).
WorkerWriteDone(w) ==
    /\ proc[w] = "running"
    /\ wrkBlk[w] # NoFrame
    /\ \/ /\ ~RespReaderOpen(w)
          /\ UNCHANGED <<resp, wrkSent>>
       \/ /\ RespReaderOpen(w)
          /\ Len(resp[w]) < Cap
          /\ resp' = [resp EXCEPT ![w] = Append(@, wrkBlk[w])]
          /\ wrkSent' = IF wrkBlk[w].cmd = "DATA"
                          THEN [wrkSent EXCEPT ![w] = Append(@, wrkBlk[w].data)]
                          ELSE wrkSent
    /\ wrkBlk' = [wrkBlk EXCEPT ![w] = NoFrame]
    /\ UNCHANGED <<parent, prxBlk, state, signum, timer, proc, masked, sigs,
                   parentExited, req, reqOpen, respOpen, prxRx, wrkRx, rxBuf,
                   prxFrames, wrkFrames, prxGot, lateYield>>

\* sid_wrk_ctl_chan_close from an internal worker on resp.
WorkerChanClose(w) ==
    /\ WorkerType = "internal"
    /\ proc[w] = "running"
    /\ wrkBlk[w] = NoFrame
    /\ respOpen[w]
    /\ respOpen' = [respOpen EXCEPT ![w] = FALSE]
    /\ UNCHANGED <<parent, prxBlk, state, signum, timer, proc, masked, sigs,
                   parentExited, req, resp, reqOpen, prxRx, wrkRx, wrkBlk, rxBuf,
                   prxFrames, wrkFrames, wrkSent, prxGot, lateYield>>

\* An external program after execve(), the environment of the daemon: it
\* inherits the fully blocked mask and may unblock signals itself, reads its
\* stdin (req), writes its stdout (resp), blocking in write() on a full
\* pipe, and exits when it likes; SIGTERM, once unblocked, ends it.
ExtUnblock(w) ==
    /\ WorkerType = "external"
    /\ proc[w] = "running"
    /\ wrkBlk[w] = NoFrame
    /\ masked[w]
    /\ masked' = [masked EXCEPT ![w] = FALSE]
    /\ UNCHANGED <<parent, prxBlk, state, signum, timer, proc, sigs, parentExited,
                   req, resp, reqOpen, respOpen, prxRx, wrkRx, wrkBlk, rxBuf,
                   prxFrames, wrkFrames, wrkSent, prxGot, lateYield>>

ExtSignal(w) ==
    /\ WorkerType = "external"
    /\ proc[w] = "running"
    /\ ~masked[w]
    /\ "SIGTERM" \in sigs[w]
    /\ proc' = [proc EXCEPT ![w] = "exited"]
    /\ wrkBlk' = [wrkBlk EXCEPT ![w] = NoFrame]
    /\ UNCHANGED <<parent, prxBlk, state, signum, timer, masked, sigs, parentExited,
                   req, resp, reqOpen, respOpen, prxRx, wrkRx, rxBuf,
                   prxFrames, wrkFrames, wrkSent, prxGot, lateYield>>

ExtRead(w) ==
    /\ WorkerType = "external"
    /\ proc[w] = "running"
    /\ wrkBlk[w] = NoFrame
    /\ req[w] # <<>>
    /\ req' = [req EXCEPT ![w] = Tail(@)]
    /\ UNCHANGED <<parent, prxBlk, state, signum, timer, proc, masked, sigs,
                   parentExited, resp, reqOpen, respOpen, prxRx, wrkRx, wrkBlk,
                   rxBuf, prxFrames, wrkFrames, wrkSent, prxGot, lateYield>>

ExtWrite(w, d) ==
    /\ WorkerType = "external"
    /\ proc[w] = "running"
    /\ wrkBlk[w] = NoFrame
    /\ wrkFrames[w] < MaxWrkFrames
    /\ wrkFrames' = [wrkFrames EXCEPT ![w] = @ + 1]
    /\ WrkWrite(w, Frame("DATA", d))
    /\ UNCHANGED <<parent, prxBlk, state, signum, timer, proc, masked, sigs,
                   parentExited, req, reqOpen, respOpen, prxRx, wrkRx, rxBuf,
                   prxFrames, prxGot, lateYield>>

ExtExit(w) ==
    /\ WorkerType = "external"
    /\ proc[w] = "running"
    /\ wrkBlk[w] = NoFrame
    /\ proc' = [proc EXCEPT ![w] = "exited"]
    /\ UNCHANGED <<parent, prxBlk, state, signum, timer, masked, sigs, parentExited,
                   req, resp, reqOpen, respOpen, prxRx, wrkRx, wrkBlk, rxBuf,
                   prxFrames, wrkFrames, wrkSent, prxGot, lateYield>>

-----------------------------------------------------------------------------
Next ==
    \/ ParentDeath
    \/ ProxyWriteDone
    \/ \E w \in Workers :
         \/ GetNewWorker(w)
         \/ \E d \in Payloads : ChanSend(w, d)
         \/ ChanClose(w)
         \/ ProxyChannelEvent(w)
         \/ ProxyChildEvent(w)
         \/ ProxyTimeoutEvent(w)
         \/ RunWorker(w)
         \/ KernelKill(w)
         \/ WorkerSignalEvent(w)
         \/ WorkerChannelEvent(w)
         \/ \E d \in Payloads : WorkerChanSend(w, d)
         \/ YieldWorker(w)
         \/ WorkerWriteDone(w)
         \/ WorkerChanClose(w)
         \/ ExtUnblock(w)
         \/ ExtSignal(w)
         \/ ExtRead(w)
         \/ \E d \in Payloads : ExtWrite(w, d)
         \/ ExtExit(w)

\* Event loops dispatch every pending source, the kernel delivers signals and
\* fires timers, and a forked child runs.  Application calls (sends, closes,
\* yields, spawning), the external program's own choices and the daemon's
\* death are not assumed to happen.
Fairness ==
    /\ WF_vars(ProxyWriteDone)
    /\ \A w \in Workers :
         /\ WF_vars(ProxyChannelEvent(w))
         /\ WF_vars(ProxyChildEvent(w))
         /\ WF_vars(ProxyTimeoutEvent(w))
         /\ WF_vars(RunWorker(w))
         /\ WF_vars(KernelKill(w))
         /\ WF_vars(WorkerSignalEvent(w))
         /\ WF_vars(WorkerChannelEvent(w))
         /\ WF_vars(WorkerWriteDone(w))
         /\ WF_vars(ExtSignal(w))

Spec == Init /\ [][Next]_vars /\ Fairness

-----------------------------------------------------------------------------
(* Properties                                                              *)

\* Every DATA frame a worker wrote into resp has been handed to
\* proxy_rx.cb.fn, in order, by the time the proxy is EXITED and destroyed.
\* This rests on the child-exit source's priority 1 being lower than the
\* channel sources' priority 0 in _init_worker_proxy.
NoReplyLost ==
    \A w \in Workers : state[w] = "EXITED" => prxGot[w] = wrkSent[w]

\* A worker the proxy told to exit after its YIELD (_make_worker_exit) is
\* eventually reaped and its proxy destroyed, unless the daemon died.
YieldedWorkerReaped ==
    \A w \in Workers :
        state[w] = "EXITING" ~> (state[w] = "EXITED" \/ parent = "dead")

\* A worker whose exec timeout fired with a non-zero signum is eventually
\* reaped (_on_worker_proxy_timeout_event sends timeout_spec.signum).
TimedOutWorkerReaped ==
    \A w \in Workers :
        (state[w] = "TIMED_OUT" /\ signum[w] # "none")
            ~> (state[w] = "EXITED" \/ parent = "dead")

\* A worker that exits on its own (its init or execve failing, the external
\* program ending, a signal) while its proxy exists is eventually reaped,
\* unless the daemon died: the channel source takes the EOF and goes away,
\* and the priority-1 child-exit source then runs.  Nothing else waits for
\* the pid, so a proxy that missed it would leave a zombie for ever.
ExitedWorkerReaped ==
    \A w \in Workers :
        (proc[w] = "exited" /\ ProxyAlive(w)) ~> (proc[w] = "reaped" \/ parent = "dead")

\* A worker that yields after its daemon died ends: sid_wrk_ctl_yield_worker
\* raises SIGTERM once parent_exited is set, and the parent-death SIGUSR1
\* of PR_SET_PDEATHSIG is what sets it (the spec's "Yield").
LateYieldExits ==
    \A w \in Workers : lateYield[w] ~> proc[w] \in {"exited", "reaped"}

\* A process blocked in write() on a channel pipe eventually returns: the
\* daemon on req, a worker on resp.
BlockedWriteCompletes ==
    /\ prxBlk # NoBlock ~> (prxBlk = NoBlock \/ parent = "dead")
    /\ \A w \in Workers : wrkBlk[w] # NoFrame ~> wrkBlk[w] = NoFrame

====
