-------------------------------- MODULE Ctrl --------------------------------
(***************************************************************************)
(* The controller (mm_halow_ctrl.c) and its lwIP interfaces                *)
(* (mm_halow_lwip.c): bringing interfaces up and down, scanning, joining,  *)
(* settings, fatal errors and deinit.                                      *)
(*                                                                         *)
(* The thread makes the calls.  A call into morselib may wait, and the     *)
(* event hook of the wait may run a Python callback that calls the driver  *)
(* again, so the calls under way form a stack.  Between any two steps      *)
(* morselib's tasks run, in PendSV or in the thread's waits, and call the  *)
(* driver back.                                                            *)
(*                                                                         *)
(* morselib is external.  Assumed of it: a boot fails if the transceiver   *)
(* is up; requests fail if it is off; whoever stops a station or a sweep   *)
(* reports that through its callback; before mmwlan_init its calls fail at *)
(* once; settings and the start of an AP do not wait, and mmwlan_init is   *)
(* given the settings it accepts.  Assumed of the hook: it restores        *)
(* mm_halow_sched_in_callback.                                             *)
(***************************************************************************)
EXTENDS Sequences, Integers, SequencesExt

CONSTANTS
  Setting,    \* radio settings, among those of MM_HALOW_RADIO_xxx
  MaxDepth    \* how deep calls from callbacks may nest

ASSUME CtrlAssumption == MaxDepth \in Nat \ {0}

Itf == {"sta", "ap"}

VARIABLES
  initted, booted, itf_state, scan_active, link_status, pm, cfg,   \* mm_halow_state
  ps,             \* the power saving mode morselib uses
  poll,           \* mm_halow_poll is set
  teardown,       \* mm_halow_sched_teardown
  pool,           \* mm_halow_heap_mem is set: the driver's heap stands
  heap,           \* mm_halow_heap_head is set
  tx_buf,         \* mm_halow_tx_buf is set
  scan_cache,     \* scan_cache is set
  tasks, timers,  \* the lists of tasks and timers hold some of morselib's
  chip,           \* the transceiver: "off", "up"
  sta,            \* morselib's station: "off", "connecting", "connected"
  link,           \* morselib has reported the station's link up
  sweep,          \* a sweep is running
  applied,        \* [Setting -> what morselib uses]
  netifs,         \* lwIP's list of interfaces
  default,        \* netif_default
  link_up,        \* the interfaces with the link flag set
  stack,          \* the calls under way, the innermost first
  stranded        \* an interface was up when mm_halow_deinit had taken its last one down:
                  \* a callback has brought it up in the meantime

memory == <<pool, heap, tx_buf, scan_cache, tasks, timers>>
morselib == <<chip, sta, link, sweep>>
lwip == <<netifs, default, link_up>>
ending == <<poll, teardown, stranded>>
settings == <<pm, ps, cfg, applied>>
vars == <<initted, booted, itf_state, scan_active, link_status, ending, settings, memory,
          morselib, lwip, stack>>

Frame == [op : {"up", "down", "deinit", "scan", "join", "leave"}, itf : Itf \cup {"end"},
          at : {"boot", "boot_ok", "bring", "disable", "shutdown", "next", "stop", "sched_deinit",
                "timer_list", "heap_head", "heap_mem", "clear", "request", "sweep", "abort",
                "sta_enable"}]

\* Where a call waits, so that callbacks may run
Waits == {"boot", "disable", "shutdown", "stop", "sweep", "abort", "sta_enable"}

TypeOK ==
  /\ initted \in BOOLEAN /\ booted \in BOOLEAN /\ scan_active \in BOOLEAN /\ poll \in BOOLEAN
  /\ teardown \in BOOLEAN /\ stranded \in BOOLEAN /\ pool \in BOOLEAN /\ heap \in BOOLEAN
  /\ tx_buf \in BOOLEAN /\ scan_cache \in BOOLEAN
  /\ tasks \in BOOLEAN /\ timers \in BOOLEAN /\ link \in BOOLEAN /\ sweep \in BOOLEAN
  /\ itf_state \subseteq Itf /\ link_up \subseteq Itf
  /\ link_status \in {"down", "join", "noip", "fail"}
  /\ pm \in {"none", "powersave"} /\ ps \in {"none", "powersave"}
  /\ cfg \in [Setting -> BOOLEAN] /\ applied \in [Setting -> BOOLEAN]
  /\ chip \in {"off", "up"}
  /\ sta \in {"off", "connecting", "connected"}
  /\ netifs \in Seq(Itf \cup {"other"})
  /\ default \in Itf \cup {"other", "none"}
  /\ stack \in Seq(Frame) /\ Len(stack) <= MaxDepth

Init ==
  /\ initted = FALSE /\ booted = FALSE /\ itf_state = {} /\ scan_active = FALSE
  /\ link_status = "down"
  /\ pm = "none" /\ ps = "powersave" /\ stranded = FALSE
  /\ cfg = [s \in Setting |-> TRUE] /\ applied = [s \in Setting |-> TRUE]
  /\ poll = FALSE /\ teardown = FALSE
  /\ pool = FALSE /\ heap = FALSE /\ tx_buf = FALSE /\ scan_cache = FALSE
  /\ tasks = FALSE /\ timers = FALSE
  /\ chip = "off" /\ sta = "off" /\ link = FALSE /\ sweep = FALSE
  /\ netifs = <<>> /\ default = "none" /\ link_up = {}
  /\ stack = <<>>

\* A call may be made when none is under way, or from a callback inside one that waits.
in_callback == stack # <<>>
Waiting == stack # <<>> /\ Head(stack).at \in Waits
MayCall == in_callback => Waiting /\ Len(stack) < MaxDepth

Call(op, itf, at) == stack' = <<[op |-> op, itf |-> itf, at |-> at]>> \o stack
At(op, at) == stack # <<>> /\ Head(stack).op \in op /\ Head(stack).at = at
Goto(at) == stack' = [stack EXCEPT ![1].at = at]
Return == stack' = Tail(stack)

-----------------------------------------------------------------------------
(* mm_halow_lwip.c *)

netif_is_link_up(itf) == itf \in link_up

\* A second netif_add of the same interface closes lwIP's list to a ring.  The model bounds
\* the list there: what comes of a ring is not modelled.
Ring(itf) == \E i, j \in DOMAIN netifs : i # j /\ netifs[i] = itf /\ netifs[j] = itf

\* mm_halow_cb_tcpip_init; netif_add clears the flags
tcpip_init(itf) ==
  /\ netifs' = IF Ring(itf) THEN netifs ELSE <<itf>> \o netifs
  /\ default' = IF default = "none" THEN itf ELSE default

\* Fault: the default route is not handed on.
Faulttcpip_deinit(itf) ==
  /\ \E i \in DOMAIN netifs : netifs[i] = itf /\ netifs' = RemoveAt(netifs, i)
  /\ default' = IF default # itf THEN default ELSE "none"

\* mm_halow_cb_tcpip_deinit
tcpip_deinit(itf) ==
  /\ \E i \in DOMAIN netifs : netifs[i] = itf /\ netifs' = RemoveAt(netifs, i)
  /\ default' = IF default # itf THEN default
                ELSE IF netifs' = <<>> THEN "none" ELSE Head(netifs')

\* The board's other interface comes up; it takes the default route on the same terms.
OtherUp ==
  /\ \A i \in DOMAIN netifs : netifs[i] # "other"
  /\ netifs' = <<"other">> \o netifs
  /\ default' = IF default = "none" THEN "other" ELSE default
  /\ UNCHANGED <<initted, booted, itf_state, scan_active, link_status, ending, settings,
                 memory, morselib, link_up, stack>>

-----------------------------------------------------------------------------
(* mm_halow_init: returns at once if initted *)

InitFails ==
  /\ itf_state' = {} /\ scan_active' = FALSE /\ scan_cache' = FALSE /\ link_status' = "down"
  /\ UNCHANGED <<initted, booted, ending, settings, pool, heap, tx_buf, tasks, timers,
                 morselib, lwip, stack>>

\* mmwlan_init, mm_halow_apply_pm and mm_halow_apply_radio included
Inits ==
  \/ initted /\ UNCHANGED <<initted, itf_state, scan_active, link_status, applied, ps, poll,
                            pool, heap, tx_buf, scan_cache>>
  \/ /\ ~initted
     /\ itf_state' = {} /\ scan_active' = FALSE /\ scan_cache' = FALSE /\ link_status' = "down"
     /\ pool' = TRUE /\ heap' = TRUE /\ tx_buf' = TRUE
     /\ ps' = pm /\ applied' = cfg
     /\ initted' = TRUE /\ poll' = TRUE

-----------------------------------------------------------------------------
(* mm_halow_wifi_set_up(itf, true).  Not modelled here: a call for an interface that is *)
(* up, which does nothing.                                                              *)

UpCall(itf) ==
  /\ MayCall /\ itf \notin itf_state
  /\ \/ ~initted /\ InitFails
     \/ /\ Inits
        /\ \/ Call("up", itf, IF booted THEN "bring" ELSE "boot")
           \/ UNCHANGED stack                            \* mm_halow_set_country fails
        /\ UNCHANGED <<booted, teardown, stranded, pm, cfg, tasks, timers, morselib, lwip>>

\* mmwlan_boot returns; its tasks and timers stay if it fails half way
BootReturns(ok) ==
  /\ At({"up"}, "boot")
  /\ ok => chip = "off"
  /\ chip' = IF ok THEN "up" ELSE chip
  /\ tasks' = TRUE /\ timers' = TRUE
  /\ IF ok THEN Goto("boot_ok") ELSE Return
  /\ UNCHANGED <<initted, booted, itf_state, scan_active, link_status, ending, settings, pool,
                 heap, tx_buf, scan_cache, sta, link, sweep, lwip>>

BootOk ==
  /\ At({"up"}, "boot_ok")
  /\ booted' = TRUE
  /\ Goto("bring")
  /\ UNCHANGED <<initted, itf_state, scan_active, link_status, ending, settings, memory,
                 morselib, lwip>>

\* Fault: added whether it is there or not.
FaultAdd(itf) ==
  /\ tcpip_init(itf)
  /\ itf_state' = itf_state \cup {itf}
  /\ link_up' = (link_up \ {itf}) \cup (IF itf = "ap" THEN {itf} ELSE {})

\* The interface is added, unless a callback has added it in the meantime.  An AP has its
\* link at once.
Add(itf) ==
  IF itf \in itf_state
  THEN UNCHANGED <<itf_state, netifs, default>> /\ link_up' = link_up \cup ({itf} \cap {"ap"})
  ELSE /\ tcpip_init(itf)
       /\ itf_state' = itf_state \cup {itf}
       /\ link_up' = (link_up \ {itf}) \cup ({itf} \cap {"ap"})

\* mm_halow_ap_enable, when the SSID, the key and the channel are fit for an AP
ap_enable == pm = "none" /\ chip = "up"

Bring ==
  /\ At({"up"}, "bring")
  /\ LET itf == Head(stack).itf IN
     \/ (itf = "ap" => ap_enable) /\ Add(itf)
     \/ itf = "ap" /\ UNCHANGED <<itf_state, lwip>>      \* mm_halow_ap_enable fails
  /\ Return
  /\ UNCHANGED <<initted, booted, scan_active, link_status, ending, settings, memory,
                 morselib>>

-----------------------------------------------------------------------------
(* mm_halow_wifi_set_up(itf, false), called by Python or by mm_halow_deinit.  It does   *)
(* nothing if the driver is not running.                                                *)

\* What morselib reports when it stops its station: mm_halow_sta_status_cb and
\* mm_halow_link_state_cb
StationStops ==
  /\ sta' = "off" /\ link' = FALSE
  /\ link_up' = IF link THEN link_up \ {"sta"} ELSE link_up
  /\ link_status' = IF sta # "off" THEN "down" ELSE link_status

\* mmwlan_shutdown; the tasks and timers stay if it runs into its timeouts
Shutdown ==
  /\ StationStops
  /\ chip' = "off" /\ sweep' = FALSE
  /\ scan_active' = (scan_active /\ ~sweep)
  /\ tasks' \in {FALSE, tasks} /\ timers' \in {FALSE, timers}

\* Back to the caller: for deinit, to its loop over the interfaces
DownReturns ==
  stack' = IF Head(stack).op = "down" THEN Tail(stack)
           ELSE [stack EXCEPT ![1].at = "next", ![1].itf = IF @ = "sta" THEN "ap" ELSE "end"]

DownCall(itf) ==
  /\ MayCall /\ initted
  /\ Call("down", itf, "disable")
  /\ UNCHANGED <<initted, booted, itf_state, scan_active, link_status, ending, settings,
                 memory, morselib, lwip>>

\* mmwlan_sta_disable or mmwlan_ap_disable returns.  The interface goes, unless a callback
\* has removed it; the last one to go takes the transceiver down.
DisableReturns ==
  /\ At({"down", "deinit"}, "disable")
  /\ LET itf == Head(stack).itf IN
     /\ IF itf = "sta"
        THEN /\ sta' = "off" /\ link' = FALSE /\ link_status' = "down"
             /\ link_up' = IF link \/ itf \in itf_state THEN link_up \ {itf} ELSE link_up
        ELSE /\ link_up' = IF itf \in itf_state THEN link_up \ {itf} ELSE link_up
             /\ UNCHANGED <<sta, link, link_status>>
     /\ IF itf \in itf_state THEN tcpip_deinit(itf) ELSE UNCHANGED <<netifs, default>>
     /\ itf_state' = itf_state \ {itf}
  /\ IF itf_state' = {} THEN teardown' = TRUE /\ Goto("shutdown")
     ELSE UNCHANGED teardown /\ DownReturns
  /\ UNCHANGED <<initted, booted, scan_active, poll, stranded, settings, memory, chip, sweep>>

ShutdownReturns ==
  /\ At({"down", "deinit"}, "shutdown")
  /\ Shutdown
  /\ teardown' = FALSE /\ booted' = FALSE
  /\ DownReturns
  /\ UNCHANGED <<initted, itf_state, poll, stranded, settings, pool, heap, tx_buf, scan_cache,
                 netifs, default>>

-----------------------------------------------------------------------------
(* mm_halow_deinit: returns at once if not initted or in a callback *)

\* Fault: the callback is not looked at.
FaultDeinitCall ==
  /\ MayCall /\ initted
  /\ Call("deinit", "sta", "next")
  /\ UNCHANGED <<initted, booted, itf_state, scan_active, link_status, ending, settings,
                 memory, morselib, lwip>>

DeinitCall ==
  /\ MayCall /\ initted /\ ~in_callback
  /\ Call("deinit", "sta", "next")
  /\ UNCHANGED <<initted, booted, itf_state, scan_active, link_status, ending, settings,
                 memory, morselib, lwip>>

\* The loop over the interfaces, then mmwlan_shutdown and mmwlan_deinit
DeinitNext ==
  /\ At({"deinit"}, "next")
  /\ LET rest == {i \in itf_state : Head(stack).itf \in {"sta", i}}
         itf == IF "sta" \in rest THEN "sta" ELSE "ap"
     IN IF rest # {}
        THEN stack' = [stack EXCEPT ![1] = [@ EXCEPT !.itf = itf, !.at = "disable"]]
             /\ UNCHANGED teardown
        ELSE Goto("stop") /\ teardown' = TRUE
  /\ UNCHANGED <<initted, booted, itf_state, scan_active, link_status, poll, stranded,
                 settings, memory, morselib, lwip>>

DeinitStopped ==
  /\ At({"deinit"}, "stop")
  /\ Shutdown
  /\ teardown' = FALSE /\ booted' = FALSE /\ poll' = FALSE
  /\ stranded' = (stranded \/ itf_state # {})
  /\ Goto("sched_deinit")
  /\ UNCHANGED <<initted, itf_state, settings, pool, heap, tx_buf, scan_cache, netifs,
                 default>>

\* mm_halow_sched_deinit
SchedDeinit ==
  /\ At({"deinit"}, "sched_deinit")
  /\ tasks' = FALSE
  /\ Goto("timer_list")
  /\ UNCHANGED <<initted, booted, itf_state, scan_active, link_status, ending, settings, pool,
                 heap, tx_buf, scan_cache, timers, morselib, lwip>>

\* Fault: the pool goes back first.
FaultOsalDeinit ==
  /\ \/ At({"deinit"}, "timer_list") /\ Goto("heap_head") /\ pool' = FALSE /\ UNCHANGED <<timers, heap>>
     \/ At({"deinit"}, "heap_head") /\ Goto("heap_mem") /\ timers' = FALSE /\ UNCHANGED <<pool, heap>>
     \/ At({"deinit"}, "heap_mem") /\ Goto("clear") /\ heap' = FALSE /\ UNCHANGED <<timers, pool>>
  /\ UNCHANGED <<initted, booted, itf_state, scan_active, link_status, ending, settings, tx_buf,
                 scan_cache, tasks, morselib, lwip>>

\* mm_halow_osal_deinit, one store at a time
OsalDeinit ==
  /\ \/ At({"deinit"}, "timer_list") /\ Goto("heap_head") /\ timers' = FALSE /\ UNCHANGED <<heap, pool>>
     \/ At({"deinit"}, "heap_head") /\ Goto("heap_mem") /\ heap' = FALSE /\ UNCHANGED <<timers, pool>>
     \/ At({"deinit"}, "heap_mem") /\ Goto("clear") /\ pool' = FALSE /\ UNCHANGED <<timers, heap>>
  /\ UNCHANGED <<initted, booted, itf_state, scan_active, link_status, ending, settings, tx_buf,
                 scan_cache, tasks, morselib, lwip>>

DeinitClear ==
  /\ At({"deinit"}, "clear")
  /\ tx_buf' = FALSE /\ scan_cache' = FALSE /\ scan_active' = FALSE
  /\ initted' = FALSE /\ link_status' = "down"
  /\ Return
  /\ UNCHANGED <<booted, itf_state, ending, settings, pool, heap, tasks, timers, morselib,
                 lwip>>

-----------------------------------------------------------------------------
(* mm_halow_wifi_scan_cached: nothing if the link is not down or there is no memory for *)
(* the results.  A call that finds a sweep running waits for that one.                  *)

ScanCall ==
  /\ MayCall /\ link_status = "down" /\ heap
  /\ scan_cache' = TRUE
  /\ scan_active' = TRUE
  /\ Call("scan", "sta", IF scan_active THEN "sweep" ELSE "request")
  /\ UNCHANGED <<initted, booted, itf_state, link_status, ending, settings, pool, heap,
                 tx_buf, tasks, timers, morselib, lwip>>

\* Fault: a request that fails leaves the flag set.
FaultScanRequest(ok) ==
  /\ At({"scan"}, "request")
  /\ ok => chip = "up" /\ ~sweep
  /\ sweep' = (sweep \/ ok)
  /\ IF ok THEN Goto("sweep") ELSE Return
  /\ UNCHANGED <<initted, booted, itf_state, scan_active, link_status, ending, settings,
                 memory, chip, sta, link, lwip>>

\* mm_halow_scan_start_locked, from mmwlan_scan_request on
ScanRequest(ok) ==
  /\ At({"scan"}, "request")
  /\ ok => chip = "up" /\ ~sweep
  /\ sweep' = (sweep \/ ok)
  /\ scan_active' = (scan_active /\ ok)
  /\ IF ok THEN Goto("sweep") ELSE Return
  /\ UNCHANGED <<initted, booted, itf_state, link_status, ending, settings, memory, chip, sta,
                 link, lwip>>

\* The sweep has ended, or MM_HALOW_SCAN_MS has passed; the results are copied out.
ScanReturns ==
  /\ At({"scan"}, "sweep")
  /\ Return
  /\ UNCHANGED <<initted, booted, itf_state, scan_active, link_status, ending, settings,
                 memory, morselib, lwip>>

-----------------------------------------------------------------------------
(* mm_halow_wifi_join, with arguments it accepts, and mm_halow_wifi_leave *)

JoinCall ==
  /\ MayCall
  /\ IF initted
     THEN /\ link_status' = "join"
          /\ Call("join", "sta", IF scan_active THEN "abort" ELSE "sta_enable")
     ELSE link_status' = "fail" /\ UNCHANGED stack
  /\ UNCHANGED <<initted, booted, itf_state, scan_active, ending, settings, memory, morselib,
                 lwip>>

\* The sweep has ended, or MM_HALOW_SCAN_ABORT_MS has passed.
JoinAborted ==
  /\ At({"join"}, "abort")
  /\ Goto("sta_enable")
  /\ UNCHANGED <<initted, booted, itf_state, scan_active, link_status, ending, settings,
                 memory, morselib, lwip>>

\* mmwlan_sta_enable returns
JoinReturns(ok) ==
  /\ At({"join"}, "sta_enable")
  /\ IF ok
     THEN /\ chip = "up"
          /\ sta' = "connecting" /\ link' = FALSE
          /\ link_up' = IF link THEN link_up \ {"sta"} ELSE link_up
          /\ UNCHANGED link_status
     ELSE link_status' = "fail" /\ UNCHANGED <<sta, link, link_up>>
  /\ Return
  /\ UNCHANGED <<initted, booted, itf_state, scan_active, ending, settings, memory, chip,
                 sweep, netifs, default>>

LeaveCall(itf) ==
  /\ MayCall
  /\ link_status' = IF itf = "sta" THEN "down" ELSE link_status
  /\ IF initted THEN Call("leave", itf, "disable") ELSE UNCHANGED stack
  /\ UNCHANGED <<initted, booted, itf_state, scan_active, ending, settings, memory, morselib,
                 lwip>>

LeaveReturns ==
  /\ At({"leave"}, "disable")
  /\ IF Head(stack).itf = "sta" THEN StationStops ELSE UNCHANGED <<sta, link, link_up,
                                                                   link_status>>
  /\ Return
  /\ UNCHANGED <<initted, booted, itf_state, scan_active, ending, settings, memory, chip,
                 sweep, netifs, default>>

-----------------------------------------------------------------------------
(* Settings, which do not wait *)

\* mm_halow_wifi_pm.  What morselib refuses is not stored; the mode may have reached it by
\* then, if it is the timeout that is refused.
SetPm(mode) ==
  /\ MayCall
  /\ mode # "none" => "ap" \notin itf_state
  /\ \/ pm' = mode /\ ps' = IF booted THEN mode ELSE ps
     \/ booted /\ UNCHANGED pm /\ ps' \in {ps, mode}
  /\ UNCHANGED <<initted, booted, itf_state, scan_active, link_status, ending, cfg, applied,
                 memory, morselib, lwip, stack>>

\* Those morselib takes only while it is inactive
LiveOnly == {"ampdu", "sgi", "subbands", "listen"}

\* mm_halow_wifi_set_radio; morselib refuses the former while its station is enabled
SetRadio(what, value) ==
  /\ MayCall
  /\ cfg' = [cfg EXCEPT ![what] = value]
  /\ LET push == booted /\ (what \in LiveOnly => link_status = "down" /\ sta = "off")
     IN applied' = IF push THEN [applied EXCEPT ![what] = value] ELSE applied
  /\ UNCHANGED <<initted, booted, itf_state, scan_active, link_status, ending, pm, ps, memory,
                 morselib, lwip, stack>>

-----------------------------------------------------------------------------
(* morselib's tasks, run by the poll or by the thread's waits, call back *)

TasksRun == tasks /\ chip = "up" /\ (poll \/ Waiting)

\* mm_halow_sta_status_cb
StaStatus(state) ==
  /\ TasksRun
  /\ sta # "off" /\ sta # state
  /\ sta' = state
  /\ link_status' = IF state = "connecting" THEN "join" ELSE "noip"
  /\ IF state = "connecting"                 \* the link, if it was up, is lost with it
     THEN link' = FALSE /\ link_up' = IF link THEN link_up \ {"sta"} ELSE link_up
     ELSE UNCHANGED <<link, link_up>>
  /\ UNCHANGED <<initted, booted, itf_state, scan_active, ending, settings, memory, chip,
                 sweep, netifs, default, stack>>

\* mm_halow_link_state_cb; mm_halow_cb_tcpip_set_link_up also asks for an address
LinkUp ==
  /\ TasksRun
  /\ sta = "connected" /\ ~link
  /\ link' = TRUE
  /\ link_up' = link_up \cup {"sta"}
  /\ UNCHANGED <<initted, booted, itf_state, scan_active, link_status, ending, settings,
                 memory, chip, sta, sweep, netifs, default, stack>>

\* mm_halow_scan_complete_cb
ScanComplete ==
  /\ TasksRun
  /\ sweep
  /\ sweep' = FALSE
  /\ scan_active' = FALSE
  /\ UNCHANGED <<initted, booted, itf_state, link_status, ending, settings, memory, chip, sta,
                 link, lwip, stack>>

\* Fault: the link status is left alone.
FaultFatalError ==
  /\ TasksRun
  /\ booted' = FALSE /\ scan_active' = FALSE
  /\ link_up' = link_up \ {"sta"}
  /\ chip' = "off" /\ sta' = "off" /\ link' = FALSE /\ sweep' = FALSE
  /\ UNCHANGED <<initted, itf_state, link_status, ending, settings, memory, netifs, default,
                 stack>>

\* mm_halow_fatal_error_cb; morselib is left as after a shutdown
FatalError ==
  /\ TasksRun
  /\ booted' = FALSE /\ scan_active' = FALSE
  /\ link_status' = "fail"
  /\ link_up' = link_up \ {"sta"}
  /\ chip' = "off" /\ sta' = "off" /\ link' = FALSE /\ sweep' = FALSE
  /\ UNCHANGED <<initted, itf_state, ending, settings, memory, netifs, default, stack>>

-----------------------------------------------------------------------------
Calls ==
  \/ \E itf \in Itf : UpCall(itf) \/ DownCall(itf) \/ LeaveCall(itf)
  \/ DeinitCall \/ ScanCall \/ JoinCall
  \/ \E mode \in {"none", "powersave"} : SetPm(mode)
  \/ \E what \in Setting, value \in BOOLEAN : SetRadio(what, value)

Steps ==
  \/ \E ok \in BOOLEAN : BootReturns(ok) \/ ScanRequest(ok) \/ JoinReturns(ok)
  \/ BootOk \/ Bring \/ DisableReturns \/ ShutdownReturns
  \/ DeinitNext \/ DeinitStopped \/ SchedDeinit \/ OsalDeinit \/ DeinitClear
  \/ ScanReturns \/ JoinAborted \/ LeaveReturns

Callbacks ==
  \/ \E state \in {"connecting", "connected"} : StaStatus(state)
  \/ LinkUp \/ ScanComplete \/ FatalError

Next == Calls \/ Steps \/ Callbacks \/ OtherUp

Spec == Init /\ [][Next]_vars

\* A bound for the runs: the session in which an interface is stranded is the last one.
LastSession == ~(stranded /\ ~initted)

-----------------------------------------------------------------------------
(* Properties *)

\* Nothing that a dispatch of the poll or a call under way can still reach is in a heap
\* that has been given back: the tasks and timers, the blocks an allocation walks, the
\* memory of a call in which a callback was run and, unless a callback has stranded an
\* interface, the buffer a listed interface transmits from.  A dispatch raised before
\* mm_halow_deinit may come at any step of it (mm_halow_deinit, mm_halow_poll_func).
NothingDangles ==
  ~pool =>
    /\ ~tasks /\ ~timers /\ ~heap
    /\ Len(stack) <= 1
    /\ tx_buf /\ ~stranded => itf_state = {} /\ Itf \cap ToSet(netifs) = {}

\* Until a callback strands an interface inside mm_halow_deinit, lwIP's list holds exactly
\* the interfaces that are up, each once, and one of the listed interfaces has the default
\* route, also after calls made by callbacks in the middle of another set_up or deinit and
\* after fatal errors between them (mm_halow_wifi_set_up, mm_halow_cb_tcpip_init,
\* mm_halow_cb_tcpip_deinit).
NetifsMatch ==
  ~stranded =>
    /\ \A i, j \in DOMAIN netifs : netifs[i] = netifs[j] => i = j
    /\ ToSet(netifs) \ {"other"} = itf_state
    /\ netifs # <<>> => default \in ToSet(netifs)

\* scan_active says whether a sweep is running, so that a join aborts each sweep and no
\* scan waits for one that has ended; it may differ only while the sweep is requested
\* (mm_halow_scan_start_locked, mm_halow_scan_complete_cb, mm_halow_fatal_error_cb).
ScanActiveExact ==
  /\ sweep => scan_active
  /\ scan_active => sweep \/ At({"scan"}, "request")

\* With the transceiver off and no call under way the station does not look healthy: it
\* neither joins nor is connected, and its interface has no link, whatever a fatal error
\* or a shutdown cut short (mm_halow_fatal_error_cb, mm_halow_wifi_join).
OffLooksOff ==
  chip = "off" /\ stack = <<>> => link_status \in {"down", "fail"} /\ ~netif_is_link_up("sta")

\* Settings stored while morselib would not take them "take effect the next time it is
\* brought up" (mm_halow_wifi_set_radio, mm_halow_wifi_pm).
SettingsTakeEffect ==
  [][itf_state = {} /\ itf_state' # {} => applied' = cfg' /\ ps' = pm']_vars
=============================================================================
