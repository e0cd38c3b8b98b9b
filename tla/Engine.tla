------------------------------- MODULE Engine --------------------------------
(***************************************************************************)
(* The goroutines of the daemon and the engine's bounded channel between   *)
(* them (cmd/ipv4-relay/main.go, internal/relay/engine.go and the monitor  *)
(* of netlink.go): main, which subscribes, posts the first Reload and then *)
(* becomes the engine; the forwarder of netlink updates; the signal        *)
(* goroutine; the sweep's and the reconcile's timers.  DHCPSock has the    *)
(* socket readers, NeighMirror and Lifecycle what the closures do.         *)
(***************************************************************************)
EXTENDS Integers, Sequences

CONSTANTS
    Chans,       \* the netlink subscriptions, "route" among them
    Cap,         \* capacity of the engine's channel (1024 in the code)
    SubCap,      \* capacity of a subscription's channel (64, 256 for routes)
    SigCap,      \* capacity of the signal channel (4)
    MaxUpdates,  \* bound: number of updates of each subscription
    MaxEdits     \* bound: number of edits of the configuration file

ASSUME EngineAssumption ==
    /\ "route" \in Chans /\ "none" \notin Chans
    /\ Cap \in Nat \ {0} /\ SubCap \in Nat \ {0} /\ SigCap \in Nat \ {0}
    /\ MaxUpdates \in Nat /\ MaxEdits \in Nat

VARIABLES
    main,       \* "init", "post" (the first Reload), "run" or "exited"
    events,     \* Engine.events: the closures posted
    sub,        \* updates in each subscription's channel
    received,   \* number of the last update each subscription has delivered
    failed,     \* subscriptions whose channel is closed
    forwarder,  \* "off", "select" or "post"
    update,     \* the update the forwarder is about to post
    handled,    \* number of the last update run, per subscription
    sigCh,      \* pending signals
    hangup,     \* the signal goroutine is about to post Reload
    edits,      \* version of the configuration file
    asked,      \* history: the version the last SIGHUP was sent for
    loaded,     \* the version the last Reload has read, -1 before the first
    tick,       \* the sweep timer runs, or its Post has not returned
    reconcile   \* reconcile timer: "off", "armed", "posted"

subVars == <<sub, received, failed>>
fwdVars == <<forwarder, update>>
sigVars == <<sigCh, hangup, edits, asked>>
timerVars == <<tick, reconcile>>
vars == <<main, events, subVars, fwdVars, handled, sigVars, loaded, timerVars>>

\* A closure is told apart by its kind and, for an update, its origin.
Update(c, n) == [kind |-> "update", chan |-> c, num |-> n]
Own(kind) == [kind |-> kind, chan |-> "none", num |-> 0]
Reload == Own("reload")

Alive == main # "exited"

-----------------------------------------------------------------------------
\* Mutant: a full channel loses the closure.
TryPost(f) == events' = IF Len(events) < Cap THEN Append(events, f) ELSE events

\* Post: the sending goroutine waits while the channel is full.
Post(f) == Len(events) < Cap /\ events' = Append(events, f)

\* StartNetlinkMonitor, then signal.Notify and the signal goroutine; a failed
\* subscription ends the process.
MainStart ==
    /\ main = "init"
    /\ \/ main' = "post" /\ forwarder' = "select"
       \/ main' = "exited" /\ UNCHANGED forwarder
    /\ UNCHANGED <<events, subVars, update, handled, sigVars, loaded, timerVars>>

\* The goroutine that will drain the channel posts to it first.
MainPost ==
    /\ main = "post"
    /\ Post(Reload)
    /\ main' = "run"
    /\ UNCHANGED <<subVars, fwdVars, handled, sigVars, loaded, timerVars>>

\* What running f does to the timers: the first Reload starts the sweep's, an
\* RTM_DELROUTE arms the reconcile's unless one is outstanding.
scheduleMirrorSweep(f) == tick \/ f = Reload

scheduleReconcile(f) ==
    IF f.kind = "reconcile" THEN "off"
    ELSE IF reconcile = "off" /\ f.chan = "route" THEN "armed" ELSE reconcile

\* Engine.Run: one closure at a time; Reload reads the file as it is then.
Run ==
    LET f == Head(events) IN
    /\ main = "run" /\ events # <<>>
    /\ events' = Tail(events)
    /\ loaded' = IF f = Reload THEN edits ELSE loaded
    /\ tick' = scheduleMirrorSweep(f)
    /\ handled' = [c \in Chans |-> IF f.chan = c THEN f.num ELSE handled[c]]
    /\ reconcile' = scheduleReconcile(f)
    /\ UNCHANGED <<main, subVars, fwdVars, sigVars>>

-----------------------------------------------------------------------------
(* Netlink monitor.                                                        *)

\* An update reaches the channel of its subscription.
Receive(c) ==
    /\ main \in {"post", "run"} /\ c \notin failed
    /\ received[c] < MaxUpdates /\ Len(sub[c]) < SubCap
    /\ received' = [received EXCEPT ![c] = @ + 1]
    /\ sub' = [sub EXCEPT ![c] = Append(@, Update(c, received'[c]))]
    /\ UNCHANGED <<main, events, failed, fwdVars, handled, sigVars, loaded, timerVars>>

\* The library stops reading while its channel is full; the kernel's buffer then
\* overflows, and the library closes the channel.
Overflow(c) ==
    /\ Alive /\ c \notin failed /\ Len(sub[c]) = SubCap
    /\ failed' = failed \cup {c}
    /\ UNCHANGED <<main, events, sub, received, fwdVars, handled, sigVars, loaded, timerVars>>

ForwardRecv(c) ==
    /\ Alive /\ forwarder = "select" /\ sub[c] # <<>>
    /\ forwarder' = "post" /\ update' = Head(sub[c])
    /\ sub' = [sub EXCEPT ![c] = Tail(@)]
    /\ UNCHANGED <<main, events, received, failed, handled, sigVars, loaded, timerVars>>

\* A closed channel is read: the goroutine returns, for all subscriptions.
ForwardStop(c) ==
    /\ Alive /\ forwarder = "select" /\ c \in failed /\ sub[c] = <<>>
    /\ forwarder' = "off"
    /\ UNCHANGED <<main, events, subVars, update, handled, sigVars, loaded, timerVars>>

\* Mutant: each update is posted by a goroutine of its own, in any order.
ForwardAsync ==
    /\ Alive /\ forwarder = "post" /\ Len(events) < Cap
    /\ \E j \in 0 .. Len(events) :
           events' = SubSeq(events, 1, j) \o <<update>> \o SubSeq(events, j + 1, Len(events))
    /\ forwarder' = "select" /\ update' = Own("none")
    /\ UNCHANGED <<main, subVars, handled, sigVars, loaded, timerVars>>

\* Mutant: the forwarder does not wait for room in the channel.
ForwardOrDrop ==
    /\ Alive /\ forwarder = "post"
    /\ TryPost(update)
    /\ forwarder' = "select" /\ update' = Own("none")
    /\ UNCHANGED <<main, subVars, handled, sigVars, loaded, timerVars>>

ForwardPost ==
    /\ Alive /\ forwarder = "post"
    /\ Post(update)
    /\ forwarder' = "select" /\ update' = Own("none")
    /\ UNCHANGED <<main, subVars, handled, sigVars, loaded, timerVars>>

-----------------------------------------------------------------------------
(* Signals.                                                                *)

Edit ==
    /\ Alive /\ edits < MaxEdits
    /\ edits' = edits + 1
    /\ UNCHANGED <<main, events, subVars, fwdVars, handled, sigCh, hangup, asked, loaded, timerVars>>

\* signal.Notify: a signal that finds the channel full is dropped.
Signal(s) ==
    /\ main \in {"post", "run"}
    /\ sigCh' = IF Len(sigCh) < SigCap THEN Append(sigCh, s) ELSE sigCh
    /\ asked' = IF s = "HUP" THEN edits ELSE asked
    /\ UNCHANGED <<main, events, subVars, fwdVars, handled, hangup, edits, loaded, timerVars>>

SignalRecv ==
    /\ Alive /\ ~hangup /\ sigCh # <<>>
    /\ sigCh' = Tail(sigCh)
    /\ \/ Head(sigCh) = "HUP" /\ hangup' = TRUE /\ UNCHANGED main
       \/ Head(sigCh) = "TERM" /\ main' = "exited" /\ UNCHANGED hangup
    /\ UNCHANGED <<events, subVars, fwdVars, handled, edits, asked, loaded, timerVars>>

\* Mutant: a SIGHUP that finds the engine busy is forgotten.
SignalOrDrop ==
    /\ Alive /\ hangup
    /\ TryPost(Reload)
    /\ hangup' = FALSE
    /\ UNCHANGED <<main, subVars, fwdVars, handled, sigCh, edits, asked, loaded, timerVars>>

SignalPost ==
    /\ Alive /\ hangup
    /\ Post(Reload)
    /\ hangup' = FALSE
    /\ UNCHANGED <<main, subVars, fwdVars, handled, sigCh, edits, asked, loaded, timerVars>>

-----------------------------------------------------------------------------
(* Timers.                                                                 *)

\* The tick re-arms its timer when its Post has returned; the interval is longer
\* than a sweep waits in the channel.
Tick ==
    /\ Alive /\ tick
    /\ \A j \in DOMAIN events : events[j].kind # "sweep"
    /\ Post(Own("sweep"))
    /\ UNCHANGED <<main, subVars, fwdVars, handled, sigVars, loaded, timerVars>>

ReconcilePost ==
    /\ Alive /\ reconcile = "armed"
    /\ Post(Own("reconcile"))
    /\ reconcile' = "posted"
    /\ UNCHANGED <<main, subVars, fwdVars, handled, sigVars, loaded, tick>>

-----------------------------------------------------------------------------
Init ==
    /\ main = "init" /\ events = <<>>
    /\ sub = [c \in Chans |-> <<>>] /\ received = [c \in Chans |-> 0] /\ failed = {}
    /\ forwarder = "off" /\ update = Own("none")
    /\ handled = [c \in Chans |-> 0]
    /\ sigCh = <<>> /\ hangup = FALSE /\ edits = 0 /\ asked = -1
    /\ loaded = -1
    /\ tick = FALSE /\ reconcile = "off"

Next ==
    \/ MainStart \/ MainPost \/ Run
    \/ \E c \in Chans : Receive(c) \/ Overflow(c) \/ ForwardRecv(c) \/ ForwardStop(c)
    \/ ForwardPost
    \/ Edit \/ \E s \in {"HUP", "TERM"} : Signal(s)
    \/ SignalRecv \/ SignalPost
    \/ Tick \/ ReconcilePost

Spec == Init /\ [][Next]_vars

\* Goroutines that can run do; senders blocked on a full channel are served in
\* turn, hence strong fairness of the posts that compete for it.
FairSpec ==
    /\ Spec
    /\ WF_vars(MainStart) /\ WF_vars(MainPost) /\ WF_vars(Run) /\ WF_vars(SignalRecv)
    /\ \A c \in Chans : WF_vars(ForwardRecv(c))
    /\ SF_vars(ForwardPost) /\ SF_vars(SignalPost)

-----------------------------------------------------------------------------
(* Properties.                                                             *)

\* The kernel's updates of one subscription are run in order and none is left
\* out, which is what handleNeighEvent and handleLinkEvent rely on.
InOrder == [][\A c \in Chans : handled'[c] \in {handled[c], handled[c] + 1}]_vars

\* main waits in Post for a place in the channel that only main would drain.
Stuck == main = "post" /\ Len(events) = Cap

\* A file edited before a SIGHUP is loaded, even if that signal was dropped
\* because others were pending or the engine's channel was full; unless the
\* daemon never came up.
EditApplied == (asked > loaded) ~> (asked <= loaded \/ main = "exited" \/ Stuck)

\* An update that reached the daemon is handled, unless a subscription failed
\* and took the forwarder with it, or the daemon never came up.
UpdateHandled ==
    \A c \in Chans : (handled[c] < received[c]) ~>
        (handled[c] = received[c] \/ forwarder = "off" \/ main = "exited" \/ Stuck)

-----------------------------------------------------------------------------
(* What comments of the code say of it, and the code does not do.          *)

\* Post: "Safe to call from any goroutine, including from within the engine
\* goroutine itself" (engine.go:19-20): the one that becomes the engine gets
\* past its own Post, and the first Reload is run.
ComesUp == <>(main = "exited" \/ loaded >= 0)

=============================================================================
