---------------------------- MODULE EventRouting ----------------------------
(***************************************************************************)
(* How the Sensor's session loop gives each kernel usage event to the      *)
(* generation it belongs to, and what the generations may claim meanwhile. *)
(*                                                                         *)
(* An event names a cgroup and the start time of its process.  The cgroup  *)
(* may not be classified yet, its container may have no generation yet, or *)
(* the container may have been restarted unnoticed, so events wait: for a  *)
(* discovery pass (pendingRouteEvents), for a liveness check of init       *)
(* (genconfirm.go), for a path from /proc/<pid>/maps (pathresolve.go), for *)
(* the first sample's mount view.  Every queue is bounded, every wait has  *)
(* a time limit.  Events the kernel itself lost arrive as counters, by     *)
(* cgroup or in one fallback counter.  Whatever is given up must cost the  *)
(* right generation its since_start coverage.                              *)
(*                                                                         *)
(* Instances are the container's real runs, in the order they start; the   *)
(* i-th has cgroup i, init PID i and mount namespace i.  Cgroup 0 stands   *)
(* for a cgroup of the host.  The generation of instance i is gen[i] once  *)
(* discovery has registered it.  Events of the host's own root or mount    *)
(* namespace are dropped on receipt and left out, so are the package index *)
(* and all that follows dispatch (see GenerationIndex).  An ended          *)
(* generation's claims are refused by every reader; they are not tracked   *)
(* beyond its end.                                                         *)
(***************************************************************************)
EXTENDS EventOwner, Sequences, SequencesExt

CONSTANTS
    Containers,    \* container IDs
    MaxNs,         \* bound: the boot clock, in nanoseconds
    MaxInstances,  \* bound: container starts
    MaxEvents,     \* bound: events received and losses read
    MaxPendingRouteEvents, MaxPendingLossDeltas,
    MaxConcurrentGenConfirms, MaxQueuedGenConfirms, MaxGenConfirmWaiters,
    MaxConcurrentPathResolves, MaxQueuedPathResolves,
    MaxPendingMountViewEvents

VARIABLES
    now,     \* the boot clock
    inst,    \* the instances so far: container, start, end (0 while it runs)
    s,       \* the session loop's state
    disc     \* the discovery pass under way

vars == <<now, inst, s, disc>>

Instances == 1..MaxInstances
Started == 1..Len(inst)
Running(i) == inst[i].end = 0
Lifetime(i) == inst[i].start..(IF Running(i) THEN now ELSE inst[i].end)
Events == 1..s.n

Idle == [st |-> "idle", ns |-> 0, ok |-> FALSE, item |-> 0, waiters |-> <<>>]
NoGen == [st |-> "none", since |-> FALSE, inc |-> FALSE, alive |-> 0,
          view |-> FALSE, held |-> <<>>, conf |-> Idle]
NoPass == [st |-> "idle", seen |-> {}]

\* An event with what the loop remembers of it: its path; whether its time
\* limit has passed; whether it came before the discovery pass under way and
\* before the last completed one.  fate and own say what became of it and
\* whether its own generation was told.
NewEvent(kind, i, ns, tgid) ==
    [kind |-> kind, cgroup |-> i, ns |-> ns, tgid |-> tgid, path |-> "unknown",
     old |-> FALSE, before |-> FALSE, covered |-> FALSE, fate |-> "open", own |-> FALSE]

Init ==
    /\ now = 1
    /\ inst = <<>>
    /\ s = [n |-> 0, ev |-> [e \in 1..MaxEvents |-> NewEvent("none", 0, 0, 0)],
            route |-> {}, gen |-> [i \in Instances |-> NoGen],
            pend |-> <<>>, loss |-> <<>>, mapsRun |-> <<>>, mapsQ |-> <<>>, confQ |-> <<>>,
            watermark |-> -1]
    /\ disc = NoPass

-----------------------------------------------------------------------------
(* What the loop knows, and the records it changes.                        *)

Registered(z) == {i \in Instances : z.gen[i].st # "none"}
Live(z) == {i \in Instances : z.gen[i].st = "live"}
GensOf(z, c) == {i \in Registered(z) : inst[i].c = c}

\* markCoveragePartial
Downgrade(z, G) ==
    [z EXCEPT !.gen = [i \in Instances |->
        IF i \in G \cap Live(z) THEN [z.gen[i] EXCEPT !.since = FALSE, !.inc = TRUE] ELSE z.gen[i]]]

\* Event e leaves the loop: used, lost to the generations G, missed without
\* anyone charged for it, or no event of a container at all.
Settle(z, e, fate, G) ==
    LET own == z.ev[e].cgroup \in G
        cgroup == IF fate = "host" \/ (fate = "used" /\ own) THEN 0 ELSE z.ev[e].cgroup
    IN  [z EXCEPT !.ev[e] = [NewEvent("none", cgroup, 0, 0) EXCEPT !.fate = fate, !.own = own]]

RecordEventLoss(z, g, e) == Settle(Downgrade(z, {g}), e, "lost", {g})

DowngradeContainerPartial(z, c, e) == Settle(Downgrade(z, GensOf(z, c)), e, "lost", GensOf(z, c))

\* Coverage only: the container's generations stay complete.
RecordContainerGapLoss(z, c, e) ==
    LET marked == [z EXCEPT !.gen = [i \in Instances |->
                      IF i \in GensOf(z, c) \cap Live(z) THEN [z.gen[i] EXCEPT !.since = FALSE] ELSE z.gen[i]]]
    IN  Settle(marked, e, "lost", GensOf(z, c))

\* Mutant: only generations already known are told.
ApplyForcedGapEviction_NowOnly(z, mnt, e) ==
    LET G == {g \in Live(z) : mnt = 0 \/ ~z.gen[g].view \/ g = mnt}
    IN  Settle(Downgrade(z, G), e, "missed", G)

\* A loss that cannot wait for a discovery pass: everyone who could own it is
\* told, and whoever is registered later but started before now as well.
\* mnt is the lost event's mount namespace, 0 when a counter reports it.
ApplyForcedGapEviction(z, mnt, e) ==
    LET G == {g \in Live(z) : mnt = 0 \/ ~z.gen[g].view \/ g = mnt}
    IN  Settle([Downgrade(z, G) EXCEPT !.watermark = IF Tick(now) > @ THEN Tick(now) ELSE @],
               e, "missed", G)

\* The mount namespace an event carries: its instance's, another one for a
\* process of the host, none for a counter.
MntNs(ev) ==
    IF ev.kind = "usage" THEN IF ev.cgroup = 0 THEN MaxInstances + 1 ELSE ev.cgroup ELSE 0

\* resolveEventGeneration.  A counter carries no process start time; its
\* loss goes to the generation of the container that counts as live.
Known(z, i) == [pid |-> i, start |-> Tick(inst[i].start), alive |-> z.gen[i].alive]

LiveGenOf(z, c) ==
    LET L == GensOf(z, c) \cap Live(z)
    IN  IF L = {} THEN [kind |-> "unresolved", pid |-> 0]
        ELSE [kind |-> "resolved", pid |-> CHOOSE g \in L : TRUE]

ResolveEventGeneration(z, e) ==
    LET ev == z.ev[e]
        i == ev.cgroup
    IN  IF i \notin z.route THEN [kind |-> "unresolved", pid |-> 0]
        ELSE IF i = 0 THEN [kind |-> "discard", pid |-> 0]
        ELSE IF ev.kind = "loss" THEN LiveGenOf(z, inst[i].c)
        ELSE Resolution({Known(z, g) : g \in GensOf(z, inst[i].c)}, ev)

-----------------------------------------------------------------------------
(* Dispatch: mount view, path, liveness confirmation, the route queue.     *)
(* luck is what the handler meets: the event's path is in the correlation  *)
(* table or not, its process has init's root or another.                   *)

Luck == {"path", "chroot", "miss"}

DispatchUsageEvent(z, g, e, luck) ==
    IF ~z.gen[g].view
    THEN IF Len(z.gen[g].held) >= MaxPendingMountViewEvents
         THEN RecordEventLoss(z, g, e)
         ELSE [z EXCEPT !.gen[g].held = Append(@, e),
                        !.ev[e] = NewEvent("usage", @.cgroup, 0, 0)]
    ELSE IF luck[e] = "chroot"
    THEN Settle([z EXCEPT !.gen[g].inc = TRUE], e, "lost", {g})
    ELSE Settle(z, e, "used", {g})

SubmitPathResolveRequest(z, g, e) ==
    IF Len(z.mapsRun) < MaxConcurrentPathResolves
    THEN [z EXCEPT !.mapsRun = Append(@, [e |-> e, g |-> g])]
    ELSE IF Len(z.mapsQ) < MaxQueuedPathResolves
    THEN [z EXCEPT !.mapsQ = Append(@, [e |-> e, g |-> g])]
    ELSE RecordEventLoss(z, g, e)

DispatchRoutedEvent(z, g, e, luck) ==
    CASE z.ev[e].path = "lost" -> RecordEventLoss(z, g, e)
      [] z.ev[e].path = "found" \/ (z.ev[e].path = "unknown" /\ luck[e] # "miss") -> DispatchUsageEvent(z, g, e, luck)
      [] OTHER -> SubmitPathResolveRequest(z, g, e)

ConfirmsInFlight(z) == Cardinality({g \in Instances : z.gen[g].conf.st \in {"sent", "read"}})

SubmitGenConfirmRequest(z, g, e) ==
    LET conf == z.gen[g].conf
    IN  IF conf.st # "idle"
        THEN IF Len(conf.waiters) >= MaxGenConfirmWaiters
             THEN DowngradeContainerPartial(z, inst[g].c, e)
             ELSE [z EXCEPT !.gen[g].conf.waiters = Append(@, e)]
        ELSE IF ConfirmsInFlight(z) < MaxConcurrentGenConfirms
        THEN [z EXCEPT !.gen[g].conf = [Idle EXCEPT !.st = "sent", !.item = e]]
        ELSE IF Len(z.confQ) < MaxQueuedGenConfirms
        THEN [z EXCEPT !.gen[g].conf = [Idle EXCEPT !.st = "queued", !.item = e],
                       !.confQ = Append(@, g)]
        ELSE DowngradeContainerPartial(z, inst[g].c, e)

\* The evicted entry is resolved once more before it is given up.
GiveUpOldest(z, e) ==
    LET r == ResolveEventGeneration(z, e)
    IN  CASE r.kind = "discard" -> Settle(z, e, "host", {})
          [] r.kind = "gap" -> RecordContainerGapLoss(z, inst[z.ev[e].cgroup].c, e)
          [] r.kind \in {"resolved", "unconfirmed"} -> RecordEventLoss(z, r.pid, e)
          [] OTHER -> ApplyForcedGapEviction(z, MntNs(z.ev[e]), e)

QueuePendingRouteEvent(z, e) ==
    LET room == IF Len(z.pend) < MaxPendingRouteEvents THEN z
                ELSE GiveUpOldest([z EXCEPT !.pend = Tail(@)], Head(z.pend))
    IN  [room EXCEPT !.pend = Append(@, e)]

\* resolveEventGeneration records a gap loss itself, before it answers.
RouteEvent(z, r, e, luck) ==
    CASE r.kind = "resolved" -> DispatchRoutedEvent(z, r.pid, e, luck)
      [] r.kind = "discard" -> Settle(z, e, "host", {})
      [] r.kind = "gap" -> RecordContainerGapLoss(z, inst[z.ev[e].cgroup].c, e)
      [] r.kind = "unconfirmed" -> SubmitGenConfirmRequest(z, r.pid, e)
      [] OTHER -> QueuePendingRouteEvent(z, e)

-----------------------------------------------------------------------------
(* Expiry: who is charged for an event nobody could place in time.         *)

\* Live generations whose confirmed mount namespace is the event's.
ViewMatches(z, e) ==
    {g \in Live(z) : z.gen[g].view /\ g = MntNs(z.ev[e])}

ClassifyUnattributedExpiry(z, r, e) ==
    IF r.kind \in {"resolved", "unconfirmed"} THEN "known"
    ELSE IF Cardinality(ViewMatches(z, e)) = 1 THEN "view"
    ELSE IF z.ev[e].covered THEN "nobody"
    ELSE "wait"

FinalizeRoutedItem(z, e, luck) ==
    LET r == ResolveEventGeneration(z, e)
        verdict == ClassifyUnattributedExpiry(z, r, e)
    IN  CASE r.kind \in {"discard", "gap"} \/ ~z.ev[e].old \/ verdict = "wait" -> RouteEvent(z, r, e, luck)
          [] verdict = "known" -> RecordEventLoss(z, r.pid, e)
          [] verdict = "view" -> Settle(Downgrade(z, ViewMatches(z, e)), e, "lost", ViewMatches(z, e))
          [] OTHER -> Settle(z, e, "missed", {})

FinalizeAll(z, items, luck) ==
    FoldLeft(LAMBDA y, e : FinalizeRoutedItem(y, e, luck), z, items)

\* Time limits pass unseen: a handler that looks at the events E finds some of
\* them "late", in any order (receivedAt stays what it was from queue to
\* queue, but an event held for the mount view is stamped anew), and meets one
\* of L with the others.
Waiting(e) == s.ev[e].kind = "usage" /\ s.ev[e].fate = "open" /\ ~s.ev[e].old

Lucks(E, L) ==
    {luck \in [E -> L \cup {"late"}] : \A e \in E : s.ev[e].old => luck[e] = "late"}

Aged(luck) ==
    [s EXCEPT !.ev = [e \in 1..MaxEvents |->
        IF e \in DOMAIN luck /\ luck[e] = "late" THEN [@[e] EXCEPT !.old = TRUE] ELSE @[e]]]

Held == UNION {ToSet(s.gen[g].held) : g \in Instances}

\* Mutant: the queue is not emptied before its entries are routed anew.
RetryPendingRouteEvents_KeepsQueue(z, luck) == FinalizeAll(z, z.pend, luck)

RetryPendingRouteEvents(z, luck) ==
    FinalizeAll([z EXCEPT !.pend = <<>>], z.pend, luck)

-----------------------------------------------------------------------------
(* Events come in.  An event may be read long after its process ran.       *)

Arrive(ev) == [s EXCEPT !.n = @ + 1, !.ev[s.n + 1] = ev]

ApplyUsageEvent(ev) ==
    /\ s.n < MaxEvents
    /\ LET z == Arrive(ev)
           r == ResolveEventGeneration(z, z.n)
       IN  \E luck \in [{z.n} -> IF r.kind = "resolved" THEN Luck ELSE {"path"}] :
             s' = RouteEvent(z, r, z.n, luck)
    /\ UNCHANGED <<now, inst, disc>>

\* A process of instance i, init itself among them.
ContainerEvent(i) ==
    \E ns \in Lifetime(i) : \E tgid \in IF ns = inst[i].start THEN {0, i} ELSE {0} :
      ApplyUsageEvent(NewEvent("usage", i, ns, tgid))

\* A process of the host; its start time is never looked at.
HostEvent == ApplyUsageEvent(NewEvent("usage", 0, 0, 0))

\* A cgroup_mkdir event with a usable path; any one of them has the whole
\* route queue tried again.
ApplyCgroupMkdirEvent(i) ==
    /\ i \notin s.route /\ s.gen[i].st # "ended"
    /\ \E luck \in Lucks(ToSet(s.pend), Luck) :
         s' = RetryPendingRouteEvents([Aged(luck) EXCEPT !.route = @ \cup {i}], luck)
    /\ UNCHANGED <<now, inst, disc>>

-----------------------------------------------------------------------------
(* The two pools.                                                          *)

\* confirmGenerationAlive: the clock is read, then /proc/<pid>.
ConfirmGenerationAlive(g) ==
    /\ s.gen[g].conf.st = "sent"
    /\ s' = [s EXCEPT !.gen[g].conf = [@ EXCEPT !.st = "read", !.ok = Running(g), !.ns = IF Running(g) THEN now ELSE 0]]
    /\ UNCHANGED <<now, inst, disc>>

StartNextConfirm(z) ==
    IF z.confQ = <<>> THEN z
    ELSE [z EXCEPT !.confQ = Tail(@), !.gen[Head(z.confQ)].conf.st = "sent"]

SeenAlive(z, g, ns) == [z EXCEPT !.gen[g].alive = IF ns > @ THEN ns ELSE @]

RequeueUnconfirmed(z, g, items) ==
    FoldLeft(LAMBDA y, e : IF y.ev[e].old THEN DowngradeContainerPartial(y, inst[g].c, e)
                           ELSE QueuePendingRouteEvent(y, e), z, items)

ApplyGenConfirmResult(g) ==
    LET conf == s.gen[g].conf
        items == <<conf.item>> \o conf.waiters
    IN  /\ conf.st = "read"
        /\ \E luck \in Lucks(ToSet(items), Luck) :
             LET z == StartNextConfirm([Aged(luck) EXCEPT !.gen[g].conf = Idle])
             IN  s' = IF conf.ok THEN FinalizeAll(SeenAlive(z, g, conf.ns), items, luck)
                      ELSE RequeueUnconfirmed(z, g, items)
        /\ UNCHANGED <<now, inst, disc>>

\* resolveMapsPath finds the path only while the process still runs; the
\* answer is routed anew, as a path or as a loss.
ApplyPathResolveResult(k) ==
    LET e == s.mapsRun[k].e
        run == RemoveAt(s.mapsRun, k)
        FreeSlot(z) == IF s.mapsQ = <<>> THEN [z EXCEPT !.mapsRun = run]
                       ELSE [z EXCEPT !.mapsRun = Append(run, Head(s.mapsQ)), !.mapsQ = Tail(@)]
    IN  /\ \E path \in {"lost"} \cup (IF Running(s.ev[e].cgroup) THEN {"found"} ELSE {}),
              luck \in Lucks({e}, {"path", "chroot"}) :
             s' = FinalizeRoutedItem([FreeSlot(Aged(luck)) EXCEPT !.ev[e].path = path], e, luck)
        /\ UNCHANGED <<now, inst, disc>>

-----------------------------------------------------------------------------
(* Samples confirm the mount view and that init is alive.                  *)

DrainPendingMountViewEvents(z, g, luck) ==
    FoldLeft(LAMBDA y, e : DispatchUsageEvent(y, g, e, luck),
             [z EXCEPT !.gen[g].held = <<>>, !.gen[g].view = TRUE],
             z.gen[g].held)

\* A sample's answer, taken while init ran; init may be gone by now.
ApplySampleResult(g) ==
    /\ s.gen[g].st = "live"
    /\ \E luck \in [ToSet(s.gen[g].held) -> {"path", "chroot"}] :
         s' = SeenAlive(DrainPendingMountViewEvents(s, g, luck), g, IF Running(g) THEN now ELSE inst[g].end)
    /\ UNCHANGED <<now, inst, disc>>

-----------------------------------------------------------------------------
(* Discovery: a pass scans /proc in a goroutine, the loop applies it.      *)

BeginPass ==
    /\ disc' = [st |-> "scanned", seen |-> {i \in Started : Running(i)}]
    /\ s' = [s EXCEPT !.ev = [e \in 1..MaxEvents |->
                [@[e] EXCEPT !.before = e \in Events \ Held /\ s.ev[e].fate = "open" /\ ~s.ev[e].covered]]]
    /\ UNCHANGED <<now, inst>>

StartDiscovery == disc.st = "idle" /\ BeginPass

\* An unreadable /proc, or a pass taken for stuck: it changes nothing, and the
\* next one begins.
DiscoveryFails == disc.st = "scanned" /\ BeginPass

PassOver(z) == [z EXCEPT !.ev = [e \in 1..MaxEvents |-> [@[e] EXCEPT !.before = FALSE]]]

\* attachedAtBootTicks is before every instance of this model.
InitialEventsCoverage(z, i) ==
    LET protected == Tick(inst[i].start) <= z.watermark
    IN  [NoGen EXCEPT !.st = "live", !.since = ~protected, !.inc = protected]

EndGenerations(z, G) ==
    [z EXCEPT !.gen = [i \in Instances |->
        IF i \in G THEN [z.gen[i] EXCEPT !.st = "ended", !.since = FALSE, !.inc = FALSE] ELSE z.gen[i]]]

\* The pass's containers: a new init ends the old generation and begins one.
RegisterSeen(z, seen) ==
    LET new == {i \in seen : z.gen[i].st = "none"}
        replaced == {g \in Live(z) \ seen : \E i \in seen : inst[i].c = inst[g].c}
        y == EndGenerations(z, replaced)
    IN  [y EXCEPT !.gen = [i \in Instances |-> IF i \in new THEN InitialEventsCoverage(z, i) ELSE y.gen[i]]]

\* Containers that are gone: their generations end, their cgroups are forgotten.
EndGone(z, seen, live) ==
    LET gone == {g \in live : ~\E i \in seen : inst[i].c = inst[g].c}
    IN  [EndGenerations(z, gone) EXCEPT
           !.route = {i \in @ : i = 0 \/ ~\E g \in gone : inst[g].c = inst[i].c}]

ReconcileGenerations(z, seen, luck) ==
    EndGone(RetryPendingRouteEvents(RegisterSeen(z, seen), luck), seen, Live(z))

ExpireHeld(z, g) ==
    FoldLeft(LAMBDA y, e : RecordEventLoss(y, g, e),
             [z EXCEPT !.gen[g].held = SelectSeq(@, LAMBDA e : ~z.ev[e].old)],
             SelectSeq(z.gen[g].held, LAMBDA e : z.ev[e].old))

\* Mutant: ended generations are passed over.
ExpirePendingMountViewEvents_LiveOnly(z) ==
    FoldLeft(LAMBDA y, g : IF g \in Live(y) THEN ExpireHeld(y, g) ELSE y, z, [i \in Instances |-> i])

ExpirePendingMountViewEvents(z) == FoldLeft(ExpireHeld, z, [i \in Instances |-> i])

\* The whole pass: cgroups, generations, and dispatchWork's retry and expiry.
ApplyDiscoveryResult ==
    /\ disc.st = "scanned"
    /\ \E luck \in Lucks(ToSet(s.pend) \cup Held, Luck) :
         LET z == [Aged(luck) EXCEPT !.route = @ \cup disc.seen \cup {0},
                            !.ev = [e \in 1..MaxEvents |-> [@[e] EXCEPT !.covered = s.ev[e].covered \/ s.ev[e].before]]]
             y == ReconcileGenerations(z, disc.seen, luck)
         IN  s' = PassOver(ExpirePendingMountViewEvents(RetryPendingRouteEvents(y, luck)))
    /\ disc' = NoPass
    /\ UNCHANGED <<now, inst>>

-----------------------------------------------------------------------------
(* The kernel's loss counters, read with every snapshot.                   *)

RetryPendingLossDeltas(z) ==
    FoldLeft(LAMBDA y, e :
               LET r == ResolveEventGeneration(y, e)
                   verdict == ClassifyUnattributedExpiry(y, r, e)
               IN  CASE verdict = "known" -> RecordEventLoss(y, r.pid, e)
                     [] verdict = "wait" -> [y EXCEPT !.loss = Append(@, e)]
                     [] OTHER -> Settle(y, e, "missed", {}),
             [z EXCEPT !.loss = <<>>], z.loss)

QueuePendingLossDelta(z, e) ==
    LET oldest == Head(z.loss)
        rest == [z EXCEPT !.loss = Tail(@)]
        r == ResolveEventGeneration(rest, oldest)
        room == CASE Len(z.loss) < MaxPendingLossDeltas -> z
                  [] r.kind = "discard" -> Settle(rest, oldest, "host", {})
                  [] r.kind = "resolved" -> RecordEventLoss(rest, r.pid, oldest)
                  [] OTHER -> ApplyForcedGapEviction(rest, 0, oldest)
    IN  [room EXCEPT !.loss = Append(@, e)]

AttributeEventLossDelta(z, e) ==
    LET r == ResolveEventGeneration(z, e)
    IN  CASE r.kind = "resolved" -> RecordEventLoss(z, r.pid, e)
          [] r.kind = "discard" -> Settle(z, e, "host", {})
          [] OTHER -> QueuePendingLossDelta(z, e)

\* A snapshot with nothing new in the counters.
BuildSnapshot ==
    /\ s.loss # <<>>
    /\ s' = RetryPendingLossDeltas(s)
    /\ UNCHANGED <<now, inst, disc>>

\* The counter of cgroup i has grown since the last snapshot.
CgroupLoss(i) ==
    /\ s.n < MaxEvents
    /\ LET z == RetryPendingLossDeltas(Arrive(NewEvent("loss", i, 0, 0)))
       IN  s' = AttributeEventLossDelta(z, z.n)
    /\ UNCHANGED <<now, inst, disc>>

\* The fallback counter has: an event of instance i was lost, of which the
\* session learns no more than that.
FallbackLoss(i) ==
    /\ s.n < MaxEvents
    /\ LET z == RetryPendingLossDeltas(Arrive(NewEvent("fallback", i, 0, 0)))
       IN  s' = ApplyForcedGapEviction(z, 0, z.n)
    /\ UNCHANGED <<now, inst, disc>>

-----------------------------------------------------------------------------
(* Containers and the clock.                                               *)

ClockTick ==
    /\ now < MaxNs /\ inst # <<>>
    /\ now' = now + 1
    /\ UNCHANGED <<inst, s, disc>>

\* A restart takes longer than one clock tick.
StartContainer(c) ==
    /\ Len(inst) < MaxInstances
    /\ \A i \in Started : inst[i].c = c =>
         ~Running(i) /\ now > inst[i].end /\ Tick(now) > Tick(inst[i].start)
    /\ inst' = Append(inst, [c |-> c, start |-> now, end |-> 0])
    /\ UNCHANGED <<now, s, disc>>

StopContainer(i) ==
    /\ Running(i)
    /\ inst' = [inst EXCEPT ![i].end = now]
    /\ UNCHANGED <<now, s, disc>>

Delivered ==
    \/ \E i \in Started : ContainerEvent(i) \/ ApplyCgroupMkdirEvent(i)
    \/ HostEvent
    \/ \E i \in Started : CgroupLoss(i) \/ FallbackLoss(i)

LoopStep ==
    \/ \E g \in Instances : ConfirmGenerationAlive(g)
    \/ \E g \in Instances : ApplyGenConfirmResult(g)
    \/ \E k \in DOMAIN s.mapsRun : ApplyPathResolveResult(k)
    \/ \E g \in Instances : ApplySampleResult(g)
    \/ StartDiscovery \/ DiscoveryFails \/ ApplyDiscoveryResult
    \/ BuildSnapshot

World ==
    \/ ClockTick
    \/ \E c \in Containers : StartContainer(c)
    \/ \E i \in Started : StopContainer(i)

Next == Delivered \/ LoopStep \/ World

Spec == Init /\ [][Next]_vars

\* What the session's own tickers and goroutines guarantee: every worker
\* answers and its answer is applied, passes begin and not every one fails,
\* snapshots are built, and no event is found within its time limit for ever.
\* Each line is weak fairness (strong, for passes that may fail) of one step,
\* said by the condition the step ends.
Fairness ==
    /\ \A g \in Instances : []<>(s.gen[g].conf.st # "sent") /\ []<>(s.gen[g].conf.st # "read")
    /\ []<>(s.mapsRun = <<>>) \/ []<><<~IsPrefix(s.mapsRun, s'.mapsRun)>>_vars
    /\ []<>(disc.st = "scanned") /\ []<>(disc.st = "idle")
    /\ []<>(\A e \in ToSet(s.loss) : ClassifyUnattributedExpiry(s, ResolveEventGeneration(s, e), e) = "wait")
    /\ \A e \in 1..MaxEvents : []<>~Waiting(e)

LiveSpec == Spec /\ Fairness

-----------------------------------------------------------------------------
(* What a snapshot built now would say of a generation.                    *)

\* Mutant: events of known cgroups hold nobody back.
PendingRouteEventGating_UnknownOnly(g) ==
    \E e \in ToSet(s.pend) :
      s.ev[e].cgroup \notin s.route /\ (~s.gen[g].view \/ MntNs(s.ev[e]) = g)

\* An event still on its way that may be g's.
PendingRouteEventGating(g) ==
    \E e \in ToSet(s.pend) :
      LET i == s.ev[e].cgroup
      IN  IF i \in s.route THEN i # 0 /\ inst[i].c = inst[g].c
          ELSE ~s.gen[g].view \/ MntNs(s.ev[e]) = g

OutstandingMaps(g) == \E r \in ToSet(s.mapsRun \o s.mapsQ) : r.g = g

PublishedIncomplete(g) ==
    \/ s.gen[g].inc \/ s.gen[g].held # <<>> \/ s.gen[g].conf.st # "idle"
    \/ OutstandingMaps(g)
    \/ s.gen[g].st = "live" /\ (PendingRouteEventGating(g) \/ s.loss # <<>>)

\* The claim a reader may build "not observed" on.
ClaimsAll(g) == s.gen[g].st = "live" /\ s.gen[g].since /\ ~PublishedIncomplete(g)

Own(g) == {e \in Events : s.ev[e].cgroup = g}

-----------------------------------------------------------------------------
(* Properties.                                                             *)

\* Where the loop keeps event e while it is not settled.
Places(e) ==
    {<<"pend", k>> : k \in {k \in DOMAIN s.pend : s.pend[k] = e}}
    \cup {<<"loss", k>> : k \in {k \in DOMAIN s.loss : s.loss[k] = e}}
    \cup {<<"maps", k>> : k \in {k \in DOMAIN s.mapsRun : s.mapsRun[k].e = e}}
    \cup {<<"mapsQ", k>> : k \in {k \in DOMAIN s.mapsQ : s.mapsQ[k].e = e}}
    \cup UNION {{<<"held", g, k>> : k \in {k \in DOMAIN s.gen[g].held : s.gen[g].held[k] = e}} : g \in Instances}
    \cup {<<"item", g>> : g \in {g \in Instances : s.gen[g].conf.st # "idle" /\ s.gen[g].conf.item = e}}
    \cup UNION {{<<"waits", g, k>> : k \in {k \in DOMAIN s.gen[g].conf.waiters : s.gen[g].conf.waiters[k] = e}}
                : g \in Instances}

(* No event is forgotten or kept twice: one that is not settled is in one  *)
(* queue, pool or waiting list of the loop, one that is settled in none,   *)
(* however often the handlers pass it on to each other (routeEvent,        *)
(* finalizeRoutedItem, applyGenConfirmResult, applyPathResolveResult).     *)
KeptOnce ==
    \A e \in Events : Cardinality(Places(e)) = IF s.ev[e].fate = "open" THEN 1 ELSE 0

(* resolveEventGeneration never takes a guess for a proof: whatever events *)
(* of a restarted container arrive late, and whatever the liveness checks  *)
(* and samples answered before the restart was noticed, evidence is only   *)
(* recorded, or held, for the run of the container it came from.           *)
UsedByItsOwner ==
    \A e \in Events :
      /\ s.ev[e].fate = "used" => s.ev[e].own
      /\ \A g \in Instances : e \in ToSet(s.gen[g].held) => g = s.ev[e].cgroup

\* Settled against the container's other generations before its own was known.
Astray(e) ==
    s.ev[e].fate = "lost" /\ ~s.ev[e].own

(* A live generation that says since_start and complete has lost no event  *)
(* of its own: one given up at a cap (applyForcedGapEviction), on expiry   *)
(* (classifyUnattributedExpiry), in a pool or a kernel counter has cost it *)
(* the claim, even when it was registered only afterwards.  Left out are   *)
(* events charged to the run before a restart nobody had noticed; see      *)
(* SinceStartMeansSeen.                                                    *)
LossWithdrawsClaim ==
    \A g \in Instances : ClaimsAll(g) =>
      \A e \in Own(g) : s.ev[e].fate \in {"open", "used"} \/ Astray(e)

(* While an event of its own is still on its way a generation does not     *)
(* publish that it is complete (pendingRouteEventGating, toEvidence); left *)
(* out are events that wait for the liveness check of the run before.      *)
PendingWithdrawsClaim ==
    \A g \in Instances : ClaimsAll(g) =>
      \A e \in Own(g) : s.ev[e].fate # "open" \/ \E p \in Places(e) : p[1] \in {"item", "waits"} /\ p[2] # g

(* Every event and every loss comes to an end, so that the generation it   *)
(* keeps incomplete can be complete again: however often it is queued,     *)
(* retried and handed from pool to pool, and whether or not its process,   *)
(* its container or its generation still exist (pendingRouteEventTTL,      *)
(* pendingMountViewEventTTL and the discovery gate together).              *)
EverySettles ==
    \A e \in 1..MaxEvents : (e \in Events) ~> (e \in Events /\ s.ev[e].fate # "open")

(* What CoverageSinceStart's comment says: attached before the generation  *)
(* started, no losses since.  It does not hold: resolveEventGeneration     *)
(* charges a counter, and an expired event, of a restarted container to    *)
(* the run still counted as live, and the new run is registered with       *)
(* since_start afterwards.  LossWithdrawsClaim is what does hold.          *)
SinceStartMeansSeen ==
    \A g \in Instances : ClaimsAll(g) =>
      \A e \in Own(g) : s.ev[e].fate \in {"open", "used"}

(* What resolveEventGeneration's comment on a gap says: once a later       *)
(* generation is known, an earlier one is never seen alive any later.  It  *)
(* does not hold: applyGenConfirmResult takes the answer of a check that   *)
(* was under way.  An event given up for the gap meanwhile was one that    *)
(* this answer would have placed; it is counted as lost all the same.      *)
ReplacedSeenNoLater ==
    [][\A i, j \in Registered(s) :
         inst[i].c = inst[j].c /\ i < j => s'.gen[i].alive = s.gen[i].alive]_vars

(* What does hold: of a generation that has been replaced no check is      *)
(* begun, and only the good answer of one under way moves the last moment  *)
(* it was seen alive.                                                      *)
OnlyLateAnswersCount ==
    [][\A i, j \in Registered(s) : inst[i].c = inst[j].c /\ i < j =>
         /\ s.gen[i].conf.st = "idle" => s'.gen[i].conf.st = "idle"
         /\ \/ s'.gen[i].alive = s.gen[i].alive
            \/ s.gen[i].conf.st = "read" /\ s.gen[i].conf.ok]_vars
=============================================================================
