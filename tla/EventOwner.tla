----------------------------- MODULE EventOwner -----------------------------
(***************************************************************************)
(* Which generation of a container a process belonged to, told from the    *)
(* process's start time alone: the part of resolveEventGeneration that     *)
(* runs once the event's cgroup is known to be this container's.           *)
(*                                                                         *)
(* A restart keeps the container ID and gives it a new init.  What the     *)
(* session knows of one generation is a record                             *)
(*   pid    init's PID,                                                    *)
(*   start  init's start in clock ticks, as /proc reports it,              *)
(*   alive  the last nanosecond init was seen alive, 0 before the first;   *)
(* an event carries its process's start in nanoseconds and its PID.        *)
(***************************************************************************)
EXTENDS Integers, FiniteSets

CONSTANT NsPerTick  \* nsPerClockTick

ASSUME TickAssumption == NsPerTick \in Nat \ {0}

\* bootNsToTicks and ticksToNs
Tick(ns) == ns \div NsPerTick
TicksToNs(tick) == tick * NsPerTick

WithinOwnStartTick(g, ev) ==
    /\ TicksToNs(g.start) <= ev.ns
    /\ ev.ns < TicksToNs(g.start) + NsPerTick

ProvenToBeInitItself(g, ev) ==
    ev.tgid = g.pid /\ Tick(ev.ns) = g.start

\* Mutant: times are compared in clock ticks.
DirectProof_SameTick(g, ev) ==
    \/ ProvenToBeInitItself(g, ev)
    \/ g.alive > 0 /\ TicksToNs(g.start) <= ev.ns /\ ev.ns <= TicksToNs(Tick(g.alive) + 1)

\* In init's own start tick only init itself is told apart from what ran
\* before it; later, init must have been seen alive at or after the event.
DirectProof(g, ev) ==
    IF WithinOwnStartTick(g, ev)
    THEN ProvenToBeInitItself(g, ev)
    ELSE g.alive > 0 /\ TicksToNs(g.start) <= ev.ns /\ ev.ns <= g.alive

Proven(gens, ev) == {g \in gens : DirectProof(g, ev)}

\* The generations started at or before the event, and the last of a set.
Earlier(gens, ev) == {g \in gens : TicksToNs(g.start) <= ev.ns}
LastStarted(gens) == CHOOSE g \in gens : \A h \in gens : h.start <= g.start

\* The answer: a generation proven to be the owner, one that may still be
\* proven by a liveness check, none yet, or never.
Resolution(gens, ev) ==
    LET best == LastStarted(Earlier(gens, ev))
    IN  IF gens = {} THEN [kind |-> "pending", pid |-> 0]
        ELSE IF Proven(gens, ev) # {}
        THEN [kind |-> "resolved", pid |-> (CHOOSE g \in Proven(gens, ev) : TRUE).pid]
        ELSE IF Earlier(gens, ev) = {} THEN [kind |-> "unresolved", pid |-> 0]
        ELSE IF WithinOwnStartTick(best, ev) \/ best # LastStarted(gens)
        THEN [kind |-> "gap", pid |-> 0]
        ELSE [kind |-> "unconfirmed", pid |-> best.pid]
=============================================================================
