---------------------------- MODULE Generations ----------------------------
(***************************************************************************)
(* The generations a Sensor session remembers.  A generation is one life   *)
(* of a container: a discovery pass registers it when it first sees its    *)
(* init process, ends it when the process is gone, and forgets it once it  *)
(* has been ended for endedRetention.  Time is counted in passes, the only *)
(* steps that look at the clock here.                                      *)
(***************************************************************************)
EXTENDS Naturals, FiniteSets

CONSTANTS
    Gens,       \* every generation the session ever meets
    Retain,     \* endedRetention, in passes
    MayEnd      \* whether containers end

ASSUME GenerationsAssumption ==
    IsFiniteSet(Gens) /\ Retain \in Nat /\ MayEnd \in BOOLEAN

VARIABLES
    status,     \* "unseen", "live", "ended" or "pruned"
    endedFor    \* passes since the generation ended

generationVars == <<status, endedFor>>

GenerationsInit ==
    /\ status = [g \in Gens |-> "unseen"]
    /\ endedFor = [g \in Gens |-> 0]

WithStatus(st, s) == {g \in Gens : st[g] = s}

(* What a pass can find: the live containers it knows with some newly       *)
(* started and, if containers end, some gone.                               *)
Sightings ==
    {(WithStatus(status, "live") \ gone) \cup new :
        gone \in SUBSET (IF MayEnd THEN WithStatus(status, "live") ELSE {}),
        new \in SUBSET WithStatus(status, "unseen")}

(* reconcileGenerations *)
Reconciled(cur) ==
    [g \in Gens |->
        IF status[g] = "unseen" /\ g \in cur THEN "live"
        ELSE IF status[g] = "live" /\ g \notin cur THEN "ended"
        ELSE status[g]]

(* reconcileGenerations, then pruneEndedGenerations at the end of the pass. *)
Turnover(cur) ==
    /\ endedFor' = [g \in Gens |-> IF status[g] = "ended" THEN endedFor[g] + 1 ELSE 0]
    /\ status' = [g \in Gens |-> IF endedFor'[g] > Retain THEN "pruned" ELSE Reconciled(cur)[g]]
=============================================================================
