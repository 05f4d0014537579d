-------------------------- MODULE ValidatorSchedule --------------------------
(***************************************************************************)
(* What the governance of a node promises about its validator sets,        *)
(* whatever crashes and restarts happen below: blocks commit one by one,   *)
(* and a commit may schedule one set of at least `Floor` members, at least *)
(* `Delay` views ahead, and only when no scheduled set is still ahead.     *)
(* Hence the set of a view within the delay is never changed.              *)
(***************************************************************************)
EXTENDS Integers, Sequences, FiniteSets, SequencesExt

CONSTANTS Genesis, Delay, Floor

VARIABLES
    now,      \* view of the last committed block
    sched     \* sequence of [from, val]: the set in force from a view on

vars == <<now, sched>>

Init == now = 0 /\ sched = <<[from |-> 0, val |-> Genesis]>>

Unscheduled == Last(sched).from <= now'

Commit ==
    /\ now' = now + 1
    /\ \/ sched' = sched
       \/ /\ Unscheduled
          /\ Front(sched') = sched
          /\ Last(sched').from >= now' + Delay
          /\ Cardinality(DOMAIN Last(sched').val) >= Floor

Spec == Init /\ [][Commit]_vars
==============================================================================
