------------------------------ MODULE EventApi ------------------------------
(***************************************************************************)
(* What the event layer (fde.h) promises its users, without saying how:    *)
(* one thread owns a set of events; an event is delivered only while it is *)
(* allocated and active; a one-shot event is inactive by the time its      *)
(* callback runs; a timer is never delivered before its time; and only one *)
(* callback runs at a time.  Fde implements this specification.            *)
(***************************************************************************)
EXTENDS Naturals

CONSTANTS Event,    \* the struct fde objects an owner may hold
          Timer,    \* those of type FDE_T_TIMER
          Persist,  \* those created with FDE_F_PERSIST
          Time,     \* the instants of the clock, a set of naturals
          None      \* no event

VARIABLES alive,    \* events allocated by fde_create and not yet freed
          active,   \* events with is_active set
          tv,       \* the time each timer was armed for
          clock,    \* wall-clock time
          running   \* the event whose callback is executing, or None

vars == <<alive, active, tv, clock, running>>

Init == /\ alive = {}
        /\ active = {}
        /\ tv = [f \in Event |-> 0]
        /\ clock \in Time
        /\ running = None

Create(f) == /\ f \notin alive
             /\ alive' = alive \cup {f}
             /\ tv' = [tv EXCEPT ![f] = 0]
             /\ UNCHANGED <<active, clock, running>>

Free(f) == /\ f \in alive
           /\ alive' = alive \ {f}
           /\ active' = active \ {f}
           /\ UNCHANGED <<tv, clock, running>>

\* A timer takes its time as it is armed; no armed event changes its time.
Arm(f, t) == /\ f \in alive \ active
             /\ active' = active \cup {f}
             /\ tv' = [tv EXCEPT ![f] = t]
             /\ UNCHANGED <<alive, clock, running>>

Add(f) == f \notin Timer /\ Arm(f, tv[f])

Disarm(f) == /\ f \in active
             /\ active' = active \ {f}
             /\ UNCHANGED <<alive, tv, clock, running>>

Fire(f) == /\ running = None
           /\ f \in active \cap alive
           /\ f \in Timer => tv[f] <= clock
           /\ running' = f
           /\ active' = IF f \in Persist THEN active ELSE active \ {f}
           /\ UNCHANGED <<alive, tv, clock>>

Return == /\ running # None
          /\ running' = None
          /\ UNCHANGED <<alive, active, tv, clock>>

Tick == /\ clock' \in Time
        /\ clock' > clock
        /\ UNCHANGED <<alive, active, tv, running>>

Next == \/ \E f \in Event : \/ Create(f) \/ Free(f) \/ Add(f)
                            \/ Disarm(f) \/ Fire(f)
        \/ \E f \in Timer, t \in Time : Arm(f, t)
        \/ Return
        \/ Tick

Spec == Init /\ [][Next]_vars
=============================================================================
