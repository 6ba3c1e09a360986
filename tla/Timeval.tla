------------------------------ MODULE Timeval -------------------------------
(***************************************************************************)
(* struct timeval as a pair of seconds and microseconds: the comparison    *)
(* and the difference of fde.c, and the sums the programs arm their timers *)
(* with.                                                                   *)
(***************************************************************************)
EXTENDS Integers

CONSTANT Million    \* microseconds in a second

ASSUME TimevalAssumption == Million \in Nat \ {0}

Timeval(sec, usec) == [sec |-> sec, usec |-> usec]

\* What gettimeofday returns.
Times == [sec : Int, usec : 0 .. Million - 1]

\* The instant, in microseconds.
Instant(t) == t.sec * Million + t.usec

\* A slip of timeval_cmp: the microseconds decide.
timeval_cmp_usec(t1, t2) ==
    CASE t1.usec < t2.usec -> -1
      [] t1.usec > t2.usec -> 1
      [] OTHER -> 0

\* -1, 0 or 1.
timeval_cmp(t1, t2) ==
    LET l == IF t1.sec # t2.sec THEN t1.sec ELSE t1.usec
        r == IF t1.sec # t2.sec THEN t2.sec ELSE t2.usec
    IN  CASE l < r -> -1
          [] l > r -> 1
          [] OTHER -> 0

\* usec after now, as the programs compute it: tv_usec may be Million.
Ahead(now, usec) ==
    LET sum == now.usec + usec
    IN  IF sum > Million THEN Timeval(now.sec + 1, sum - Million) ELSE Timeval(now.sec, sum)

\* The sleep of fde_t_get_timeout when the first timer is at t.
Sleep(now, t) ==
    CASE timeval_cmp(now, t) >= 0 -> Timeval(0, 0)
      [] timeval_cmp(now, t) < 0 /\ now.usec > t.usec ->
            Timeval(t.sec - now.sec - 1, t.usec + Million - now.usec)
      [] OTHER -> Timeval(t.sec - now.sec, t.usec - now.usec)
=============================================================================
