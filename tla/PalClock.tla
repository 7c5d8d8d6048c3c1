------------------------------ MODULE PalClock ------------------------------
(***************************************************************************)
(* The deadline of one exo_op slot against the clock of a platform layer.  *)
(* On the GT202, exopal_get_time builds microseconds from the MQX elapsed  *)
(* time as (SECONDS * 1000000) + (MILLISECONDS * 1000) in 32-bit unsigned  *)
(* arithmetic, so its result wraps.  On POSIX it reads gettimeofday, a     *)
(* wall clock that settimeofday or NTP may step either way.  The engine    *)
(* (exo_process_active_ops) stores a uint64 deadline now + 4000000 and     *)
(* fails a read or write once deadline <= now; subscriptions, with their   *)
(* 120 s timer, are left out.  The clock is scaled down: Width bits instead *)
(* of 32, MsPerSec milliseconds per second, UsPerMs microseconds per       *)
(* millisecond.  ExoSystem abstracts all of this to relative timers; this  *)
(* module keeps the absolute arithmetic of the code.                       *)
(***************************************************************************)
EXTENDS Integers

CONSTANTS
  Width,         \* bits of the unsigned int the product is computed in (32)
  MsPerSec,      \* MILLISECONDS per SECONDS (1000)
  UsPerMs,       \* microseconds per millisecond (1000)
  ReqTimeoutUs,  \* the request deadline, in microseconds (4000000)
  MaxSecs,       \* bound on the elapsed SECONDS explored
  Pals,          \* the platform layers whose clock is explored
  WallAtBoot,    \* POSIX: gettimeofday at boot, in microseconds
  StepUs,        \* POSIX: the size of one step of the wall clock
  MaxSteps       \* POSIX: bound on the steps of the wall clock

UsPerSec == MsPerSec * UsPerMs

VARIABLES
  pal,       \* the platform layer the program is built with
  offset,    \* POSIX: gettimeofday minus the time elapsed since boot
  steps,     \* POSIX: how often the wall clock has been stepped
  secs,      \* seconds since boot (ts.SECONDS of _time_get_elapsed)
  msecs,     \* and milliseconds (ts.MILLISECONDS)
  polled,    \* exo_operate has run since the clock last advanced
  state,     \* op.state of the slot
  type,      \* op.type of the slot
  timeout,   \* op.timeout, a uint64 deadline in microseconds
  armedAt    \* true elapsed microseconds when the deadline was set (history)

vars == <<pal, offset, steps, secs, msecs, polled, state, type, timeout, armedAt>>
\* The platform and its wall clock, which only Init and StepClock set.
clock == <<pal, offset, steps>>

States == {"Null", "New", "Pending", "Success", "Error"}
Types == {"Read", "Write"}

\* Microseconds really elapsed since boot; what a clock that did not wrap
\* would return.
Elapsed == secs * UsPerSec + msecs * UsPerMs

\* exopal_get_time.  GT202: both products and their sum are unsigned int,
\* so the result is reduced modulo 2^Width before it widens to uint64.
\* POSIX: tv_sec * (uint64_t)1000000 + tv_usec of the wall clock.
GetTime ==
  CASE pal = "gt202" -> (secs * UsPerSec + msecs * UsPerMs) % (2 ^ Width)
    [] pal = "posix" -> Elapsed + offset

TypeOK ==
  /\ pal \in Pals /\ offset \in Int /\ steps \in 0..MaxSteps
  /\ secs \in 0..MaxSecs /\ msecs \in 0..(MsPerSec - 1)
  /\ polled \in BOOLEAN
  /\ state \in States /\ type \in Types \cup {"Null"}
  /\ timeout \in Nat /\ armedAt \in Nat

\* Boot: the elapsed time at zero, the slot empty (exo_op_init sets
\* timeout 0).
Init ==
  /\ pal \in Pals /\ offset = WallAtBoot /\ steps = 0
  /\ secs = 0 /\ msecs = 0
  /\ polled = FALSE
  /\ state = "Null" /\ type = "Null"
  /\ timeout = 0 /\ armedAt = 0

\* The elapsed time advances by a millisecond; exo_operate has run at
\* least once in the last one (the caller polls in a tight loop).
Tick ==
  /\ polled
  /\ secs < MaxSecs \/ msecs < MsPerSec - 1
  /\ IF msecs = MsPerSec - 1
       THEN secs' = secs + 1 /\ msecs' = 0
       ELSE secs' = secs /\ msecs' = msecs + 1
  /\ polled' = FALSE
  /\ UNCHANGED <<pal, offset, steps, state, type, timeout, armedAt>>

\* POSIX: the wall clock is set back or forward while the program runs.
StepClock ==
  /\ pal = "posix"
  /\ steps < MaxSteps
  /\ \E d \in {-StepUs, StepUs} :
       /\ Elapsed + offset + d >= 0
       /\ offset' = offset + d
  /\ steps' = steps + 1
  /\ UNCHANGED <<pal, secs, msecs, polled, state, type, timeout, armedAt>>

\* exo_read or exo_write stages the slot (exo_op_init
\* clears the deadline).
Stage ==
  /\ state = "Null"
  /\ \E t \in Types : type' = t
  /\ state' = "New"
  /\ timeout' = 0
  /\ UNCHANGED <<clock, secs, msecs, polled, armedAt>>

\* exo_process_active_ops for the slot.  A new request that is sent gets
\* the deadline exopal_get_time() + 4000000 in uint64; a failed send leaves
\* it New.  A Pending read or write whose deadline has passed fails;
\* otherwise nothing changes.
SendRequest ==
  /\ state = "New"
  /\ \/ /\ state' = "Pending"
        /\ timeout' = GetTime + ReqTimeoutUs
        /\ armedAt' = Elapsed
     \/ UNCHANGED <<state, timeout, armedAt>>
  /\ polled' = TRUE
  /\ UNCHANGED <<clock, secs, msecs, type>>

CheckTimeout ==
  /\ state = "Pending"
  /\ state' = IF timeout <= GetTime THEN "Error" ELSE state
  /\ polled' = TRUE
  /\ UNCHANGED <<clock, secs, msecs, type, timeout, armedAt>>

\* exo_operate with nothing for this slot to do.
PollIdle ==
  /\ state \notin {"New", "Pending"}
  /\ polled' = TRUE
  /\ UNCHANGED <<clock, secs, msecs, state, type, timeout, armedAt>>

\* The answer arrives (exo_process_waiting_datagrams): success or error.
Answer ==
  /\ state = "Pending"
  /\ state' \in {"Success", "Error"}
  /\ UNCHANGED <<clock, secs, msecs, polled, type, timeout, armedAt>>

\* exo_op_done: the caller frees a finished read or write (exo_op_init).
Collect ==
  /\ state \in {"Success", "Error"}
  /\ state' = "Null" /\ type' = "Null" /\ timeout' = 0
  /\ UNCHANGED <<clock, secs, msecs, polled, armedAt>>

Next ==
  \/ Tick \/ StepClock \/ Stage \/ SendRequest \/ CheckTimeout \/ PollIdle
  \/ Answer \/ Collect

Spec == Init /\ [][Next]_vars

\* Spec 4.4 and 6: a read or write left without an answer fails once its
\* 4 s deadline, taken from a monotonic microsecond clock, has passed.  With
\* exo_operate polled every millisecond, no slot may stay Pending more than
\* ReqTimeoutUs of real time after exo_process_active_ops set its deadline.
DeadlineHonoured ==
  state = "Pending" => Elapsed - armedAt <= ReqTimeoutUs
=============================================================================
