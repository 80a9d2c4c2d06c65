------------------------------ MODULE Reminder ------------------------------
(***************************************************************************)
(* ReservationsService.handleReservationReminder: every minute a handler   *)
(* asks for the confirmed reservations that start between 29 and 30        *)
(* minutes from now, and tells each of them.                               *)
(*                                                                         *)
(* The cron timer fires at a whole minute or later, when the event loop is *)
(* busy, and is then set for the next whole minute to come.  A handler     *)
(* takes its window from the clock when it starts; the query is answered   *)
(* later, perhaps after the next handler has started.                      *)
(***************************************************************************)
EXTENDS Integers, FiniteSets

CONSTANTS Id,        \* the reservations
          Start,     \* when each of them starts
          Minute,    \* a minute, in units of the clock
          MaxTime,   \* bound on the clock
          MaxFaults  \* bound on failing queries and restarts

Status == {"absent", "PENDING", "CONFIRMED", "CANCELLED", "COMPLETED"}

ASSUME ClockAssumption == Minute \in Nat \ {0} /\ MaxTime \in Nat /\ MaxFaults \in Nat
ASSUME StartAssumption == Start \in [Id -> Nat]

VARIABLES now,
          minute,    \* the whole minute the timer is set for
          pending,   \* when the handlers started whose query is not answered
          status,    \* the status column
          told,      \* how often each reservation has been told
          since,     \* when each was last confirmed
          last,      \* when the last handler started
          skipped,   \* reservations between two windows, or in one that was lost
          punctual,  \* every handler has started within its minute
          faults

vars == <<now, minute, pending, status, told, since, last, skipped, punctual, faults>>

TypeOK == /\ now \in 0 .. MaxTime
          /\ minute \in Nat
          /\ pending \in SUBSET (0 .. now)
          /\ status \in [Id -> Status]
          /\ told \in [Id -> Nat]
          /\ since \in [Id -> 0 .. now]
          /\ last \in 0 .. now
          /\ skipped \in SUBSET Id
          /\ punctual \in BOOLEAN
          /\ faults \in 0 .. MaxFaults

-----------------------------------------------------------------------------
Confirmed(i) == status[i] = "CONFIRMED"

\* Mutant: the ends do not belong to the window.
InOpenWindow(t, i) == t + 29 * Minute < Start[i] /\ Start[i] < t + 30 * Minute

\* Mutant: the window is two minutes long.
InLongWindow(t, i) == t + 28 * Minute =< Start[i] /\ Start[i] =< t + 30 * Minute

\* Between(twentyNineMinutesLater, thirtyMinutesLater), for a handler that
\* started at t.
InWindow(t, i) == t + 29 * Minute =< Start[i] /\ Start[i] =< t + 30 * Minute

\* Between the windows of handlers that started at t and at u, one after the
\* other.
Between(t, u, i) == t + 30 * Minute < Start[i] /\ Start[i] < u + 29 * Minute

\* The first whole minute after t.
NextMinute(t) == t \div Minute + 1

Init == /\ now = 0
        /\ minute = NextMinute(0)
        /\ pending = {}
        /\ status \in [Id -> {"absent", "PENDING", "CONFIRMED"}]
        /\ told = [i \in Id |-> 0]
        /\ since = [i \in Id |-> 0]
        /\ last = 0
        /\ skipped = {}
        /\ punctual = TRUE
        /\ faults = 0

TimePasses == /\ now < MaxTime
              /\ now' = now + 1
              /\ UNCHANGED <<minute, pending, status, told, since, last, skipped, punctual, faults>>

\* Mutant: no handler is started while one waits for its query.
FireUnlessPending ==
    /\ now >= Minute * minute
    /\ minute' = NextMinute(now)
    /\ pending' = IF pending = {} THEN {now} ELSE pending
    /\ last' = now
    /\ skipped' = skipped \cup {i \in Id : Between(last, now, i)}
    /\ punctual' = (punctual /\ now < Minute * (minute + 1))
    /\ UNCHANGED <<now, status, told, since, faults>>

\* The timer fires: a handler starts.
Fire == /\ now >= Minute * minute
        /\ minute' = NextMinute(now)
        /\ pending' = pending \cup {now}
        /\ last' = now
        /\ skipped' = skipped \cup {i \in Id : Between(last, now, i)}
        /\ punctual' = (punctual /\ now < Minute * (minute + 1))
        /\ UNCHANGED <<now, status, told, since, faults>>

\* The query of the handler that started at t is answered.
Query(t) == /\ t \in pending
            /\ pending' = pending \ {t}
            /\ told' = [i \in Id |-> IF InWindow(t, i) /\ Confirmed(i) THEN told[i] + 1
                                     ELSE told[i]]
            /\ UNCHANGED <<now, minute, status, since, last, skipped, punctual, faults>>

Fault == faults < MaxFaults /\ faults' = faults + 1

Lost(handlers) == {i \in Id : \E t \in handlers : InWindow(t, i)}

\* The query fails.  The scheduler logs the error and nobody asks again.
QueryFails(t) == /\ t \in pending
                 /\ Fault
                 /\ pending' = pending \ {t}
                 /\ skipped' = skipped \cup Lost({t})
                 /\ UNCHANGED <<now, minute, status, told, since, last, punctual>>

\* The process is started again: its handlers are gone and the timer is set
\* anew.
Restart == /\ Fault
           /\ pending' = {}
           /\ minute' = NextMinute(now)
           /\ skipped' = skipped \cup Lost(pending)
           /\ UNCHANGED <<now, status, told, since, last, punctual>>

\* The status of a reservation changes.
StatusChanges(i, to) ==
    /\ status[i] # to
    /\ status' = [status EXCEPT ![i] = to]
    /\ since' = IF to = "CONFIRMED" THEN [since EXCEPT ![i] = now] ELSE since
    /\ UNCHANGED <<now, minute, pending, told, last, skipped, punctual, faults>>

Next == \/ TimePasses \/ Fire \/ Restart
        \/ \E t \in pending : Query(t) \/ QueryFails(t)
        \/ \E i \in Id, to \in Status : StatusChanges(i, to)

Spec == Init /\ [][Next]_vars

-----------------------------------------------------------------------------
\* Safety.

\* Confirmed more than thirty minutes ahead, and the timer has fired since those
\* thirty minutes began.
Due(i) == /\ Confirmed(i)
          /\ since[i] + 30 * Minute < Start[i]
          /\ Start[i] =< last + 30 * Minute

Asked(i) == \E t \in pending : InWindow(t, i)

\* Whoever is confirmed in time is told, or a query that covers him is under way,
\* unless he fell between two windows or into a window that was lost.
ToldUnlessSkipped == \A i \in Id : Due(i) => told[i] > 0 \/ Asked(i) \/ i \in skipped

\* Nobody who starts at a whole minute falls between two windows as long as every
\* handler starts within its minute and none fails: late ticks leave gaps, but never
\* at a whole minute.
WholeMinutesTold ==
    punctual /\ faults = 0 =>
        \A i \in Id : Due(i) /\ Start[i] % Minute = 0 => told[i] > 0 \/ Asked(i)

\* Nobody is told more than twice, however the ticks fall and even if the process is
\* started again.
AtMostTwice == \A i \in Id : told[i] =< 2
=============================================================================
