---------------------------- MODULE ServiceProofs ----------------------------
(***************************************************************************)
(* Proofs about Service, for any number of calls, any size of the pool,    *)
(* any length of a minute and any number of failures.  The first half is   *)
(* about the reminder by itself: who is told, who is not, and how often.   *)
(* The second is about the service: it is a Reminder, each of its steps is *)
(* one of the booking calls or of the status calls or is not seen by them, *)
(* and what is proved of these holds in it, over restarts of the process.  *)
(***************************************************************************)
EXTENDS Service, FiniteSetTheorems, TLAPS

-----------------------------------------------------------------------------
\* The reminder by itself.

\* What this module adds to the safety properties to make them inductive.

\* Without a failure the timer is set for the minute after the last handler, and
\* no gap between two punctual handlers holds a whole minute.
GapDiscipline ==
    faults = 0 =>
        /\ minute = NextMinute(last)
        /\ punctual => \A i \in skipped : Start[i] % Minute # 0

\* The handlers that ask about i.
Asking(i) == {t \in pending : InWindow(t, i)}

\* How often i has been told, or will be when every query is answered.
Tellings(i) == told[i] + Cardinality(Asking(i))

\* The timer never runs ahead; who has been told once starts before the coming
\* handler's thirty minutes are over, and who starts in the window of the coming
\* handler has been told at most once.
TellingDiscipline ==
    /\ minute =< NextMinute(now)
    /\ \A i \in Id : /\ Tellings(i) > 0 => Start[i] < Minute * minute + 30 * Minute
                     /\ Start[i] >= Minute * minute + 29 * Minute => Tellings(i) =< 1
                     /\ Tellings(i) =< 2

-----------------------------------------------------------------------------
\* Arithmetic of whole minutes.

LEMMA Scaled ==
    ASSUME NEW a \in Nat, NEW b \in Nat, a < b
    PROVE  Minute * a + Minute =< Minute * b
<1>1. Minute \in Nat
  BY ClockAssumption
<1>2. PICK d \in Nat : b = a + 1 + d
  <2>1. b - a - 1 \in Nat /\ b = a + 1 + (b - a - 1)
    OBVIOUS
  <2> QED BY <2>1
<1>3. Minute * b = Minute * a + Minute + Minute * d
  BY <1>1, <1>2
<1>4. Minute * d \in Nat /\ Minute * a \in Nat
  BY <1>1
<1> QED BY <1>1, <1>3, <1>4

LEMMA ScaledOrEqual ==
    ASSUME NEW a \in Nat, NEW b \in Nat, a =< b
    PROVE  Minute * a =< Minute * b
<1>1. Minute \in Nat
  BY ClockAssumption
<1>2. Minute * a \in Nat /\ Minute * b \in Nat
  BY <1>1
<1>3. CASE a = b
  BY <1>2, <1>3
<1>4. CASE a < b
  <2>1. Minute * a + Minute =< Minute * b
    BY <1>4, Scaled
  <2> QED BY <1>1, <1>2, <2>1
<1> QED BY <1>3, <1>4

LEMMA NextMinuteFollows ==
    ASSUME NEW t \in Nat
    PROVE  /\ NextMinute(t) \in Nat
           /\ t < Minute * NextMinute(t)
           /\ Minute * NextMinute(t) =< t + Minute
<1>1. Minute \in Nat /\ Minute > 0
  BY ClockAssumption
<1>2. t \div Minute \in Nat /\ t = (Minute * (t \div Minute)) + (t % Minute)
      /\ t % Minute \in 0 .. (Minute - 1)
  BY <1>1
<1>3. Minute * (t \div Minute + 1) = Minute * (t \div Minute) + Minute
  BY <1>1, <1>2
<1> QED BY <1>1, <1>2, <1>3 DEF NextMinute

\* The next whole minute comes after every whole minute that has begun.
LEMMA NextMinuteIsLater ==
    ASSUME NEW t \in Nat, NEW m \in Nat, Minute * m =< t
    PROVE  m < NextMinute(t)
<1>1. Minute \in Nat
  BY ClockAssumption
<1>2. SUFFICES ASSUME NextMinute(t) =< m PROVE FALSE
  BY NextMinuteFollows
<1>3. CASE NextMinute(t) = m
  BY <1>1, <1>3, NextMinuteFollows
<1>4. CASE NextMinute(t) < m
  <2>1. Minute * NextMinute(t) + Minute =< Minute * m
    BY <1>4, NextMinuteFollows, Scaled
  <2>2. Minute * NextMinute(t) \in Int /\ Minute * m \in Int
    BY <1>1, NextMinuteFollows
  <2> QED BY <1>1, <2>1, <2>2, NextMinuteFollows
<1> QED BY <1>2, <1>3, <1>4, NextMinuteFollows

LEMMA NextMinuteGrows ==
    ASSUME NEW t \in Nat, NEW u \in Nat, t =< u
    PROVE  NextMinute(t) =< NextMinute(u)
<1>1. Minute \in Nat
  BY ClockAssumption
<1>2. t \div Minute \in Nat /\ Minute * (t \div Minute) =< t
  <2>1. Minute > 0
    BY ClockAssumption
  <2> QED BY <1>1, <2>1
<1>3. Minute * (t \div Minute) =< u
  <2>1. Minute * (t \div Minute) \in Int
    BY <1>1, <1>2
  <2> QED BY <1>2, <2>1
<1>4. t \div Minute < NextMinute(u)
  BY <1>2, <1>3, NextMinuteIsLater
<1> QED BY <1>2, <1>4, NextMinuteFollows DEF NextMinute

\* Strictly between two whole minutes there is none.
LEMMA NoWholeMinuteBetween ==
    ASSUME NEW a \in Nat, NEW s \in Nat, s % Minute = 0,
           Minute * a < s, s < Minute * a + Minute
    PROVE  FALSE
<1>1. Minute \in Nat /\ Minute > 0
  BY ClockAssumption
<1> DEFINE k == s \div Minute
<1>2. k \in Nat /\ s = Minute * k
  BY <1>1
<1>3. CASE k =< a
  <2>1. k = a \/ k < a
    BY <1>2, <1>3
  <2>2. Minute * k \in Int /\ Minute * a \in Int
    BY <1>1, <1>2
  <2> QED BY <1>1, <1>2, <2>1, <2>2, Scaled
<1>4. CASE a < k
  <2>1. Minute * a + Minute =< Minute * k
    BY <1>2, <1>4, Scaled
  <2>2. Minute * k \in Int /\ Minute * a \in Int
    BY <1>1, <1>2
  <2> QED BY <1>1, <1>2, <2>1, <2>2
<1> QED BY <1>2, <1>3, <1>4

-----------------------------------------------------------------------------
LEMMA TypeStep == TypeOK /\ [Next]_vars => TypeOK'
<1> SUFFICES ASSUME TypeOK, [Next]_vars
             PROVE  TypeOK'
  OBVIOUS
<1> USE DEF TypeOK
<1>1. CASE TimePasses
  BY <1>1, ClockAssumption DEF TimePasses
<1>2. CASE Fire
  <2>1. now \in Nat /\ NextMinute(now) \in Nat
    BY NextMinuteFollows
  <2> QED BY <1>2, <2>1 DEF Fire
<1>3. CASE Restart
  <2>1. NextMinute(now) \in Nat
    BY NextMinuteFollows
  <2> QED BY <1>3, <2>1, ClockAssumption DEF Restart, Fault, Lost
<1>4. ASSUME NEW t \in pending, Query(t)
      PROVE  TypeOK'
  BY <1>4 DEF Query
<1>5. ASSUME NEW t \in pending, QueryFails(t)
      PROVE  TypeOK'
  BY <1>5, ClockAssumption DEF QueryFails, Fault, Lost
<1>6. ASSUME NEW i \in Id, NEW to \in Status, StatusChanges(i, to)
      PROVE  TypeOK'
  BY <1>6 DEF StatusChanges
<1>7. CASE UNCHANGED vars
  BY <1>7 DEF vars
<1> QED BY <1>1, <1>2, <1>3, <1>4, <1>5, <1>6, <1>7 DEF Next

LEMMA InitTypes == Init => TypeOK
  BY ClockAssumption, NextMinuteFollows DEF Init, TypeOK, Status

\* The variables of the reminder keep their types.
THEOREM TypeCorrect == Spec => []TypeOK
  BY InitTypes, TypeStep, PTL DEF Spec

\* A step that neither starts a handler nor answers a query nor changes the status
\* leaves nobody newly due.
LEMMA DueOnlyByFire ==
    ASSUME TypeOK, NEW i \in Id, Due(i)',
           UNCHANGED <<status, since, last>> \/
           \E j \in Id, to \in Status : StatusChanges(j, to)
    PROVE  Due(i)
<1>1. CASE UNCHANGED <<status, since, last>>
  BY <1>1 DEF Due, Confirmed
<1>2. ASSUME NEW j \in Id, NEW to \in Status, StatusChanges(j, to)
      PROVE  Due(i)
  <2>1. last' = last
    BY <1>2 DEF StatusChanges
  <2>4. /\ last \in Int /\ now \in Int /\ last =< now
        /\ Start[i] \in Int /\ Minute \in Int
    BY StartAssumption, ClockAssumption DEF TypeOK
  <2>2. CASE since'[i] = now
    BY <2>1, <2>2, <2>4 DEF Due
  <2>3. CASE since'[i] # now
    <3>1. since'[i] = since[i] /\ status'[i] = status[i]
      BY <1>2, <2>3 DEF StatusChanges, TypeOK, Due, Confirmed
    <3> QED BY <2>1, <3>1 DEF Due, Confirmed
  <2> QED BY <2>2, <2>3
<1> QED BY <1>1, <1>2

\* Whoever a new handler makes due stands in its window or before it.
LEMMA DueByFire ==
    ASSUME TypeOK, NEW i \in Id, Fire, Due(i)'
    PROVE  Due(i) \/ InWindow(now, i) \/ Between(last, now, i)
<1>1. last \in Int /\ now \in Int /\ Start[i] \in Int /\ Minute \in Int /\ since[i] \in Int
  BY StartAssumption, ClockAssumption DEF TypeOK
<1>2. /\ status[i] = "CONFIRMED"
      /\ since[i] + 30 * Minute < Start[i]
      /\ Start[i] =< now + 30 * Minute
  BY DEF Due, Confirmed, Fire
<1> QED BY <1>1, <1>2 DEF Due, Confirmed, InWindow, Between

\* Whoever is confirmed in time is told, is about to be, or was skipped, after
\* every behaviour of the scheduler and with any number of failures: the promise
\* handleReservationReminder makes.
THEOREM NobodyForgotten == Spec => []ToldUnlessSkipped
<1>1. Init => ToldUnlessSkipped
  <2> SUFFICES ASSUME Init, NEW i \in Id, Due(i)
               PROVE  FALSE
    BY DEF ToldUnlessSkipped
  <2>1. since[i] = 0 /\ last = 0
    BY DEF Init
  <2> QED BY <2>1, StartAssumption, ClockAssumption DEF Due
<1>2. TypeOK /\ ToldUnlessSkipped /\ [Next]_vars => ToldUnlessSkipped'
  <2> SUFFICES ASSUME TypeOK, ToldUnlessSkipped, [Next]_vars, NEW i \in Id, Due(i)'
               PROVE  (told[i] > 0 \/ Asked(i) \/ i \in skipped)'
    BY DEF ToldUnlessSkipped
  <2>1. CASE TimePasses
    <3>1. Due(i)
      BY <2>1, DueOnlyByFire DEF TimePasses
    <3> QED BY <2>1, <3>1 DEF TimePasses, ToldUnlessSkipped, Asked, InWindow
  <2>2. CASE Fire
    <3>1. CASE Due(i)
      BY <2>2, <3>1 DEF Fire, ToldUnlessSkipped, Asked, InWindow
    <3>2. CASE InWindow(now, i)
      BY <2>2, <3>2 DEF Fire, Asked, InWindow
    <3>3. CASE Between(last, now, i)
      BY <2>2, <3>3 DEF Fire
    <3> QED BY <2>2, <3>1, <3>2, <3>3, DueByFire
  <2>3. CASE Restart
    <3>1. Due(i)
      BY <2>3, DueOnlyByFire DEF Restart
    <3> QED BY <2>3, <3>1 DEF Restart, ToldUnlessSkipped, Asked, Lost
  <2>4. ASSUME NEW t \in pending, Query(t)
        PROVE  (told[i] > 0 \/ Asked(i) \/ i \in skipped)'
    <3>1. Due(i)
      BY <2>4, DueOnlyByFire DEF Query
    <3>2. told[i] \in Nat /\ Confirmed(i)
      BY <3>1 DEF TypeOK, Due
    <3>3. CASE told[i] > 0
      BY <2>4, <3>2, <3>3 DEF Query
    <3>4. CASE InWindow(t, i)
      BY <2>4, <3>2, <3>4 DEF Query
    <3>5. CASE \E u \in pending : u # t /\ InWindow(u, i)
      BY <2>4, <3>5 DEF Query, Asked, InWindow
    <3>6. CASE i \in skipped
      BY <2>4, <3>6 DEF Query
    <3> QED BY <3>1, <3>3, <3>4, <3>5, <3>6 DEF ToldUnlessSkipped, Asked
  <2>5. ASSUME NEW t \in pending, QueryFails(t)
        PROVE  (told[i] > 0 \/ Asked(i) \/ i \in skipped)'
    <3>1. Due(i)
      BY <2>5, DueOnlyByFire DEF QueryFails
    <3> QED BY <2>5, <3>1 DEF QueryFails, ToldUnlessSkipped, Asked, InWindow, Lost
  <2>6. CASE \E j \in Id, to \in Status : StatusChanges(j, to)
    <3>1. Due(i)
      BY <2>6, DueOnlyByFire
    <3> QED BY <2>6, <3>1 DEF StatusChanges, ToldUnlessSkipped, Asked, InWindow
  <2>7. CASE UNCHANGED vars
    <3>1. Due(i)
      BY <2>7, DueOnlyByFire DEF vars
    <3> QED BY <2>7, <3>1 DEF vars, ToldUnlessSkipped, Asked, InWindow
  <2> QED BY <2>1, <2>2, <2>3, <2>4, <2>5, <2>6, <2>7 DEF Next
<1> QED BY <1>1, <1>2, TypeCorrect, PTL DEF Spec

-----------------------------------------------------------------------------
\* A gap between two punctual handlers lies strictly between two whole minutes.
LEMMA PunctualGap ==
    ASSUME TypeOK, minute = NextMinute(last), now < Minute * (minute + 1),
           NEW i \in Id, Between(last, now, i)
    PROVE  Start[i] % Minute # 0
<1>1. /\ Minute \in Nat /\ minute \in Nat /\ last \in Nat /\ now \in Nat
      /\ Start[i] \in Nat /\ minute + 29 \in Nat
  BY ClockAssumption, StartAssumption DEF TypeOK
<1>2. Minute * minute =< last + Minute
  BY <1>1, NextMinuteFollows
<1>3. /\ Minute * minute \in Nat
      /\ Minute * (minute + 1) = Minute * minute + Minute
      /\ Minute * (minute + 29) = Minute * minute + 29 * Minute
  BY <1>1
<1>4. last + 30 * Minute < Start[i] /\ Start[i] < now + 29 * Minute
  BY DEF Between
<1>5. Minute * (minute + 29) < Start[i] /\ Start[i] < Minute * (minute + 29) + Minute
  BY <1>1, <1>2, <1>3, <1>4
<1> QED BY <1>1, <1>5, NoWholeMinuteBetween

LEMMA GapDisciplineHolds == Spec => []GapDiscipline
<1>1. Init => GapDiscipline
  BY DEF Init, GapDiscipline
<1>2. TypeOK /\ GapDiscipline /\ [Next]_vars => GapDiscipline'
  <2> SUFFICES ASSUME TypeOK, GapDiscipline, [Next]_vars, (faults = 0)'
               PROVE  /\ (minute = NextMinute(last))'
                      /\ punctual' => \A i \in skipped' : Start[i] % Minute # 0
    BY DEF GapDiscipline
  <2> USE DEF GapDiscipline
  <2>1. CASE TimePasses
    BY <2>1 DEF TimePasses, NextMinute
  <2>2. CASE Fire
    <3>1. faults = 0 /\ minute' = NextMinute(now) /\ last' = now
      BY <2>2 DEF Fire
    <3>2. ASSUME punctual', NEW i \in skipped'
          PROVE  Start[i] % Minute # 0
      <4>1. punctual /\ now < Minute * (minute + 1)
        BY <2>2, <3>2 DEF Fire, TypeOK
      <4>2. CASE i \in skipped
        BY <3>1, <4>1, <4>2
      <4>3. CASE i \in Id /\ Between(last, now, i)
        BY <3>1, <4>1, <4>3, PunctualGap
      <4>4. i \in skipped \/ (i \in Id /\ Between(last, now, i))
        BY <2>2, <3>2 DEF Fire
      <4> QED BY <4>2, <4>3, <4>4
    <3> QED BY <3>1, <3>2 DEF NextMinute
  <2>3. CASE Restart
    <3>1. faults \in Nat /\ faults' = faults + 1
      BY <2>3, ClockAssumption DEF Restart, Fault, TypeOK
    <3> QED BY <3>1
  <2>4. ASSUME NEW t \in pending, Query(t)
        PROVE  /\ (minute = NextMinute(last))'
               /\ punctual' => \A i \in skipped' : Start[i] % Minute # 0
    BY <2>4 DEF Query, NextMinute
  <2>5. ASSUME NEW t \in pending, QueryFails(t)
        PROVE  FALSE
    <3>1. faults \in Nat /\ faults' = faults + 1
      BY <2>5, ClockAssumption DEF QueryFails, Fault, TypeOK
    <3> QED BY <3>1
  <2>6. ASSUME NEW i \in Id, NEW to \in Status, StatusChanges(i, to)
        PROVE  /\ (minute = NextMinute(last))'
               /\ punctual' => \A j \in skipped' : Start[j] % Minute # 0
    BY <2>6 DEF StatusChanges, NextMinute
  <2>7. CASE UNCHANGED vars
    BY <2>7 DEF vars, NextMinute
  <2> QED BY <2>1, <2>2, <2>3, <2>4, <2>5, <2>6, <2>7 DEF Next
<1> QED BY <1>1, <1>2, TypeCorrect, PTL DEF Spec

\* Who starts at a whole minute is told or about to be, as long as the handlers start
\* within their minutes and nothing fails: the windows of a minute that closes at
\* both ends leave no whole minute between them, however late in its minute a
\* handler starts.
THEOREM WholeMinutesServed == Spec => []WholeMinutesTold
<1>1. ToldUnlessSkipped /\ GapDiscipline => WholeMinutesTold
  BY DEF ToldUnlessSkipped, GapDiscipline, WholeMinutesTold
<1> QED BY <1>1, NobodyForgotten, GapDisciplineHolds, PTL

-----------------------------------------------------------------------------
LEMMA AskingFinite ==
    ASSUME TypeOK, NEW i \in Id
    PROVE  IsFiniteSet(Asking(i)) /\ Tellings(i) \in Nat /\ told[i] \in Nat
           /\ Cardinality(Asking(i)) \in Nat
<1>1. IsFiniteSet(0 .. now)
  BY FS_Interval DEF TypeOK
<1>2. Asking(i) \subseteq 0 .. now
  BY DEF Asking, TypeOK
<1>3. IsFiniteSet(Asking(i))
  BY <1>1, <1>2, FS_Subset
<1>4. Cardinality(Asking(i)) \in Nat
  BY <1>3, FS_CardinalityType
<1>5. told[i] \in Nat
  BY DEF TypeOK
<1> QED BY <1>3, <1>4, <1>5 DEF Tellings

LEMMA AskingFiniteNext ==
    ASSUME TypeOK', NEW i \in Id
    PROVE  Tellings(i)' \in Nat
<1>1. IsFiniteSet(0 .. now')
  BY FS_Interval DEF TypeOK
<1>2. Asking(i)' \subseteq 0 .. now'
  BY DEF Asking, TypeOK
<1>3. Cardinality(Asking(i)') \in Nat
  BY <1>1, <1>2, FS_Subset, FS_CardinalityType
<1>4. told'[i] \in Nat
  BY DEF TypeOK
<1> QED BY <1>3, <1>4 DEF Tellings

\* A step that starts no handler tells nobody a time that was not asked for already.
LEMMA TellingsOnlyByFire ==
    ASSUME TypeOK, TypeOK', NEW i \in Id,
           \/ UNCHANGED <<told, pending>>
           \/ pending' = {} /\ told' = told
           \/ \E t \in pending : Query(t) \/ QueryFails(t)
    PROVE  Tellings(i)' =< Tellings(i)
<1> USE AskingFinite
<1>1. CASE UNCHANGED <<told, pending>>
  <2>1. Tellings(i)' = Tellings(i)
    BY <1>1 DEF Tellings, Asking, InWindow
  <2> QED BY <2>1
<1>2. CASE pending' = {} /\ told' = told
  <2>1. Asking(i)' = {}
    BY <1>2 DEF Asking
  <2>2. Cardinality(Asking(i)') = 0
    BY <2>1, FS_EmptySet
  <2> QED BY <1>2, <2>2 DEF Tellings
<1>3. ASSUME NEW t \in pending, Query(t) \/ QueryFails(t)
      PROVE  Tellings(i)' =< Tellings(i)
  <2>1. Asking(i)' = Asking(i) \ {t}
    BY <1>3 DEF Asking, InWindow, Query, QueryFails
  <2>2. CASE InWindow(t, i)
    <3>1. t \in Asking(i)
      BY <2>2 DEF Asking
    <3>2. Cardinality(Asking(i)') = Cardinality(Asking(i)) - 1
      BY <2>1, <3>1, FS_RemoveElement
    <3>3. told'[i] = told[i] \/ told'[i] = told[i] + 1
      BY <1>3 DEF Query, QueryFails, TypeOK
    <3> QED BY <3>2, <3>3 DEF Tellings
  <2>3. CASE ~InWindow(t, i)
    <3>1. Asking(i)' = Asking(i)
      BY <2>1, <2>3 DEF Asking
    <3>2. told'[i] = told[i]
      BY <1>3, <2>3 DEF Query, QueryFails, TypeOK
    <3>3. Tellings(i)' = Tellings(i)
      BY <3>1, <3>2 DEF Tellings
    <3> QED BY <3>3
  <2> QED BY <2>2, <2>3
<1> QED BY <1>1, <1>2, <1>3

\* A new handler asks about those in its window, and about nobody else.
LEMMA TellingsByFire ==
    ASSUME TypeOK, NEW i \in Id, Fire
    PROVE  Tellings(i)' =< Tellings(i) + 1
           /\ (~InWindow(now, i) => Tellings(i)' = Tellings(i))
<1> USE AskingFinite
<1>1. told' = told
  BY DEF Fire
<1>2. CASE InWindow(now, i)
  <2>1. Asking(i)' = Asking(i) \cup {now}
    BY <1>2 DEF Fire, Asking, InWindow
  <2>2. Cardinality(Asking(i)') =< Cardinality(Asking(i)) + 1
    <3>1. IsFiniteSet(Asking(i)) /\ Cardinality(Asking(i)) \in Nat
      OBVIOUS
    <3>2. \/ Cardinality(Asking(i) \cup {now}) = Cardinality(Asking(i))
          \/ Cardinality(Asking(i) \cup {now}) = Cardinality(Asking(i)) + 1
      BY <3>1, FS_AddElement
    <3> QED BY <2>1, <3>1, <3>2
  <2>3. Cardinality(Asking(i)') \in Nat
    BY <2>1, FS_AddElement, FS_CardinalityType
  <2> QED BY <1>1, <1>2, <2>2, <2>3 DEF Tellings
<1>3. CASE ~InWindow(now, i)
  <2>1. Asking(i)' = Asking(i)
    BY <1>3 DEF Fire, Asking, InWindow
  <2>2. Tellings(i)' = Tellings(i)
    BY <1>1, <2>1 DEF Tellings
  <2> QED BY <1>3, <2>2
<1> QED BY <1>2, <1>3

\* The whole minute of the timer and the numbers of tellings, as the arithmetic of
\* the proof below wants them.
LEMMA TimerTypes ==
    ASSUME TypeOK, NEW i \in Id
    PROVE  /\ Minute \in Nat /\ Minute > 0 /\ minute \in Nat /\ now \in Nat
           /\ Start[i] \in Nat /\ Minute * minute \in Nat
  BY ClockAssumption, StartAssumption DEF TypeOK

\* A step that tells less and does not turn the timer back keeps the discipline.
LEMMA LaterTimer ==
    ASSUME TypeOK, TypeOK', TellingDiscipline, NEW i \in Id,
           Tellings(i)' =< Tellings(i), minute =< minute'
    PROVE  /\ Tellings(i)' > 0 => Start[i] < Minute * minute' + 30 * Minute
           /\ Start[i] >= Minute * minute' + 29 * Minute => Tellings(i)' =< 1
           /\ Tellings(i)' =< 2
<1>1. /\ Minute \in Nat /\ minute \in Nat /\ minute' \in Nat /\ Start[i] \in Nat
      /\ Minute * minute \in Nat /\ Minute * minute' \in Nat
  BY TimerTypes DEF TypeOK
<1>2. Minute * minute =< Minute * minute'
  BY <1>1, ScaledOrEqual
<1>3. Tellings(i) \in Nat
  BY AskingFinite
<1>4. Tellings(i)' \in Nat
  BY AskingFiniteNext
<1>5. /\ Tellings(i) > 0 => Start[i] < Minute * minute + 30 * Minute
      /\ Start[i] >= Minute * minute + 29 * Minute => Tellings(i) =< 1
      /\ Tellings(i) =< 2
  BY DEF TellingDiscipline
<1> QED BY <1>1, <1>2, <1>3, <1>4, <1>5

LEMMA TellingDisciplineHolds == Spec => []TellingDiscipline
<1>1. Init => TellingDiscipline
  <2> SUFFICES ASSUME Init
               PROVE  TellingDiscipline
    OBVIOUS
  <2>1. minute = NextMinute(0) /\ now = 0
    BY DEF Init
  <2>2. minute =< NextMinute(now)
    BY <2>1, NextMinuteFollows
  <2>3. ASSUME NEW i \in Id
        PROVE  Tellings(i) = 0
    <3>1. Asking(i) = {} /\ told[i] = 0
      BY DEF Init, Asking
    <3> QED BY <3>1, FS_EmptySet DEF Tellings
  <2> QED BY <2>2, <2>3 DEF TellingDiscipline
<1>2. TypeOK /\ TypeOK' /\ TellingDiscipline /\ [Next]_vars => TellingDiscipline'
  <2> SUFFICES ASSUME TypeOK, TypeOK', TellingDiscipline, [Next]_vars
               PROVE  TellingDiscipline'
    OBVIOUS
  <2>0. /\ minute \in Nat /\ minute' \in Nat /\ now \in Nat /\ now' \in Nat
        /\ NextMinute(now) \in Nat /\ NextMinute(now') \in Nat
        /\ minute =< NextMinute(now)
    BY NextMinuteFollows DEF TypeOK, TellingDiscipline
  <2>1. CASE Fire
    <3>1. minute' = NextMinute(now) /\ now' = now /\ Minute * minute =< now
      BY <2>0, <2>1, ClockAssumption DEF Fire
    <3>2. minute < minute' /\ Minute * minute + Minute =< Minute * minute'
          /\ now < Minute * minute'
      BY <2>0, <3>1, NextMinuteIsLater, NextMinuteFollows, Scaled
    <3>3. minute' =< NextMinute(now')
      BY <2>0, <3>1
    <3>4. ASSUME NEW i \in Id
          PROVE  /\ Tellings(i)' > 0 => Start[i] < Minute * minute' + 30 * Minute
                 /\ Start[i] >= Minute * minute' + 29 * Minute => Tellings(i)' =< 1
                 /\ Tellings(i)' =< 2
      <4>1. CASE ~InWindow(now, i)
        <5>1. Tellings(i)' = Tellings(i)
          BY <2>1, <4>1, TellingsByFire
        <5>2. Tellings(i)' =< Tellings(i)
          BY <5>1, AskingFinite
        <5> QED BY <2>0, <3>2, <5>2, LaterTimer
      <4>2. CASE InWindow(now, i)
        <5>1. Tellings(i)' =< Tellings(i) + 1
          BY <2>1, TellingsByFire
        <5>2. Tellings(i) \in Nat
          BY AskingFinite
        <5>3. Tellings(i)' \in Nat
          BY AskingFiniteNext
        <5>4. /\ Minute \in Nat /\ Start[i] \in Nat
              /\ Minute * minute \in Nat /\ Minute * minute' \in Nat
          BY <2>0, TimerTypes
        <5>5. now + 29 * Minute =< Start[i] /\ Start[i] =< now + 30 * Minute
          BY <4>2 DEF InWindow
        <5>6. /\ Tellings(i) > 0 => Start[i] < Minute * minute + 30 * Minute
              /\ Start[i] >= Minute * minute + 29 * Minute => Tellings(i) =< 1
          BY DEF TellingDiscipline
        <5> QED BY <2>0, <3>1, <3>2, <5>1, <5>2, <5>3, <5>4, <5>5, <5>6
      <4> QED BY <4>1, <4>2
    <3> QED BY <3>3, <3>4 DEF TellingDiscipline
  <2>2. ASSUME minute =< minute', minute' =< NextMinute(now'),
               \/ UNCHANGED <<told, pending>>
               \/ pending' = {} /\ told' = told
               \/ \E t \in pending : Query(t) \/ QueryFails(t)
        PROVE  TellingDiscipline'
    <3>1. ASSUME NEW i \in Id
          PROVE  /\ Tellings(i)' > 0 => Start[i] < Minute * minute' + 30 * Minute
                 /\ Start[i] >= Minute * minute' + 29 * Minute => Tellings(i)' =< 1
                 /\ Tellings(i)' =< 2
      BY <2>2, TellingsOnlyByFire, LaterTimer
    <3> QED BY <2>2, <3>1 DEF TellingDiscipline
  <2>3. CASE TimePasses
    <3>1. now' = now + 1 /\ minute' = minute
      BY <2>3 DEF TimePasses
    <3>2. NextMinute(now) =< NextMinute(now')
      BY <2>0, <3>1, NextMinuteGrows
    <3> QED BY <2>0, <2>2, <2>3, <3>1, <3>2 DEF TimePasses
  <2>4. CASE Restart
    BY <2>0, <2>2, <2>4 DEF Restart
  <2>5. CASE \E t \in pending : Query(t) \/ QueryFails(t)
    <3>1. minute' = minute /\ now' = now
      BY <2>5 DEF Query, QueryFails
    <3> QED BY <2>0, <2>2, <2>5, <3>1
  <2>6. CASE \E i \in Id, to \in Status : StatusChanges(i, to)
    BY <2>0, <2>2, <2>6 DEF StatusChanges
  <2>7. CASE UNCHANGED vars
    BY <2>0, <2>2, <2>7 DEF vars
  <2> QED BY <2>1, <2>3, <2>4, <2>5, <2>6, <2>7 DEF Next
<1> QED BY <1>1, <1>2, TypeCorrect, PTL DEF Spec

\* Nobody is told more than twice, however late the handlers start, whichever
\* queries fail and however often the process is started again: of three handlers
\* the last starts more than a minute after the first.
THEOREM NobodyToldThrice == Spec => []AtMostTwice
<1>1. TypeOK /\ TellingDiscipline => AtMostTwice
  <2> SUFFICES ASSUME TypeOK, TellingDiscipline, NEW i \in Id
               PROVE  told[i] =< 2
    BY DEF AtMostTwice
  <2>1. told[i] \in Nat /\ Cardinality(Asking(i)) \in Nat
    BY AskingFinite
  <2>2. told[i] + Cardinality(Asking(i)) =< 2
    BY DEF TellingDiscipline, Tellings
  <2> QED BY <2>1, <2>2
<1> QED BY <1>1, TypeCorrect, TellingDisciplineHolds, PTL

-----------------------------------------------------------------------------
\* The service: its calls, with what is proved of them.

BP == INSTANCE BookingProofs WITH
         Request <- Booker, Call <- {Wanted[r] : r \in Booker},
         call <- bookCall, pc <- bookPc

SU == INSTANCE StatusUpdateProofs WITH
         Request <- Patcher, Id <- Booker, Call <- Patch, MaxFaults <- 0,
         call <- patchCall, pc <- patchPc, faults <- patchFaults

\* There is one table: a reservation has a status when its booking is committed, and
\* a call has a copy of a row, or has written one, only where there is a row.
OneTable ==
    /\ \A r \in Booker : r \in booked <=> status[r] # "absent"
    /\ \A r \in Patcher :
          patchPc[r] \in {"reload", "update"} \/ r \in wrote => status[S!id(r)] # "absent"

\* As long as the process has not been started again and no query of the reminder has
\* failed, every room is made for a confirmation.
RoomsConfirmedUnlessCrashed == faults = 0 => S!RoomHasConfirmer

IInv == /\ TypeOK
        /\ BP!IInv
        /\ SU!Core
        /\ OneTable
        /\ ToldHasRoom
        /\ RoomsConfirmedUnlessCrashed

\* The constants of the service are constants of its parts.
LEMMA BookingConstants == BP!CallAssumption /\ BP!PoolAssumption
  BY ServiceAssumption DEF BP!CallAssumption, BP!PoolAssumption

LEMMA StatusConstants == SU!CallAssumption /\ SU!PoolAssumption /\ SU!FaultAssumption
  BY ServiceAssumption
  DEF SU!CallAssumption, SU!PoolAssumption, SU!FaultAssumption, S!Status, SU!Status

\* What the reservations, the calls and their statements are.
LEMMA Named ==
    ASSUME SU!TypeOK, NEW r \in Patcher
    PROVE  /\ S!id(r) \in Booker /\ S!id(r) \in Id
           /\ patchCall[r].target \in Status \ {"absent"}
  BY ServiceAssumption DEF SU!TypeOK, S!id, S!Status, Status

-----------------------------------------------------------------------------
\* Steps of the service as steps of its parts.

LEMMA BookMapsToBooking ==
    ASSUME NEW r \in Booker, Book(r)
    PROVE  BP!Next
<1> USE DEF BP!Handle, B!Goto, BP!Goto, B!Open, BP!Open, B!Statement, BP!Statement,
            B!SameSpace, BP!SameSpace, B!Exclusive, BP!Exclusive, B!KeyShare, BP!KeyShare
<1>1. B!Begin(r) => BP!Begin(r)
  <2>1. B!Cardinality(B!Open) = BP!Cardinality(BP!Open)
    BY DEF B!Cardinality, BP!Cardinality
  <2> QED BY <2>1 DEF B!Begin, BP!Begin
<1>2. B!LockSpace(r) => BP!LockSpace(r)
  BY DEF B!LockSpace, BP!LockSpace, B!SpaceRowLocked, BP!SpaceRowLocked
<1>3. B!CheckOverlap(r) => BP!CheckOverlap(r)
  BY DEF B!CheckOverlap, BP!CheckOverlap, B!Conflicts, BP!Conflicts, B!Visible,
         BP!Visible, B!Overlaps, BP!Overlaps
<1>4. B!SaveRow(r) => BP!SaveRow(r)
  BY DEF B!SaveRow, BP!SaveRow, B!SpaceRowHeld, BP!SpaceRowHeld
<1>5. B!Commit(r) => BP!Commit(r)
  BY DEF B!Commit, BP!Commit
<1>6. B!Rollback(r) => BP!Rollback(r)
  BY DEF B!Rollback, BP!Rollback
<1>7. BP!Handle(r)
  BY <1>1, <1>2, <1>3, <1>4, <1>5, <1>6 DEF Book
<1> QED BY <1>7 DEF BP!Next

LEMMA BookMapsToStatus ==
    ASSUME BP!IInv, OneTable, NEW r \in Booker, Book(r)
    PROVE  [SU!Next]_(SU!vars)
<1>1. CASE UNCHANGED vars
  BY <1>1 DEF Book, vars, patchVars, SU!vars
<1>2. CASE B!Commit(r) /\ StatusChanges(r, "PENDING")
  <2>1. status[r] = "absent"
    BY <1>2 DEF B!Commit, OneTable, BP!IInv, BP!LockDiscipline
  <2>2. SU!Book(r)
    BY <1>2, <2>1 DEF Book, StatusChanges, SU!Book, patchVars
  <2> QED BY <2>2 DEF SU!Next
<1> QED BY <1>1, <1>2 DEF Book

LEMMA ChangeMapsToStatus ==
    ASSUME NEW r \in Patcher, Change(r)
    PROVE  SU!Handle(r)
<1> USE DEF SU!Handle, S!Goto, SU!Goto, S!id, SU!id, S!Open, SU!Open, S!Statement,
            SU!Statement, S!Row, SU!Row, S!Room, SU!Room, S!End, SU!End,
            S!AfterSave, SU!AfterSave, S!Confirms, SU!Confirms
<1>0. S!ConnectionFree <=> SU!ConnectionFree
  BY DEF S!ConnectionFree, SU!ConnectionFree, S!Cardinality, SU!Cardinality
<1>1. S!Begin(r) => SU!Begin(r)
  BY <1>0 DEF S!Begin, SU!Begin
<1>2. S!ReadRow(r) => SU!ReadRow(r)
  BY DEF S!ReadRow, SU!ReadRow
<1>3. S!Reload(r) => SU!Reload(r)
  BY DEF S!Reload, SU!Reload
<1>4. S!Update(r) => SU!Update(r)
  BY DEF S!Update, SU!Update, S!RowLocked, SU!RowLocked
<1>5. S!FindRoom(r) => SU!FindRoom(r)
  BY <1>0 DEF S!FindRoom, SU!FindRoom
<1>6. S!InsertRoom(r) => SU!InsertRoom(r)
  BY <1>0 DEF S!InsertRoom, SU!InsertRoom
<1>7. S!RereadRoom(r) => SU!RereadRoom(r)
  BY <1>0 DEF S!RereadRoom, SU!RereadRoom
<1>8. S!Commit(r) => SU!Commit(r)
  BY DEF S!Commit, SU!Commit, S!Write, SU!Write, S!Outdated, SU!Outdated
<1>9. S!Rollback(r) => SU!Rollback(r)
  BY DEF S!Rollback, SU!Rollback
<1> QED BY <1>1, <1>2, <1>3, <1>4, <1>5, <1>6, <1>7, <1>8, <1>9 DEF Change

LEMMA BookMapsToReminder ==
    ASSUME NEW r \in Booker, Book(r)
    PROVE  [Next]_vars
<1>1. r \in Id /\ "PENDING" \in Status
  BY ServiceAssumption DEF Status
<1>2. CASE StatusChanges(r, "PENDING")
  BY <1>1, <1>2 DEF Next
<1>3. UNCHANGED vars \/ StatusChanges(r, "PENDING")
  BY DEF Book
<1> QED BY <1>2, <1>3

\* A step of a call is a change of one status, or none that the reminder can see.
LEMMA ChangeMapsToReminder ==
    ASSUME SU!TypeOK, NEW r \in Patcher, Change(r)
    PROVE  [Next]_vars
<1>1. S!id(r) \in Id /\ patchCall[r].target \in Status
  BY Named
<1>2. CASE StatusChanges(S!id(r), patchCall[r].target)
  BY <1>1, <1>2 DEF Next
<1>3. UNCHANGED vars \/ StatusChanges(S!id(r), patchCall[r].target)
  BY DEF Change
<1> QED BY <1>2, <1>3

LEMMA MapsToReminder == SU!TypeOK /\ [ServiceNext]_serviceVars => [Next]_vars
<1> SUFFICES ASSUME SU!TypeOK, [ServiceNext]_serviceVars
             PROVE  [Next]_vars
  OBVIOUS
<1>1. CASE \E r \in Booker : Book(r)
  BY <1>1, BookMapsToReminder
<1>2. CASE \E r \in Patcher : Change(r)
  BY <1>2, ChangeMapsToReminder
<1>3. CASE Remind
  BY <1>3 DEF Remind, Next
<1>4. CASE Tick
  BY <1>4 DEF Tick, Next
<1>5. CASE ProcessRestart
  BY <1>5 DEF ProcessRestart, Next
<1>6. CASE ServiceQuiet \/ UNCHANGED serviceVars
  BY <1>6 DEF ServiceQuiet, serviceVars
<1> QED BY <1>1, <1>2, <1>3, <1>4, <1>5, <1>6 DEF ServiceNext

-----------------------------------------------------------------------------
\* A restart of the process.

\* The transactions that PostgreSQL ends when the process dies leave no row locked
\* and no period half booked.
LEMMA RestartKeepsBookings ==
    ASSUME BP!IInv, ProcessRestart
    PROVE  BP!IInv'
<1> USE DEF BP!Open, BP!Exclusive, BP!KeyShare, BP!SameSpace, BP!Overlaps, BP!Instants
<1>1. /\ UNCHANGED <<space, patching, bookCall, guarded, booked>>
      /\ bookPc' = Dead(bookPc, B!Open)
  BY DEF ProcessRestart
<1>2. bookPc \in [Booker -> {"idle"} \cup BP!Statement \cup BP!Reply]
  BY DEF BP!IInv, BP!TypeOK
<1>3. B!Open = {r \in Booker : bookPc[r] \in BP!Statement}
  BY DEF B!Open, B!Statement, BP!Statement
<1>4. /\ bookPc' \in [Booker -> {"idle"} \cup BP!Reply]
      /\ \A r \in Booker :
            bookPc'[r] = IF bookPc[r] \in BP!Statement THEN "failed" ELSE bookPc[r]
  BY <1>1, <1>2, <1>3 DEF Dead, BP!Reply
<1>5. /\ \A r \in Booker : bookPc'[r] \notin BP!Statement
      /\ \A r \in Booker : bookPc'[r] # bookPc[r] => bookPc'[r] = "failed"
  BY <1>4 DEF BP!Statement, BP!Reply
<1>6. BP!TypeOK'
  BY <1>1, <1>4 DEF BP!IInv, BP!TypeOK
<1>7. BP!LockDiscipline'
  BY <1>1, <1>4, <1>5 DEF BP!IInv, BP!TypeOK, BP!LockDiscipline, BP!Statement, BP!Reply
<1>8. BP!LockedSpaceStaysLive'
  BY <1>5 DEF BP!LockedSpaceStaysLive
<1>9. BP!CheckStillHolds'
  BY <1>1, <1>5, <1>6 DEF BP!CheckStillHolds, BP!Statement, BP!TypeOK
<1>10. BP!NoDoubleBooking'
  BY <1>1 DEF BP!IInv, BP!NoDoubleBooking
<1>11. BP!RefusalJustified'
  BY <1>1, <1>5 DEF BP!IInv, BP!RefusalJustified, BP!Statement
<1> QED BY <1>6, <1>7, <1>8, <1>9, <1>10, <1>11 DEF BP!IInv

\* Of a confirmation that dies on the way at most a room remains.
LEMMA RestartKeepsStatus ==
    ASSUME SU!Core, ProcessRestart
    PROVE  SU!Core'
<1> USE DEF SU!Open, SU!id, SU!Confirms
<1>1. /\ UNCHANGED <<room, patchCall, wrote, kept, stale, lost, patchFaults>>
      /\ patchPc' = Dead(patchPc, S!Open)
      /\ status' = status
  BY DEF ProcessRestart, Restart
<1>2. patchPc \in [Patcher -> {"idle"} \cup SU!Statement \cup SU!Reply]
  BY DEF SU!Core, SU!TypeOK
<1>3. patchFaults = 0 /\ lost = {}
  BY DEF SU!Core, SU!TypeOK, SU!RoomDiscipline
<1>4. S!Open = {r \in Patcher : patchPc[r] \in SU!Statement}
  BY <1>3 DEF S!Open, S!Statement, SU!Statement, S!Row, SU!Row, S!Room, SU!Room,
              S!End, SU!End
<1>5. /\ patchPc' \in [Patcher -> {"idle"} \cup SU!Reply]
      /\ \A r \in Patcher :
            patchPc'[r] = IF patchPc[r] \in SU!Statement THEN "failed" ELSE patchPc[r]
  BY <1>1, <1>2, <1>4 DEF Dead, SU!Reply
<1>6. /\ \A r \in Patcher : patchPc'[r] \notin SU!Statement
      /\ \A r \in Patcher : patchPc'[r] # patchPc[r] => patchPc'[r] = "failed"
  BY <1>5 DEF SU!Statement, SU!Row, SU!Room, SU!End, SU!Reply
<1>7. SU!TypeOK'
  BY <1>1, <1>5 DEF SU!Core, SU!TypeOK
<1>8. SU!CopyDiscipline'
  BY <1>1, <1>5, <1>6, <1>7
  DEF SU!Core, SU!CopyDiscipline, SU!TypeOK, SU!Statement, SU!Row
<1>9. SU!RoomDiscipline'
  BY <1>1, <1>3, <1>6 DEF SU!RoomDiscipline, SU!Statement, SU!Room, SU!End
<1>10. SU!ConfirmedHasRoom'
  BY <1>1 DEF SU!Core, SU!ConfirmedHasRoom
<1>11. SU!NoRoomCollision'
  BY <1>6 DEF SU!NoRoomCollision, SU!Statement, SU!Room
<1> QED BY <1>7, <1>8, <1>9, <1>10, <1>11 DEF SU!Core

-----------------------------------------------------------------------------
\* Each part of the invariant is preserved by every step.

LEMMA BookingStep == IInv /\ [ServiceNext]_serviceVars => BP!IInv'
<1> SUFFICES ASSUME IInv, [ServiceNext]_serviceVars
             PROVE  BP!IInv'
  OBVIOUS
<1>1. BP!IInv
  BY DEF IInv
<1>2. CASE \E r \in Booker : Book(r)
  BY <1>1, <1>2, BookMapsToBooking, BP!InvariantStep, BookingConstants
<1>3. CASE ProcessRestart
  BY <1>1, <1>3, RestartKeepsBookings
<1>4. CASE UNCHANGED bookVars
  BY <1>1, <1>4, BP!InvariantStep, BookingConstants DEF bookVars, BP!vars
<1> QED BY <1>2, <1>3, <1>4 DEF ServiceNext, Change, Remind, Tick, ServiceQuiet, serviceVars

\* A step of the service is one of StatusUpdate, or the process dies.
LEMMA StatusMaps ==
    ASSUME IInv, [ServiceNext]_serviceVars
    PROVE  [SU!Next]_(SU!vars) \/ ProcessRestart
<1>1. BP!IInv /\ OneTable
  BY DEF IInv
<1>2. CASE \E r \in Booker : Book(r)
  BY <1>1, <1>2, BookMapsToStatus
<1>3. CASE \E r \in Patcher : Change(r)
  BY <1>3, ChangeMapsToStatus DEF SU!Next
<1>4. CASE Remind \/ Tick \/ ServiceQuiet \/ UNCHANGED serviceVars
  BY <1>4 DEF Remind, Tick, ServiceQuiet, serviceVars, patchVars, vars, SU!vars, Fire,
              Query, QueryFails, TimePasses
<1> QED BY <1>2, <1>3, <1>4 DEF ServiceNext

LEMMA StatusStep == IInv /\ [ServiceNext]_serviceVars => SU!Core'
<1> SUFFICES ASSUME IInv, [ServiceNext]_serviceVars
             PROVE  SU!Core'
  OBVIOUS
<1>1. SU!Core
  BY DEF IInv
<1>2. CASE [SU!Next]_(SU!vars)
  BY <1>1, <1>2, SU!CoreStep, StatusConstants
<1>3. CASE ProcessRestart
  BY <1>1, <1>3, RestartKeepsStatus
<1> QED BY <1>2, <1>3, StatusMaps

\* A row that is there stays: bookings add rows and no call takes one away.
LEMMA TableStep == IInv /\ [ServiceNext]_serviceVars => OneTable'
<1> SUFFICES ASSUME IInv, [ServiceNext]_serviceVars
             PROVE  OneTable'
  OBVIOUS
<1>0. /\ TypeOK /\ SU!TypeOK /\ OneTable
      /\ patchPc \in [Patcher -> {"idle"} \cup SU!Statement \cup SU!Reply]
      /\ status \in [Booker -> Status] /\ wrote \subseteq Patcher
      /\ \A r \in Patcher : S!id(r) \in Booker /\ patchCall[r].target # "absent"
  BY Named, ServiceAssumption DEF IInv, TypeOK, SU!Core, SU!TypeOK
<1>1. ASSUME NEW r \in Booker, Book(r)
      PROVE  OneTable'
  <2>1. UNCHANGED patchVars /\ \A q \in Patcher : S!id(q)' = S!id(q)
    BY <1>1 DEF Book, patchVars, S!id
  <2>2. \/ UNCHANGED <<booked, status>>
        \/ booked' = booked \cup {r} /\ status' = [status EXCEPT ![r] = "PENDING"]
    BY <1>1 DEF Book, B!Begin, B!LockSpace, B!CheckOverlap, B!SaveRow, B!Rollback,
                B!Commit, StatusChanges, vars
  <2> QED BY <1>0, <2>1, <2>2 DEF OneTable, patchVars
<1>2. ASSUME NEW r \in Patcher, Change(r)
      PROVE  OneTable'
  <2>1. /\ booked' = booked /\ \A q \in Patcher : S!id(q)' = S!id(q)
        /\ \A q \in Patcher \ {r} : patchPc'[q] = patchPc[q]
    BY <1>0, <1>2 DEF Change, bookVars, S!id, S!Begin, S!FindRoom, S!InsertRoom,
                      S!RereadRoom, S!ReadRow, S!Reload, S!Update, S!Rollback, S!Commit,
                      S!Goto
  <2>2. patchPc'[r] \in {"reload", "update"} \/ r \in wrote' => status[S!id(r)] # "absent"
    BY <1>0, <1>2 DEF OneTable, Change, S!id, S!Begin, S!FindRoom, S!InsertRoom,
                      S!RereadRoom, S!ReadRow, S!Reload, S!Update, S!Rollback, S!Commit,
                      S!Goto, S!AfterSave
  <2>3. wrote' \subseteq wrote \cup {r}
    BY <1>2 DEF Change, S!Begin, S!FindRoom, S!InsertRoom, S!RereadRoom, S!ReadRow,
                S!Reload, S!Update, S!Rollback, S!Commit
  <2>4. \/ status' = status
        \/ r \in wrote /\ status' = [status EXCEPT ![S!id(r)] = patchCall[r].target]
    BY <1>2 DEF Change, S!Begin, S!FindRoom, S!InsertRoom, S!RereadRoom, S!ReadRow,
                S!Reload, S!Update, S!Rollback, S!Commit, S!Write, vars
  <2>5. \A i \in Booker : status'[i] = "absent" <=> status[i] = "absent"
    BY <1>0, <2>4 DEF OneTable
  <2>6. ASSUME NEW q \in Patcher, patchPc'[q] \in {"reload", "update"} \/ q \in wrote'
        PROVE  status'[S!id(q)] # "absent"
    BY <1>0, <2>1, <2>2, <2>3, <2>5, <2>6 DEF OneTable
  <2> QED BY <1>0, <2>1, <2>5, <2>6 DEF OneTable
<1>3. CASE ProcessRestart
  <2>1. UNCHANGED <<booked, wrote, patchCall, status>> /\ patchPc' = Dead(patchPc, S!Open)
    BY <1>3 DEF ProcessRestart, Restart
  <2>2. \A r \in Patcher : patchPc'[r] = patchPc[r] \/ patchPc'[r] = "failed"
    BY <1>0, <2>1 DEF Dead
  <2> QED BY <1>0, <2>1, <2>2 DEF OneTable, S!id
<1>4. CASE Remind \/ Tick \/ ServiceQuiet \/ UNCHANGED serviceVars
  <2>1. UNCHANGED <<booked, wrote, patchCall, status, patchPc>>
    BY <1>4 DEF Remind, Tick, ServiceQuiet, serviceVars, bookVars, patchVars, vars, Fire,
                Query, QueryFails, TimePasses
  <2> QED BY <1>0, <2>1 DEF OneTable, S!id
<1> QED BY <1>1, <1>2, <1>3, <1>4 DEF ServiceNext

\* Only a query tells anybody, and it tells the confirmed; a room is never removed.
LEMMA ToldStep == IInv /\ [ServiceNext]_serviceVars => ToldHasRoom'
<1> SUFFICES ASSUME IInv, [ServiceNext]_serviceVars, NEW i \in Id, told'[i] > 0
             PROVE  i \in room'
  BY DEF ToldHasRoom
<1>1. told[i] > 0 \/ Confirmed(i)
  <2>1. [Next]_vars
    BY MapsToReminder DEF IInv, SU!Core
  <2> QED BY <2>1 DEF Next, vars, TimePasses, Fire, Query, QueryFails, Restart,
                      StatusChanges, IInv, TypeOK
<1>2. i \in room
  BY <1>1, ServiceAssumption DEF IInv, ToldHasRoom, SU!Core, SU!ConfirmedHasRoom, Confirmed
<1>3. room \subseteq room'
  BY DEF ServiceNext, Book, Change, Remind, Tick, ProcessRestart, ServiceQuiet,
         serviceVars, patchVars, S!Begin, S!FindRoom, S!InsertRoom, S!RereadRoom,
         S!ReadRow, S!Reload, S!Update, S!Rollback, S!Commit
<1> QED BY <1>2, <1>3

\* A room is made for a confirmation, and the confirmation goes on while nothing fails.
LEMMA ConfirmerStep ==
    IInv /\ [ServiceNext]_serviceVars => RoomsConfirmedUnlessCrashed'
<1> SUFFICES ASSUME IInv, [ServiceNext]_serviceVars, faults' = 0
             PROVE  S!RoomHasConfirmer'
  BY DEF RoomsConfirmedUnlessCrashed
<1> USE DEF S!RoomHasConfirmer, SU!RoomHasConfirmer, S!id, SU!id, S!Confirms, SU!Confirms
<1>1. faults \in Nat /\ ~ProcessRestart
  BY ClockAssumption DEF IInv, TypeOK, ProcessRestart, Restart, Fault
<1>2. faults = 0
  <2>1. [Next]_vars
    BY MapsToReminder DEF IInv, SU!Core
  <2>2. faults' = faults \/ faults' = faults + 1
    BY <2>1 DEF Next, vars, TimePasses, Fire, Query, QueryFails, Restart, Fault,
                StatusChanges
  <2> QED BY <1>1, <2>2
<1>3. SU!IInv
  <2>1. S!RoomHasConfirmer
    BY <1>2 DEF IInv, RoomsConfirmedUnlessCrashed
  <2> QED BY <2>1 DEF IInv, SU!IInv
<1>4. [SU!Next]_(SU!vars)
  BY <1>1, StatusMaps
<1>5. SU!RoomHasConfirmer'
  BY <1>3, <1>4, SU!ConfirmerStep, StatusConstants
<1> QED BY <1>5

LEMMA InitInvariant == ServiceInit => IInv
<1> SUFFICES ASSUME ServiceInit
             PROVE  IInv
  OBVIOUS
<1>1. Init /\ B!Init /\ S!Init /\ \A i \in Id : status[i] = "absent"
  BY DEF ServiceInit
<1>2. BP!IInv
  BY <1>1, BP!InitInvariant, BookingConstants DEF B!Init, BP!Init
<1>3. SU!IInv
  BY <1>1, SU!InitInvariant, StatusConstants DEF S!Init, SU!Init
<1>4. OneTable
  BY <1>1, ServiceAssumption DEF OneTable, B!Init, S!Init
<1>5. ToldHasRoom
  BY <1>1 DEF ToldHasRoom, Init
<1>6. RoomsConfirmedUnlessCrashed
  BY <1>1 DEF RoomsConfirmedUnlessCrashed, S!RoomHasConfirmer, S!Init
<1> QED BY <1>1, <1>2, <1>3, <1>4, <1>5, <1>6, InitTypes DEF IInv, SU!IInv

LEMMA InvariantStep == IInv /\ [ServiceNext]_serviceVars => IInv'
<1>1. IInv /\ [ServiceNext]_serviceVars => TypeOK'
  BY MapsToReminder, TypeStep DEF IInv, SU!Core
<1> QED BY <1>1, BookingStep, StatusStep, TableStep, ToldStep, ConfirmerStep DEF IInv

THEOREM InvariantHolds == ServiceSpec => []IInv
  BY InitInvariant, InvariantStep, PTL DEF ServiceSpec

-----------------------------------------------------------------------------
\* What the service promises.

\* The service implements the reminder: whatever the calls, the pool and a restart
\* do, the table changes only as the reminder expects it to.
THEOREM ImplementsReminder == ServiceSpec => Spec
<1>1. ServiceInit => Init
  BY DEF ServiceInit
<1>2. IInv /\ [ServiceNext]_serviceVars => [Next]_vars
  BY MapsToReminder DEF IInv, SU!Core
<1> QED BY <1>1, <1>2, InvariantHolds, PTL DEF ServiceSpec, Spec

\* What the reminder promises holds in the whole service.
THEOREM ServiceReminds ==
    ServiceSpec => [](TypeOK /\ ToldUnlessSkipped /\ WholeMinutesTold /\ AtMostTwice)
  BY ImplementsReminder, TypeCorrect, NobodyForgotten, WholeMinutesServed,
     NobodyToldThrice, PTL

\* The variables of the service keep their types.
THEOREM ServiceTypeCorrect == ServiceSpec => []ServiceTypeOK
<1>1. BP!TypeOK => B!TypeOK
  BY DEF BP!TypeOK, B!TypeOK, BP!SpaceState, B!SpaceState, BP!Statement, B!Statement,
         BP!Reply, B!Reply
<1>2. SU!TypeOK => S!TypeOK
  BY DEF SU!TypeOK, S!TypeOK, SU!Status, S!Status, SU!Statement, S!Statement, SU!Row,
         S!Row, SU!Room, S!Room, SU!End, S!End, SU!Reply, S!Reply
<1>3. IInv => ServiceTypeOK
  BY <1>1, <1>2 DEF IInv, BP!IInv, SU!Core, ServiceTypeOK
<1> QED BY <1>3, InvariantHolds, PTL

\* No space is booked twice and no refusal is untrue, however often the process dies
\* and wherever the calls under way are then.
THEOREM ServiceNeverDoubleBooks ==
    ServiceSpec => [](B!NoDoubleBooking /\ B!RefusalJustified)
<1>1. IInv => B!NoDoubleBooking
  BY DEF IInv, BP!IInv, BP!NoDoubleBooking, B!NoDoubleBooking, BP!SameSpace,
         B!SameSpace, BP!Instants, B!Instants
<1>2. IInv => B!RefusalJustified
  BY DEF IInv, BP!IInv, BP!RefusalJustified, B!RefusalJustified, BP!SameSpace,
         B!SameSpace, BP!Overlaps, B!Overlaps
<1> QED BY <1>1, <1>2, InvariantHolds, PTL

\* The period a call has found free stays free until it has booked it, also when the
\* process dies under the other calls.
THEOREM ServiceCheckNeverStale == ServiceSpec => []B!CheckStillHolds
<1>1. IInv => B!CheckStillHolds
  BY DEF IInv, BP!IInv, BP!CheckStillHolds, B!CheckStillHolds, BP!SameSpace,
         B!SameSpace, BP!Overlaps, B!Overlaps
<1> QED BY <1>1, InvariantHolds, PTL

\* Whoever is reminded has a chat room, although the room is not written by the
\* transaction that confirms him and the process may die between any two statements.
THEOREM RemindedHasRoom == ServiceSpec => []ToldHasRoom
<1>1. IInv => ToldHasRoom
  BY DEF IInv
<1> QED BY <1>1, InvariantHolds, PTL

\* Over restarts, too, a confirmed reservation has its room and no INSERT of a room
\* meets one; as long as nothing has failed every room has its confirmation.
THEOREM ServiceRooms ==
    ServiceSpec => [](S!ConfirmedHasRoom /\ S!NoRoomCollision /\ RoomsConfirmedUnlessCrashed)
<1>1. IInv => S!ConfirmedHasRoom /\ S!NoRoomCollision /\ RoomsConfirmedUnlessCrashed
  BY DEF IInv, SU!Core, SU!ConfirmedHasRoom, S!ConfirmedHasRoom, SU!NoRoomCollision,
         S!NoRoomCollision, SU!id, S!id
<1> QED BY <1>1, InvariantHolds, PTL

\* A completed reservation gets another status only from a stale copy: not from a
\* booking, not from the reminder, and not from a restart.
THEOREM ServiceCompletedFinal == ServiceSpec => S!CompletedUnlessStale
<1> DEFINE FinalUnlessStale ==
        \A i \in Booker : status[i] = "COMPLETED" /\ status'[i] # "COMPLETED" =>
            \E r \in wrote \cap stale : S!id(r) = i /\ patchPc[r] = "commit"
<1>1. IInv /\ [ServiceNext]_serviceVars => [FinalUnlessStale]_(S!vars)
  <2> SUFFICES ASSUME IInv, [ServiceNext]_serviceVars
               PROVE  FinalUnlessStale
    OBVIOUS
  <2>1. CASE [SU!Next]_(SU!vars)
    BY <2>1, SU!FinalStep, StatusConstants DEF IInv, SU!FinalUnlessStale, SU!id, S!id
  <2>2. CASE ProcessRestart
    BY <2>2 DEF ProcessRestart, Restart
  <2> QED BY <2>1, <2>2, StatusMaps
<1> QED BY <1>1, InvariantHolds, PTL DEF ServiceSpec, S!CompletedUnlessStale

-----------------------------------------------------------------------------
\* The service implements the ledger of bookings.

\* The calls that die are open in the ledger, and it holds what they committed.
LEMMA RestartIsCrash ==
    ASSUME BP!IInv, ProcessRestart
    PROVE  BP!Ledger!Crash
<1>1. /\ UNCHANGED <<bookCall, guarded, booked>>
      /\ bookPc' = Dead(bookPc, B!Open)
  BY DEF ProcessRestart
<1>2. bookPc \in [Booker -> {"idle"} \cup BP!Statement \cup BP!Reply]
  BY DEF BP!IInv, BP!TypeOK
<1>3. bookPc' = [r \in Booker |-> IF r \in B!Open THEN "failed" ELSE bookPc[r]]
  BY <1>1, <1>2 DEF Dead
<1>4. \A r \in B!Open : r \in Booker /\ bookPc[r] \notin BP!Reply
  BY DEF B!Open, B!Statement, BP!Reply
<1>5. "failed" \in BP!Reply
  BY DEF BP!Reply
<1>6. [r \in Booker |-> IF bookPc'[r] \in BP!Reply THEN bookPc'[r] ELSE "open"] =
      [r \in Booker |->
          IF /\ r \in B!Open
             /\ [q \in Booker |-> IF bookPc[q] \in BP!Reply THEN bookPc[q] ELSE "open"][r]
                    = "open"
          THEN "failed"
          ELSE [q \in Booker |-> IF bookPc[q] \in BP!Reply THEN bookPc[q] ELSE "open"][r]]
  BY <1>3, <1>4, <1>5
<1>7. B!Open \in SUBSET Booker
  BY <1>4
<1> QED BY <1>1, <1>6, <1>7 DEF BP!Ledger!Crash

LEMMA LedgerMaps ==
    IInv /\ [ServiceNext]_serviceVars => [BP!Ledger!Next]_(BP!Ledger!vars)
<1> SUFFICES ASSUME IInv, [ServiceNext]_serviceVars
             PROVE  [BP!Ledger!Next]_(BP!Ledger!vars)
  OBVIOUS
<1>1. BP!IInv
  BY DEF IInv
<1>2. CASE \E r \in Booker : Book(r)
  BY <1>1, <1>2, BookMapsToBooking, BP!LedgerStep, BookingConstants
<1>3. CASE ProcessRestart
  BY <1>1, <1>3, RestartIsCrash DEF BP!Ledger!Next
<1>4. CASE UNCHANGED bookVars
  BY <1>1, <1>4, BP!LedgerStep, BookingConstants DEF bookVars, BP!vars
<1> QED BY <1>2, <1>3, <1>4 DEF ServiceNext, Change, Remind, Tick, ServiceQuiet, serviceVars

\* The ledger of the service and that of its proofs are one.
LEMMA SameLedger ==
    /\ BP!Ledger!Init => B!Ledger!Init
    /\ [BP!Ledger!Next]_(BP!Ledger!vars) => [B!Ledger!Next]_(B!Ledger!vars)
<1> USE DEF BP!Reply, B!Reply
<1>1. BP!Ledger!Init => B!Ledger!Init
  BY DEF BP!Ledger!Init, B!Ledger!Init, BP!Ledger!Calls, B!Ledger!Calls
<1> USE DEF BP!Ledger!Answer, B!Ledger!Answer, BP!Ledger!Enter, B!Ledger!Enter,
            BP!Ledger!Clash, B!Ledger!Clash, BP!Ledger!SameSpace, B!Ledger!SameSpace,
            BP!Ledger!Instants, B!Ledger!Instants
<1>2. ASSUME NEW r \in Booker
      PROVE  /\ BP!Ledger!Accept(r) => B!Ledger!Accept(r)
             /\ BP!Ledger!Fail(r) => B!Ledger!Fail(r)
             /\ BP!Ledger!Refuse(r) => B!Ledger!Refuse(r)
  BY DEF BP!Ledger!Accept, B!Ledger!Accept, BP!Ledger!Fail, B!Ledger!Fail,
         BP!Ledger!Refuse, B!Ledger!Refuse, BP!Ledger!Contests, B!Ledger!Contests
<1>3. BP!Ledger!Crash => B!Ledger!Crash
  BY DEF BP!Ledger!Crash, B!Ledger!Crash
<1>4. UNCHANGED BP!Ledger!vars => UNCHANGED B!Ledger!vars
  BY DEF BP!Ledger!vars, B!Ledger!vars
<1>5. BP!Ledger!Next => B!Ledger!Next
  BY <1>2, <1>3 DEF BP!Ledger!Next, B!Ledger!Next
<1> QED BY <1>1, <1>4, <1>5

\* Whatever the calls, the reminder and the deaths of the process do, the bookings of
\* the service are the ledger that POST /reservations/:spaceId promises.
THEOREM ServiceImplementsLedger == ServiceSpec => LedgerSurvives
<1>1. ServiceInit => BP!Ledger!Init
  BY BP!LedgerInit, BookingConstants DEF ServiceInit, B!Init, BP!Init
<1> QED BY <1>1, LedgerMaps, SameLedger, InvariantHolds, PTL
        DEF ServiceSpec, LedgerSurvives, B!ImplementsLedger, B!Ledger!Spec
=============================================================================
