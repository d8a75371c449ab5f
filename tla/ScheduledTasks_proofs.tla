------------------------ MODULE ScheduledTasks_proofs ------------------------
(***************************************************************************)
(* One batch a day, exclusive claims and final first ends, for any number  *)
(* of processes, tasks, days, configurations and faults.                   *)
(***************************************************************************)
EXTENDS ScheduledTasks, TLAPS

USE TasksAssumption
USE DEF vars

-----------------------------------------------------------------------------
(* Times, keys and records.                                                *)

LEMMA DayFact ==
  ASSUME NEW t \in Times
  PROVE  Day(t) \in Days /\ Day(t) \in Nat
  BY DEF Day, Days, Times

LEMMA DueFact ==
  ASSUME NEW type \in Types, NEW t \in Times, NEW v \in Versions
  PROVE  ScheduledAt(type, t, v) \in Nat
  <1>1. Day(t) \in Nat /\ t \in Nat /\ t % Interval \in 0..t
    BY DayFact DEF Times
  <1>2. Day(t) * DayLength \in Nat
    BY <1>1
  <1>3. type \in AllTypes /\ Slot[type] \in Nat /\ OpenSlot[v] \in Nat
    OBVIOUS
  <1> HIDE DEF Day
  <1> QED
    BY <1>1, <1>2, <1>3 DEF ScheduledAt, DailyAt

LEMMA KeyFact ==
  ASSUME NEW type \in Types, NEW t \in Times, NEW v \in Versions
  PROVE  Key(type, t, v) \in Keys /\ ScheduledAt(type, t, v) \in Dues
  BY DEF Keys, Dues

\* The key of a batch is its day.
LEMMA BatchKey ==
  ASSUME NEW k \in Keys, NEW j \in Keys, k.type = "OPENLIST", j.type = "OPENLIST",
         k.day = j.day
  PROVE  k = j
  <1>1. PICK type \in Types, t \in Times, v \in Versions : k = Key(type, t, v)
    BY DEF Keys
  <1>2. PICK type2 \in Types, t2 \in Times, v2 \in Versions : j = Key(type2, t2, v2)
    BY DEF Keys
  <1>3. type = "OPENLIST" /\ type2 = "OPENLIST"
    BY <1>1, <1>2 DEF Key
  <1>4. Day(t) = Day(t2)
    BY <1>1, <1>2 DEF Key
  <1> HIDE DEF Day
  <1>5. k = [type |-> "OPENLIST", day |-> Day(t), tag |-> 0]
    BY <1>1, <1>3 DEF Key
  <1>6. j = [type |-> "OPENLIST", day |-> Day(t2), tag |-> 0]
    BY <1>2, <1>3 DEF Key
  <1> QED
    BY <1>4, <1>5, <1>6

LEMMA KeyDay ==
  ASSUME NEW t \in Times, NEW v \in Versions
  PROVE  /\ Key("OPENLIST", t, v).day = Day(t)
         /\ Key("OPENLIST", t, v).type = "OPENLIST"
  BY DEF Key

LEMMA DuesNat == Dues \subseteq Nat
  BY DueFact DEF Dues

LEMMA RowNat ==
  ASSUME NEW r \in Rows
  PROVE  r.due \in Nat /\ r.startedAt \in Nat /\ r.attempts \in Nat
  <1>1. r.due \in Dues \union {0} /\ r.startedAt \in Times /\ r.attempts \in Nat
    BY DEF Rows
  <1>2. Dues \union {0} \subseteq Nat /\ Times \subseteq Nat
    BY DuesNat DEF Times
  <1> QED
    BY <1>1, <1>2

LEMMA NoRowType == NoRow \in Rows
  <1>1. 0 \in Times
    BY DEF Times
  <1> QED
    BY <1>1 DEF NoRow, Rows

LEMMA QueuedType ==
  ASSUME NEW due \in Dues
  PROVE  /\ [NoRow EXCEPT !.status = "QUEUED", !.due = due] \in Rows
         /\ [NoRow EXCEPT !.status = "QUEUED", !.due = due].status = "QUEUED"
         /\ [NoRow EXCEPT !.status = "QUEUED", !.due = due].attempts = 0
         /\ [NoRow EXCEPT !.status = "QUEUED", !.due = due].startedAt = 0
  <1>1. 0 \in Times
    BY DEF Times
  <1> QED
    BY <1>1 DEF NoRow, Rows

LEMMA RunningType ==
  ASSUME NEW r \in Rows, NEW at \in Times
  PROVE  /\ [r EXCEPT !.status = "RUNNING", !.startedAt = at, !.attempts = @ + 1] \in Rows
         /\ [r EXCEPT !.status = "RUNNING", !.startedAt = at, !.attempts = @ + 1].due = r.due
  <1>1. r.attempts \in Nat /\ r.attempts + 1 \in Nat
    BY DEF Rows
  <1>2. \A n \in Nat : /\ [r EXCEPT !.status = "RUNNING", !.startedAt = at, !.attempts = n] \in Rows
                       /\ [r EXCEPT !.status = "RUNNING", !.startedAt = at,
                                    !.attempts = n].due = r.due
    BY DEF Rows
  <1> QED
    BY <1>1, <1>2

LEMMA EndedType ==
  ASSUME NEW r \in Rows, NEW status \in Ended
  PROVE  [r EXCEPT !.status = status] \in Rows
  BY DEF Rows, Ended

\* A lane that is not idle has a key, a time and a claim in hand.
LEMMA BusyType ==
  ASSUME TypeOK, NEW l \in Lanes, Busy(l)
  PROVE  /\ lane[l] \in Found /\ lane[l].key \in Keys /\ lane[l].at \in Times
         /\ lane[l].attempt \in Nat /\ rows[lane[l].key] \in Rows
  <1>1. lane[l] \in {Idle} \union Found
    BY DEF TypeOK
  <1>2. Idle.step = "idle"
    BY DEF Idle
  <1>3. lane[l] \in Found
    BY <1>1, <1>2 DEF Busy
  <1>4. lane[l].key \in Keys /\ lane[l].at \in Times /\ lane[l].attempt \in Nat
    BY <1>3 DEF Found
  <1>5. rows \in [Keys -> Rows]
    BY DEF TypeOK
  <1> QED
    BY <1>3, <1>4, <1>5

LEMMA IdleFact == Idle.step = "idle" /\ Idle \in {Idle} \union Found
  BY DEF Idle

\* What the update of a claim does to the journal.
LEMMA ClaimedFact ==
  ASSUME TypeOK, NEW l \in Lanes, Busy(l)
  PROVE  LET k == lane[l].key
             claimed == ClaimedRows(lane[l])
         IN  /\ claimed \in [Keys -> Rows]
             /\ \A j \in Keys : j # k => claimed[j] = rows[j]
             /\ claimed[k].status = "RUNNING" /\ claimed[k].due = rows[k].due
             /\ claimed[k].startedAt = lane[l].at
             /\ claimed[k].attempts = rows[k].attempts + 1
  <1> DEFINE k == lane[l].key
             row == [rows[k] EXCEPT !.status = "RUNNING", !.startedAt = lane[l].at,
                                    !.attempts = @ + 1]
  <1>1. k \in Keys /\ lane[l].at \in Times /\ rows[k] \in Rows
    BY BusyType
  <1>2. row \in Rows /\ row.due = rows[k].due
    BY <1>1, RunningType
  <1>3. row.status = "RUNNING" /\ row.startedAt = lane[l].at
        /\ row.attempts = rows[k].attempts + 1
    BY <1>1 DEF Rows
  <1>4. rows \in [Keys -> Rows]
    BY DEF TypeOK
  <1>5. ClaimedRows(lane[l]) = [rows EXCEPT ![k] = row]
    BY <1>1, <1>4 DEF ClaimedRows
  <1> QED
    BY <1>1, <1>2, <1>3, <1>4, <1>5

LEMMA FinishedFact ==
  ASSUME TypeOK, NEW l \in Lanes, NEW status \in Ended, Busy(l)
  PROVE  LET k == lane[l].key
             finished == [rows EXCEPT ![k].status = status]
         IN  /\ finished \in [Keys -> Rows]
             /\ \A j \in Keys : j # k => finished[j] = rows[j]
             /\ finished[k].status = status /\ finished[k].due = rows[k].due
             /\ finished[k].startedAt = rows[k].startedAt
             /\ finished[k].attempts = rows[k].attempts
  <1> DEFINE k == lane[l].key
             row == [rows[k] EXCEPT !.status = status]
  <1>1. k \in Keys /\ rows[k] \in Rows
    BY BusyType
  <1>2. row \in Rows
    BY <1>1, EndedType
  <1>3. row.status = status /\ row.due = rows[k].due
        /\ row.startedAt = rows[k].startedAt /\ row.attempts = rows[k].attempts
    BY <1>1 DEF Rows
  <1>4. rows \in [Keys -> Rows]
    BY DEF TypeOK
  <1>5. [rows EXCEPT ![k].status = status] = [rows EXCEPT ![k] = row]
    BY <1>1, <1>4
  <1> QED
    BY <1>1, <1>2, <1>3, <1>4, <1>5

LEMMA FoundStep ==
  ASSUME NEW w \in Found, NEW step \in {"found", "claimed", "running", "skipping"}
  PROVE  /\ [w EXCEPT !.step = step] \in Found
         /\ [w EXCEPT !.step = step].step = step
         /\ [w EXCEPT !.step = step].key = w.key
         /\ [w EXCEPT !.step = step].at = w.at
         /\ [w EXCEPT !.step = step].attempt = w.attempt
  BY DEF Found

LEMMA FoundClaim ==
  ASSUME NEW w \in Found, NEW attempt \in Nat
  PROVE  /\ [w EXCEPT !.step = "claimed", !.attempt = attempt] \in Found
         /\ [w EXCEPT !.step = "claimed", !.attempt = attempt].step = "claimed"
         /\ [w EXCEPT !.step = "claimed", !.attempt = attempt].key = w.key
         /\ [w EXCEPT !.step = "claimed", !.attempt = attempt].at = w.at
         /\ [w EXCEPT !.step = "claimed", !.attempt = attempt].attempt = attempt
  BY DEF Found

-----------------------------------------------------------------------------
(* Types.                                                                  *)

LEMMA InitType == Init => TypeOK
  <1> SUFFICES ASSUME Init PROVE TypeOK
    OBVIOUS
  <1>1. 0 \in Times /\ 1 \in Versions
    BY DEF Times, Versions
  <1>2. rows \in [Keys -> Rows]
    BY NoRowType DEF Init
  <1>3. NoPoll \in [at: Times, version: Versions, left: SUBSET Types]
    BY <1>1 DEF NoPoll
  <1>4. poll \in [Servers -> [at: Times, version: Versions, left: SUBSET Types]]
    BY <1>3 DEF Init
  <1>5. lane \in [Lanes -> {Idle} \union Found]
    BY DEF Init
  <1> QED
    BY <1>1, <1>2, <1>4, <1>5 DEF Init, TypeOK

Polls == [at: Times, version: Versions, left: SUBSET Types]

LEMMA NoPollType == NoPoll \in Polls
  <1>1. 0 \in Times /\ 1 \in Versions
    BY DEF Times, Versions
  <1> QED
    BY <1>1 DEF NoPoll, Polls

\* One lane goes somewhere well typed.
LEMMA LaneType ==
  ASSUME TypeOK, NEW l \in Lanes, NEW w \in {Idle} \union Found,
         lane' = [lane EXCEPT ![l] = w]
  PROVE  lane' \in [Lanes -> {Idle} \union Found]
  BY DEF TypeOK

LEMMA EnqueueType ==
  ASSUME TypeOK, NEW s \in Servers, NEW type \in Types, Enqueue(s, type)
  PROVE  /\ TypeOK'
         /\ \/ rows' = rows
            \/ \E k \in Keys : /\ rows[k].status = "NONE"
                               /\ \A j \in Keys : j # k => rows'[j] = rows[j]
                               /\ rows'[k].status = "QUEUED" /\ rows'[k].attempts = 0
                               /\ rows'[k].startedAt = 0
  <1> DEFINE p == poll[s]
             k == Key(type, p.at, p.version)
             due == ScheduledAt(type, p.at, p.version)
             row == [NoRow EXCEPT !.status = "QUEUED", !.due = due]
  <1>1. poll \in [Servers -> Polls] /\ rows \in [Keys -> Rows]
    BY DEF TypeOK, Polls
  <1>2. p \in Polls
    BY <1>1
  <1>3. p.at \in Times /\ p.version \in Versions
    BY <1>2 DEF Polls
  <1>4. k \in Keys /\ due \in Dues
    BY <1>3, KeyFact
  <1>5. row \in Rows /\ row.status = "QUEUED" /\ row.attempts = 0 /\ row.startedAt = 0
    BY <1>4, QueuedType
  <1>6. [p EXCEPT !.left = @ \ {type}] \in Polls
    BY <1>2 DEF Polls
  <1>7. poll' = [poll EXCEPT ![s] = IF p.left = {type} THEN NoPoll
                                    ELSE [p EXCEPT !.left = @ \ {type}]]
    BY DEF Enqueue
  <1>8. poll' \in [Servers -> Polls]
    BY <1>1, <1>6, <1>7, NoPollType
  <1>9. rows' = IF rows[k].status # "NONE" THEN rows ELSE [rows EXCEPT ![k] = row]
    BY DEF Enqueue
  <1>10. UNCHANGED <<now, version, lane, batches, faults>>
    BY DEF Enqueue
  <1> HIDE DEF k, row
  <1>11. rows' \in [Keys -> Rows]
    BY <1>1, <1>4, <1>5, <1>9
  <1>12. \/ rows' = rows
         \/ \E j \in Keys : /\ rows[j].status = "NONE"
                            /\ \A i \in Keys : i # j => rows'[i] = rows[i]
                            /\ rows'[j].status = "QUEUED" /\ rows'[j].attempts = 0
                            /\ rows'[j].startedAt = 0
    BY <1>1, <1>4, <1>5, <1>9
  <1>13. TypeOK'
    BY <1>8, <1>10, <1>11 DEF TypeOK, Polls
  <1> QED
    BY <1>12, <1>13

LEMMA LaneStepType ==
  ASSUME TypeOK, NEW l \in Lanes,
         LaneStep(l) \/ ClaimFails(l) \/ FinishFails(l)
  PROVE  TypeOK'
  <1>1. CASE \E k \in Keys : FindNextDue(l, k)
    <2>1. PICK k \in Keys : FindNextDue(l, k)
      BY <1>1
    <2> DEFINE w == [step |-> "found", key |-> k, at |-> now, attempt |-> 0,
                     queued |-> rows[k].status = "QUEUED"]
    <2>2. now \in Times /\ (rows[k].status = "QUEUED") \in BOOLEAN
      BY DEF TypeOK
    <2>3. w \in Found
      BY <2>2 DEF Found
    <2>4. lane' = [lane EXCEPT ![l] = w]
          /\ UNCHANGED <<now, version, rows, poll, batches, faults>>
      BY <2>1 DEF FindNextDue
    <2>5. lane' \in [Lanes -> {Idle} \union Found]
      BY <2>3, <2>4, LaneType
    <2> QED
      BY <2>4, <2>5 DEF TypeOK
  <1>2. CASE Claim(l)
    <2>1. Busy(l) /\ UNCHANGED <<now, version, poll, batches, faults>>
      BY <1>2 DEF Claim, Busy
    <2>2. lane[l] \in Found /\ ClaimedRows(lane[l]) \in [Keys -> Rows]
          /\ rows[lane[l].key] \in Rows
      BY <2>1, BusyType, ClaimedFact
    <2> DEFINE w == [lane[l] EXCEPT !.step = "claimed",
                                    !.attempt = rows[lane[l].key].attempts + 1]
    <2>3. w \in Found
      <3>1. rows[lane[l].key].attempts + 1 \in Nat
        BY <2>2 DEF Rows
      <3> QED
        BY <2>2, <3>1, FoundClaim
    <2>4. lane \in [Lanes -> {Idle} \union Found] /\ rows \in [Keys -> Rows]
      BY DEF TypeOK
    <2>5. \/ rows' = ClaimedRows(lane[l]) /\ lane' = [lane EXCEPT ![l] = w]
          \/ rows' = rows /\ lane' = [lane EXCEPT ![l] = Idle]
      BY <1>2, <2>4 DEF Claim
    <2>6. rows' \in [Keys -> Rows]
      BY <2>2, <2>4, <2>5
    <2>7. lane' \in [Lanes -> {Idle} \union Found]
      BY <2>3, <2>5, LaneType
    <2> QED
      BY <2>1, <2>6, <2>7 DEF TypeOK
  <1>3. CASE Execute(l)
    <2>1. Busy(l) /\ UNCHANGED <<now, version, rows, poll, faults>>
      BY <1>3 DEF Execute, Busy
    <2>2. lane[l] \in Found
      BY <2>1, BusyType
    <2>3. lane \in [Lanes -> {Idle} \union Found] /\ now \in Times /\ batches \in [Days -> Nat]
      BY DEF TypeOK
    <2>4. \/ lane' = [lane EXCEPT ![l] = [lane[l] EXCEPT !.step = "running"]]
          \/ lane' = [lane EXCEPT ![l] = [lane[l] EXCEPT !.step = "skipping"]]
      BY <1>3, <2>3 DEF Execute
    <2>5. [lane[l] EXCEPT !.step = "running"] \in Found
          /\ [lane[l] EXCEPT !.step = "skipping"] \in Found
      BY <2>2, FoundStep
    <2>6. lane' \in [Lanes -> {Idle} \union Found]
      BY <2>4, <2>5, LaneType
    <2>7. batches' = batches \/ batches' = [batches EXCEPT ![Day(now)] = @ + 1]
      BY <1>3 DEF Execute
    <2>8. batches' \in [Days -> Nat]
      BY <2>3, <2>7, DayFact
    <2> QED
      BY <2>1, <2>6, <2>8 DEF TypeOK
  <1>4. CASE \E status \in Ended : Finish(l, status)
    <2>1. PICK status \in Ended : Finish(l, status)
      BY <1>4
    <2>2. Busy(l) /\ lane' = [lane EXCEPT ![l] = Idle]
          /\ rows' = [rows EXCEPT ![lane[l].key].status = status]
          /\ UNCHANGED <<now, version, poll, batches, faults>>
      BY <2>1 DEF Finish, Busy
    <2>3. rows' \in [Keys -> Rows]
      BY <2>2, FinishedFact
    <2>4. lane' \in [Lanes -> {Idle} \union Found]
      BY <2>2, LaneType
    <2> QED
      BY <2>2, <2>3, <2>4 DEF TypeOK
  <1>5. CASE ClaimFails(l)
    <2>1. Busy(l) /\ lane' = [lane EXCEPT ![l] = Idle] /\ Fault
          /\ UNCHANGED <<now, version, poll, batches>>
      BY <1>5 DEF ClaimFails, Busy
    <2>2. rows' = ClaimedRows(lane[l]) \/ rows' = rows
      BY <1>5 DEF ClaimFails
    <2>3. rows \in [Keys -> Rows] /\ faults \in Nat
      BY DEF TypeOK
    <2>4. rows' \in [Keys -> Rows]
      BY <2>1, <2>2, <2>3, ClaimedFact
    <2>5. lane' \in [Lanes -> {Idle} \union Found]
      BY <2>1, LaneType
    <2>6. faults' \in Nat
      BY <2>1, <2>3 DEF Fault
    <2> QED
      BY <2>1, <2>4, <2>5, <2>6 DEF TypeOK
  <1>6. CASE FinishFails(l)
    <2>1. lane' = [lane EXCEPT ![l] = Idle] /\ Fault
          /\ UNCHANGED <<now, version, rows, poll, batches>>
      BY <1>6 DEF FinishFails
    <2>2. lane' \in [Lanes -> {Idle} \union Found]
      BY <2>1, LaneType
    <2>3. faults' \in Nat
      BY <2>1 DEF Fault, TypeOK
    <2> QED
      BY <2>1, <2>2, <2>3 DEF TypeOK
  <1> QED
    BY <1>1, <1>2, <1>3, <1>4, <1>5, <1>6 DEF LaneStep

LEMMA ServerStepType ==
  ASSUME TypeOK, NEW s \in Servers,
         EnqueueDueTasks(s) \/ EnqueueFails(s) \/ Crash(s)
         \/ \E v \in Versions : Reload(s, v)
  PROVE  TypeOK'
  <1>0. poll \in [Servers -> Polls] /\ now \in Times /\ faults \in Nat
        /\ version \in [Servers -> Versions]
    BY DEF TypeOK, Polls
  <1>1. CASE EnqueueDueTasks(s)
    <2>1. DueTypes(now, version[s]) \in SUBSET Types
      BY DEF DueTypes
    <2>2. [at |-> now, version |-> version[s], left |-> DueTypes(now, version[s])] \in Polls
      BY <1>0, <2>1 DEF Polls
    <2>3. poll' \in [Servers -> Polls] /\ UNCHANGED <<now, version, rows, lane, batches, faults>>
      BY <1>0, <1>1, <2>2 DEF EnqueueDueTasks
    <2> QED
      BY <2>3 DEF TypeOK, Polls
  <1>2. CASE EnqueueFails(s)
    <2>1. poll' \in [Servers -> Polls] /\ faults' \in Nat
          /\ UNCHANGED <<now, version, rows, lane, batches>>
      BY <1>0, <1>2, NoPollType DEF EnqueueFails, Fault
    <2> QED
      BY <2>1 DEF TypeOK, Polls
  <1>3. CASE Crash(s)
    <2>1. poll' \in [Servers -> Polls] /\ faults' \in Nat
          /\ UNCHANGED <<now, version, rows, batches>>
      BY <1>0, <1>3, NoPollType DEF Crash, Fault
    <2>2. lane' \in [Lanes -> {Idle} \union Found]
      BY <1>3 DEF Crash, TypeOK
    <2> QED
      BY <2>1, <2>2 DEF TypeOK, Polls
  <1>4. CASE \E v \in Versions : Reload(s, v)
    <2>1. version' \in [Servers -> Versions]
          /\ UNCHANGED <<now, rows, poll, lane, batches, faults>>
      BY <1>0, <1>4 DEF Reload
    <2> QED
      BY <2>1 DEF TypeOK
  <1> QED
    BY <1>1, <1>2, <1>3, <1>4

LEMMA TickType ==
  ASSUME TypeOK, Tick
  PROVE  TypeOK' /\ now <= now'
  <1>1. now' \in Times /\ now <= now'
    BY DEF TypeOK, Times, Tick
  <1> QED
    BY <1>1 DEF Tick, TypeOK

-----------------------------------------------------------------------------
(* The inductive invariant.                                                *)

LEMMA InitInv == Init => IndInv
  <1> SUFFICES ASSUME Init PROVE IndInv
    OBVIOUS
  <1>1. TypeOK
    BY InitType
  <1>2. \A l \in Lanes : lane[l].step = "idle"
    BY IdleFact DEF Init
  <1>3. \A l \in Lanes : ~Busy(l) /\ \A k \in Keys : ~Holds(l, k)
    BY <1>2 DEF Busy, Holds
  <1>4. \A k \in Keys : rows[k].status = "NONE" /\ rows[k].attempts = 0
                        /\ rows[k].startedAt = 0
    BY DEF Init, NoRow
  <1>5. Journal
    BY <1>3, <1>4 DEF Journal, Init, Ended
  <1>6. \A k \in Keys : k.type = "OPENLIST" => k.day \in Days
    <2>1. \A type \in Types, t \in Times, v \in Versions : Key(type, t, v).day \in Days
      BY DayFact DEF Key
    <2> QED
      BY <2>1 DEF Keys
  <1>7. BatchSpent
    BY <1>6 DEF BatchSpent, Init
  <1>8. OneBatchPerDay
    BY DEF OneBatchPerDay, Init
  <1>9. BusyLanes /\ Holders /\ Succession
    BY <1>3 DEF BusyLanes, Holders, Succession
  <1> QED
    BY <1>1, <1>5, <1>7, <1>8, <1>9 DEF IndInv

\* Steps that leave the journal alone and let lanes stay, go idle or find a row.
LEMMA LetGo ==
  ASSUME IndInv, TypeOK', rows' = rows, batches' = batches, now <= now',
         \A l \in Lanes :
           \/ lane'[l] = lane[l]
           \/ lane'[l].step = "idle"
           \/ /\ lane'[l].step = "found" /\ lane'[l].at <= now'
              /\ rows[lane'[l].key].status # "NONE"
              /\ rows[lane'[l].key].due <= lane'[l].at
  PROVE  IndInv'
  <1>0. TypeOK /\ OneBatchPerDay /\ BusyLanes /\ Holders /\ Succession /\ Journal /\ BatchSpent
    BY DEF IndInv
  <1>1. \A l \in Lanes, k \in Keys : Holds(l, k)' => Holds(l, k) /\ lane'[l] = lane[l]
    BY DEF Holds
  <1>2. now \in Nat /\ now' \in Nat
    BY <1>0 DEF TypeOK, Times
  <1>3. BusyLanes'
    <2> SUFFICES ASSUME NEW l \in Lanes, Busy(l)'
                 PROVE  /\ rows'[lane'[l].key].status # "NONE"
                        /\ rows'[lane'[l].key].due <= lane'[l].at
                        /\ lane'[l].at <= now'
      BY DEF BusyLanes
    <2>1. CASE lane'[l] = lane[l]
      <3>1. Busy(l) /\ lane[l].at \in Nat
        BY <1>0, <2>1, BusyType DEF Busy, Times
      <3> QED
        BY <1>0, <1>2, <2>1, <3>1 DEF BusyLanes
    <2>2. CASE lane'[l].step = "idle"
      BY <2>2 DEF Busy
    <2> QED
      BY <2>1, <2>2
  <1>4. Holders'
    BY <1>0, <1>1 DEF Holders
  <1>5. Succession'
    BY <1>0, <1>1 DEF Succession
  <1>6. Journal'
    <2>1. \A k \in Keys : rows[k].startedAt \in Nat
      BY <1>0 DEF TypeOK, Rows, Times
    <2>2. \A k \in Keys : rows[k].startedAt <= now'
      BY <1>0, <1>2, <2>1 DEF Journal
    <2> QED
      BY <1>0, <1>1, <2>2 DEF Journal
  <1>7. BatchSpent'
    BY <1>0, <1>1 DEF BatchSpent
  <1>8. OneBatchPerDay'
    BY <1>0 DEF OneBatchPerDay
  <1> QED
    BY <1>3, <1>4, <1>5, <1>6, <1>7, <1>8 DEF IndInv

LEMMA EnqueueInv ==
  ASSUME IndInv, NEW s \in Servers, NEW type \in Types, Enqueue(s, type)
  PROVE  IndInv'
  <1>0. TypeOK /\ OneBatchPerDay /\ BusyLanes /\ Holders /\ Succession /\ Journal /\ BatchSpent
    BY DEF IndInv
  <1>1. lane' = lane /\ batches' = batches /\ now' = now /\ now \in Nat /\ TypeOK'
    <2>1. UNCHANGED <<now, version, lane, batches, faults>>
      BY DEF Enqueue
    <2>2. now \in Nat
      BY <1>0 DEF TypeOK, Times
    <2>3. TypeOK'
      BY <1>0, EnqueueType
    <2> QED
      BY <2>1, <2>2, <2>3
  <1>2. CASE rows' = rows
    BY <1>1, <1>2, LetGo
  <1>3. CASE \E k \in Keys : /\ rows[k].status = "NONE"
                             /\ \A j \in Keys : j # k => rows'[j] = rows[j]
                             /\ rows'[k].status = "QUEUED" /\ rows'[k].attempts = 0
                             /\ rows'[k].startedAt = 0
    <2>1. PICK k \in Keys : /\ rows[k].status = "NONE"
                            /\ \A j \in Keys : j # k => rows'[j] = rows[j]
                            /\ rows'[k].status = "QUEUED" /\ rows'[k].attempts = 0
                            /\ rows'[k].startedAt = 0
      BY <1>3
    <2>2. rows[k].attempts = 0
      BY <1>0, <2>1 DEF Journal
    <2>3. \A l \in Lanes : lane[l].step # "idle" => lane[l].key # k
      BY <1>0, <2>1 DEF BusyLanes, Busy
    <2>4. \A l \in Lanes, j \in Keys : Holds(l, j)' => Holds(l, j) /\ j # k
      BY <1>1, <2>3 DEF Holds
    <2>5. BusyLanes'
      <3>1. \A l \in Lanes : Busy(l)' => Busy(l) /\ lane[l].key \in Keys /\ lane[l].key # k
        BY <1>0, <1>1, <2>3, BusyType DEF Busy
      <3> QED
        BY <1>0, <1>1, <2>1, <3>1 DEF BusyLanes
    <2>6. Holders'
      BY <1>0, <1>1, <2>1, <2>4 DEF Holders
    <2>7. Succession'
      BY <1>0, <1>1, <2>4 DEF Succession
    <2>8. Journal'
      <3>1. /\ rows'[k].status \in {"NONE", "QUEUED"} /\ rows'[k].attempts = 0
            /\ rows'[k].startedAt <= now' /\ rows'[k].status \notin Ended
        BY <1>1, <2>1 DEF Ended
      <3>2. \A j \in Keys : j # k => rows'[j] = rows[j]
        BY <2>1
      <3> QED
        BY <1>0, <1>1, <2>4, <3>1, <3>2 DEF Journal
    <2>9. BatchSpent'
      <3>1. ~(k.type = "OPENLIST" /\ batches[k.day] > 0)
        BY <1>0, <2>2 DEF BatchSpent
      <3> QED
        BY <1>0, <1>1, <2>1, <2>4, <3>1 DEF BatchSpent
    <2> QED
      BY <1>0, <1>1, <2>5, <2>6, <2>7, <2>8, <2>9 DEF IndInv, OneBatchPerDay
  <1> QED
    BY <1>0, <1>2, <1>3, EnqueueType

\* The update of a claim, whether its lane learns of it or not.
LEMMA ClaimInv ==
  ASSUME IndInv, TypeOK', NEW l \in Lanes, lane[l].step = "found",
         StillClaimable(rows[lane[l].key], lane[l]),
         rows' = ClaimedRows(lane[l]), batches' = batches, now' = now,
         \A m \in Lanes : m # l => lane'[m] = lane[m],
         \/ lane'[l].step = "idle"
         \/ /\ lane'[l].step = "claimed" /\ lane'[l].key = lane[l].key
            /\ lane'[l].at = lane[l].at
            /\ lane'[l].attempt = rows[lane[l].key].attempts + 1
  PROVE  IndInv'
  <1> DEFINE k == lane[l].key
  <1>0. TypeOK /\ OneBatchPerDay /\ BusyLanes /\ Holders /\ Succession /\ Journal /\ BatchSpent
    BY DEF IndInv
  <1>1. Busy(l) /\ k \in Keys /\ lane[l].at \in Nat /\ rows[k] \in Rows
    BY <1>0, BusyType DEF Busy, Times
  <1>2. /\ \A j \in Keys : j # k => rows'[j] = rows[j]
        /\ rows'[k].status = "RUNNING" /\ rows'[k].due = rows[k].due
        /\ rows'[k].startedAt = lane[l].at
        /\ rows'[k].attempts = rows[k].attempts + 1
    BY <1>0, <1>1, ClaimedFact
  <1>3. rows[k].due <= lane[l].at /\ lane[l].at <= now
    BY <1>0, <1>1 DEF BusyLanes
  <1>4. now \in Nat /\ rows[k].attempts \in Nat /\ rows[k].startedAt \in Nat
    BY <1>0, <1>1 DEF TypeOK, Rows, Times
  \* Who holds the task by an earlier claim read the clock a timeout earlier.
  <1>5. \A m \in Lanes : Holds(m, k) =>
          /\ lane[m].attempt \in Nat /\ lane[m].at \in Nat
          /\ 1 <= lane[m].attempt /\ lane[m].attempt < rows[k].attempts + 1
          /\ lane[m].at + ClaimTimeout < lane[l].at
    <2> SUFFICES ASSUME NEW m \in Lanes, Holds(m, k)
                 PROVE  /\ lane[m].attempt \in Nat /\ lane[m].at \in Nat
                        /\ 1 <= lane[m].attempt /\ lane[m].attempt < rows[k].attempts + 1
                        /\ lane[m].at + ClaimTimeout < lane[l].at
      OBVIOUS
    <2>1. Busy(m)
      BY DEF Holds, Busy
    <2>2. lane[m].attempt \in Nat /\ lane[m].at \in Nat
      BY <1>0, <2>1, BusyType DEF Times
    <2>3. /\ rows[k].status # "QUEUED"
          /\ 1 <= lane[m].attempt /\ lane[m].attempt <= rows[k].attempts
          /\ lane[m].at <= rows[k].startedAt
      BY <1>0, <1>1 DEF Holders
    <2>4. rows[k].startedAt + ClaimTimeout < lane[l].at
      BY <2>3 DEF StillClaimable, Stale
    <2> QED
      BY <1>1, <1>4, <2>2, <2>3, <2>4
  <1>6. \A m \in Lanes, j \in Keys : Holds(m, j)' =>
          \/ m = l /\ j = k /\ lane'[l].at = lane[l].at
               /\ lane'[l].attempt = rows[k].attempts + 1
          \/ m # l /\ Holds(m, j) /\ lane'[m] = lane[m]
    BY DEF Holds
  <1>7. BusyLanes'
    <2> SUFFICES ASSUME NEW m \in Lanes, Busy(m)'
                 PROVE  /\ rows'[lane'[m].key].status # "NONE"
                        /\ rows'[lane'[m].key].due <= lane'[m].at
                        /\ lane'[m].at <= now'
      BY DEF BusyLanes
    <2>1. CASE m = l
      BY <1>2, <1>3, <2>1 DEF Busy
    <2>2. CASE m # l
      <3>1. Busy(m) /\ lane'[m] = lane[m] /\ lane[m].key \in Keys
        BY <1>0, <2>2, BusyType DEF Busy
      <3>2. /\ rows[lane[m].key].status # "NONE" /\ rows[lane[m].key].due <= lane[m].at
            /\ lane[m].at <= now
        BY <1>0, <3>1 DEF BusyLanes
      <3> QED
        BY <1>2, <3>1, <3>2
    <2> QED
      BY <2>1, <2>2
  <1>8. Holders'
    <2> SUFFICES ASSUME NEW m \in Lanes, NEW j \in Keys, Holds(m, j)'
                 PROVE  /\ rows'[j].status # "QUEUED"
                        /\ 1 <= lane'[m].attempt /\ lane'[m].attempt <= rows'[j].attempts
                        /\ lane'[m].at <= rows'[j].startedAt
                        /\ lane'[m].attempt < rows'[j].attempts
                             => lane'[m].at + ClaimTimeout < rows'[j].startedAt
      BY DEF Holders
    <2>1. CASE m = l
      BY <1>1, <1>2, <1>4, <1>6, <2>1
    <2>2. CASE m # l /\ j = k
      BY <1>1, <1>2, <1>4, <1>5, <1>6, <2>2
    <2>3. CASE m # l /\ j # k
      BY <1>0, <1>2, <1>6, <2>3 DEF Holders
    <2> QED
      BY <2>1, <2>2, <2>3
  <1>9. Succession'
    <2> SUFFICES ASSUME NEW m \in Lanes, NEW n \in Lanes, NEW j \in Keys, m # n,
                        Holds(m, j)', Holds(n, j)'
                 PROVE  \/ /\ lane'[m].attempt < lane'[n].attempt
                           /\ lane'[m].at + ClaimTimeout < lane'[n].at
                        \/ /\ lane'[n].attempt < lane'[m].attempt
                           /\ lane'[n].at + ClaimTimeout < lane'[m].at
      BY DEF Succession
    <2>1. CASE m = l
      BY <1>4, <1>5, <1>6, <2>1
    <2>2. CASE n = l
      BY <1>4, <1>5, <1>6, <2>2
    <2>3. CASE m # l /\ n # l
      BY <1>0, <1>6, <2>3 DEF Succession
    <2> QED
      BY <2>1, <2>2, <2>3
  <1>10. Journal'
    <2>1. /\ rows'[k].status \notin {"NONE", "QUEUED"} /\ rows'[k].attempts # 0
          /\ rows'[k].startedAt <= now' /\ rows'[k].status \notin Ended
      BY <1>2, <1>3, <1>4 DEF Ended
    <2>2. \A m \in Lanes, j \in Keys : j # k /\ Holds(m, j)' => Holds(m, j)
      BY <1>6
    <2> QED
      BY <1>0, <1>2, <2>1, <2>2 DEF Journal
  <1>11. BatchSpent'
    <2> SUFFICES ASSUME NEW j \in Keys, j.type = "OPENLIST", batches[j.day] > 0
                 PROVE  /\ rows'[j].attempts > 0
                        /\ \A m \in Lanes : ~(Holds(m, j)' /\ lane'[m].step = "claimed"
                                                /\ lane'[m].attempt = 1)
      BY DEF BatchSpent
    <2>1. /\ rows[j].attempts > 0
          /\ \A m \in Lanes : ~(Holds(m, j) /\ lane[m].step = "claimed" /\ lane[m].attempt = 1)
      BY <1>0 DEF BatchSpent
    <2>2. rows'[j].attempts > 0
      BY <1>2, <1>4, <2>1
    <2>3. ASSUME NEW m \in Lanes, Holds(m, j)', lane'[m].step = "claimed",
                 lane'[m].attempt = 1
          PROVE  FALSE
      <3>1. CASE m = l
        BY <1>4, <1>6, <2>1, <2>3, <3>1
      <3>2. CASE m # l
        BY <1>6, <2>1, <2>3, <3>2
      <3> QED
        BY <3>1, <3>2
    <2> QED
      BY <2>2, <2>3
  <1> QED
    BY <1>0, <1>7, <1>8, <1>9, <1>10, <1>11 DEF IndInv, OneBatchPerDay

\* A lane that goes from its claim to the handler, or to the skip, keeps the claim.
LEMMA ExecuteInv ==
  ASSUME IndInv, TypeOK', NEW l \in Lanes, Execute(l)
  PROVE  IndInv'
  <1>0. TypeOK /\ OneBatchPerDay /\ BusyLanes /\ Holders /\ Succession /\ Journal /\ BatchSpent
    BY DEF IndInv
  <1>1. /\ lane[l].step = "claimed" /\ Busy(l) /\ lane[l] \in Found
        /\ lane[l].key \in Keys /\ lane[l].attempt \in Nat
    <2>1. lane[l].step = "claimed" /\ Busy(l)
      BY DEF Execute, Busy
    <2> QED
      BY <1>0, <2>1, BusyType
  <1>2. UNCHANGED <<now, rows>>
    BY DEF Execute
  <1>3. lane' = [lane EXCEPT ![l] = [lane[l] EXCEPT !.step = "running"]]
        \/ lane' = [lane EXCEPT ![l] = [lane[l] EXCEPT !.step = "skipping"]]
    BY <1>0 DEF Execute, TypeOK
  <1>4. /\ lane'[l].step \in {"running", "skipping"} /\ lane'[l].key = lane[l].key
        /\ lane'[l].at = lane[l].at /\ lane'[l].attempt = lane[l].attempt
        /\ \A m \in Lanes : m # l => lane'[m] = lane[m]
    <2> DEFINE running == [lane[l] EXCEPT !.step = "running"]
               skipping == [lane[l] EXCEPT !.step = "skipping"]
    <2>1. lane \in [Lanes -> {Idle} \union Found]
      BY <1>0 DEF TypeOK
    <2>2. /\ running.step = "running" /\ running.key = lane[l].key
          /\ running.at = lane[l].at /\ running.attempt = lane[l].attempt
          /\ skipping.step = "skipping" /\ skipping.key = lane[l].key
          /\ skipping.at = lane[l].at /\ skipping.attempt = lane[l].attempt
      BY <1>1, FoundStep
    <2> HIDE DEF running, skipping
    <2>3. lane' = [lane EXCEPT ![l] = running] \/ lane' = [lane EXCEPT ![l] = skipping]
      BY <1>3 DEF running, skipping
    <2>4. lane'[l] \in {running, skipping} /\ \A m \in Lanes : m # l => lane'[m] = lane[m]
      BY <2>1, <2>3
    <2> QED
      BY <2>2, <2>4
  <1>5. \A m \in Lanes : /\ lane'[m].key = lane[m].key /\ lane'[m].at = lane[m].at
                         /\ lane'[m].attempt = lane[m].attempt
    BY <1>4
  <1>6. \A m \in Lanes, j \in Keys : Holds(m, j)' => Holds(m, j)
    BY <1>1, <1>4 DEF Holds
  <1>7. \A m \in Lanes, j \in Keys :
          Holds(m, j)' /\ lane'[m].step = "claimed" => m # l /\ lane'[m] = lane[m]
    BY <1>4
  <1>8. BusyLanes'
    BY <1>0, <1>1, <1>2, <1>4, <1>5 DEF BusyLanes, Busy
  <1>9. Holders'
    BY <1>0, <1>2, <1>5, <1>6 DEF Holders
  <1>10. Succession'
    BY <1>0, <1>5, <1>6 DEF Succession
  <1>11. Journal'
    BY <1>0, <1>2, <1>6 DEF Journal
  <1>12. CASE batches' = batches
    <2>1. BatchSpent'
      BY <1>0, <1>2, <1>6, <1>7, <1>12 DEF BatchSpent
    <2> QED
      BY <1>0, <1>8, <1>9, <1>10, <1>11, <1>12, <2>1 DEF IndInv, OneBatchPerDay
  <1>13. CASE batches' # batches
    <2> DEFINE v == version[l[1]]
               k == lane[l].key
               d == Day(now)
    <2>1. /\ k.type = "OPENLIST" /\ ~Skips(lane[l], now, v)
          /\ batches' = [batches EXCEPT ![d] = @ + 1]
      BY <1>13 DEF Execute
    <2>2. now \in Times /\ v \in Versions /\ d \in Days /\ batches \in [Days -> Nat]
      <3>1. l[1] \in Servers
        BY DEF Lanes
      <3> QED
        BY <1>0, <3>1, DayFact DEF TypeOK
    <2>3. k = Key("OPENLIST", now, v) /\ ~(lane[l].attempt > 1)
      BY <2>1 DEF Skips
    <2>4. k.day = d
      BY <2>2, <2>3, KeyDay
    <2>5. Holds(l, k)
      BY <1>1 DEF Holds
    <2>6. lane[l].attempt = 1 /\ rows[k].attempts >= 1 /\ rows[k].attempts \in Nat
      <3>1. 1 <= lane[l].attempt /\ lane[l].attempt <= rows[k].attempts
        BY <1>0, <1>1, <2>5 DEF Holders
      <3>2. rows[k].attempts \in Nat
        BY <1>0, <1>1 DEF TypeOK, Rows
      <3> QED
        BY <1>1, <2>3, <3>1, <3>2
    <2>7. batches[d] = 0
      <3>1. ~(batches[d] > 0)
        BY <1>0, <1>1, <2>1, <2>4, <2>5, <2>6 DEF BatchSpent
      <3> QED
        BY <2>2, <3>1
    <2>8. batches'[d] = 1 /\ \A e \in Days : e # d => batches'[e] = batches[e]
      BY <2>1, <2>2, <2>7
    <2> HIDE DEF v, k, d
    <2>9. OneBatchPerDay'
      BY <1>0, <2>8 DEF OneBatchPerDay
    <2>10. ASSUME NEW j \in Keys, j.type = "OPENLIST", batches'[j.day] > 0
           PROVE  /\ rows'[j].attempts > 0
                  /\ \A m \in Lanes : ~(Holds(m, j)' /\ lane'[m].step = "claimed"
                                          /\ lane'[m].attempt = 1)
      <3>1. CASE j.day = d
        <4>1. j = k
          BY <1>1, <2>1, <2>4, <2>10, <3>1, BatchKey DEF k
        <4>2. ASSUME NEW m \in Lanes, Holds(m, j)', lane'[m].step = "claimed",
                     lane'[m].attempt = 1
              PROVE  FALSE
          <5>1. m # l /\ Holds(m, k) /\ lane[m].attempt = 1
            BY <1>5, <1>6, <1>7, <4>1, <4>2
          <5>2. lane[l].attempt < lane[m].attempt \/ lane[m].attempt < lane[l].attempt
            BY <1>0, <1>1, <2>5, <5>1 DEF Succession, k
          <5> QED
            BY <2>6, <5>1, <5>2
        <4> QED
          BY <1>2, <2>6, <4>1, <4>2
      <3>2. CASE j.day # d
        <4>1. j.day \in Days
          <5>1. PICK type \in Types, t \in Times, u \in Versions : j = Key(type, t, u)
            BY DEF Keys
          <5>2. j.day = Day(t)
            BY <5>1 DEF Key
          <5> QED
            BY <5>2, DayFact
        <4>2. batches[j.day] > 0
          BY <2>8, <2>10, <3>2, <4>1
        <4> QED
          BY <1>0, <1>2, <1>6, <1>7, <2>10, <4>2 DEF BatchSpent
      <3> QED
        BY <3>1, <3>2
    <2>11. BatchSpent'
      BY <2>10 DEF BatchSpent
    <2> QED
      BY <1>8, <1>9, <1>10, <1>11, <2>9, <2>11 DEF IndInv
  <1> QED
    BY <1>12, <1>13

\* The end of an attempt: its lane was the only one if the task was claimed once.
LEMMA FinishInv ==
  ASSUME IndInv, TypeOK', NEW l \in Lanes, NEW status \in Ended, Finish(l, status)
  PROVE  IndInv'
  <1>0. TypeOK /\ OneBatchPerDay /\ BusyLanes /\ Holders /\ Succession /\ Journal /\ BatchSpent
    BY DEF IndInv
  <1>k. PICK k : k = lane[l].key
    OBVIOUS
  <1>1. Busy(l) /\ lane[l].step \in {"running", "skipping"}
        /\ UNCHANGED <<now, batches>> /\ lane' = [lane EXCEPT ![l] = Idle]
        /\ rows' = [rows EXCEPT ![k].status = status]
    BY <1>k DEF Finish, Busy
  <1>2. k \in Keys /\ rows[k] \in Rows /\ Holds(l, k)
    BY <1>0, <1>1, <1>k, BusyType DEF Holds
  <1>3. /\ \A j \in Keys : j # k => rows'[j] = rows[j]
        /\ rows'[k].status = status /\ rows'[k].due = rows[k].due
        /\ rows'[k].startedAt = rows[k].startedAt
        /\ rows'[k].attempts = rows[k].attempts
    BY <1>0, <1>1, <1>k, FinishedFact
  <1>4. lane'[l].step = "idle" /\ \A m \in Lanes : m # l => lane'[m] = lane[m]
    BY <1>0, <1>1, IdleFact DEF TypeOK
  <1>5. status \notin {"NONE", "QUEUED"}
    BY DEF Ended
  <1>6. \A m \in Lanes, j \in Keys : Holds(m, j)' => m # l /\ Holds(m, j) /\ lane'[m] = lane[m]
    BY <1>4 DEF Holds
  <1>7. \A j \in Keys : /\ rows'[j].due = rows[j].due
                        /\ rows'[j].startedAt = rows[j].startedAt
                        /\ rows'[j].attempts = rows[j].attempts
                        /\ rows'[j].status = rows[j].status \/ j = k
    BY <1>3
  <1>8. BusyLanes'
    <2>1. \A m \in Lanes : Busy(m)' => Busy(m) /\ lane'[m] = lane[m] /\ lane[m].key \in Keys
      BY <1>0, <1>4, BusyType DEF Busy
    <2>2. \A j \in Keys : rows[j].status # "NONE" => rows'[j].status # "NONE"
      BY <1>3, <1>5
    <2> QED
      BY <1>0, <1>1, <1>7, <2>1, <2>2 DEF BusyLanes
  <1>9. Holders'
    <2>1. \A j \in Keys : rows[j].status # "QUEUED" => rows'[j].status # "QUEUED"
      BY <1>3, <1>5
    <2> QED
      BY <1>0, <1>6, <1>7, <2>1 DEF Holders
  <1>10. Succession'
    BY <1>0, <1>6 DEF Succession
  <1>11. Journal'
    <2>1. rows[k].attempts # 0 /\ rows[k].attempts \in Nat /\ 1 <= lane[l].attempt
          /\ lane[l].attempt <= rows[k].attempts /\ lane[l].attempt \in Nat
      <3>1. 1 <= lane[l].attempt /\ lane[l].attempt <= rows[k].attempts
        BY <1>0, <1>2 DEF Holders
      <3>2. lane[l].attempt \in Nat /\ rows[k].attempts \in Nat
        BY <1>0, <1>1, <1>2, <1>k, BusyType DEF Rows
      <3> QED
        BY <3>1, <3>2
    <2>2. ASSUME rows[k].attempts = 1, NEW m \in Lanes, Holds(m, k)'
          PROVE  FALSE
      <3>1. m # l /\ Holds(m, k)
        BY <1>2, <1>6, <2>2
      <3>2. 1 <= lane[m].attempt /\ lane[m].attempt <= 1 /\ lane[m].attempt \in Nat
        <4>1. Busy(m)
          BY <3>1 DEF Holds, Busy
        <4>2. lane[m].attempt \in Nat
          BY <1>0, <4>1, BusyType
        <4> QED
          BY <1>0, <1>2, <2>2, <3>1, <4>2 DEF Holders
      <3>3. lane[l].attempt < lane[m].attempt \/ lane[m].attempt < lane[l].attempt
        BY <1>0, <1>2, <3>1 DEF Succession
      <3> QED
        BY <2>1, <2>2, <3>2, <3>3
    <2> SUFFICES ASSUME NEW j \in Keys
                 PROVE  /\ rows'[j].status \in {"NONE", "QUEUED"} <=> rows'[j].attempts = 0
                        /\ rows'[j].startedAt <= now'
                        /\ rows'[j].status \in Ended /\ rows'[j].attempts = 1
                             => \A m \in Lanes : ~Holds(m, j)'
      BY DEF Journal
    <2>3. CASE j = k
      <3>1. rows'[j].status \notin {"NONE", "QUEUED"} /\ rows'[j].attempts # 0
        BY <1>3, <1>5, <2>1, <2>3
      <3>2. rows'[j].startedAt <= now'
        BY <1>0, <1>1, <1>7 DEF Journal
      <3>3. rows'[j].attempts = 1 => \A m \in Lanes : ~Holds(m, j)'
        BY <1>7, <2>2, <2>3
      <3> QED
        BY <3>1, <3>2, <3>3
    <2>4. CASE j # k
      BY <1>0, <1>1, <1>3, <1>6, <2>4 DEF Journal
    <2> QED
      BY <2>3, <2>4
  <1>12. BatchSpent'
    BY <1>0, <1>1, <1>6, <1>7 DEF BatchSpent
  <1> QED
    BY <1>0, <1>1, <1>8, <1>9, <1>10, <1>11, <1>12 DEF IndInv, OneBatchPerDay

LEMMA LaneStepInv ==
  ASSUME IndInv, NEW l \in Lanes, LaneStep(l) \/ ClaimFails(l) \/ FinishFails(l)
  PROVE  IndInv'
  <1>0. TypeOK /\ TypeOK'
    <2>1. TypeOK
      BY DEF IndInv
    <2> QED
      BY <2>1, LaneStepType
  <1>1. now \in Nat /\ lane \in [Lanes -> {Idle} \union Found] /\ Idle.step = "idle"
    BY <1>0, IdleFact DEF TypeOK, Times
  <1>2. CASE \E k \in Keys : FindNextDue(l, k)
    <2>1. PICK k \in Keys : FindNextDue(l, k)
      BY <1>2
    <2> DEFINE w == [step |-> "found", key |-> k, at |-> now, attempt |-> 0,
                     queued |-> rows[k].status = "QUEUED"]
    <2>2. w.step = "found" /\ w.key = k /\ w.at = now
      OBVIOUS
    <2>3. lane' = [lane EXCEPT ![l] = w] /\ Claimable(rows[k], now)
          /\ UNCHANGED <<now, version, rows, poll, batches, faults>>
      BY <2>1 DEF FindNextDue
    <2>4. rows[k].status # "NONE" /\ rows[k].due <= now
      BY <2>3 DEF Claimable, Stale
    <2> HIDE DEF w
    <2>5. lane'[l] = w /\ \A m \in Lanes : m # l => lane'[m] = lane[m]
      BY <1>1, <2>3
    <2>6. \A m \in Lanes :
            \/ lane'[m] = lane[m]
            \/ lane'[m].step = "idle"
            \/ /\ lane'[m].step = "found" /\ lane'[m].at <= now'
               /\ rows[lane'[m].key].status # "NONE"
               /\ rows[lane'[m].key].due <= lane'[m].at
      BY <1>1, <2>2, <2>3, <2>4, <2>5
    <2> QED
      BY <1>0, <1>1, <2>3, <2>6, LetGo
  <1>3. ASSUME lane[l].step = "found", StillClaimable(rows[lane[l].key], lane[l]),
               rows' = ClaimedRows(lane[l]), UNCHANGED <<now, batches>>,
               \/ lane' = [lane EXCEPT ![l] = Idle]
               \/ lane' = [lane EXCEPT ![l].step = "claimed",
                                       ![l].attempt = rows[lane[l].key].attempts + 1]
        PROVE  IndInv'
    <2> DEFINE w == [lane[l] EXCEPT !.step = "claimed",
                                    !.attempt = rows[lane[l].key].attempts + 1]
    <2>1. lane[l] \in Found /\ rows[lane[l].key] \in Rows
      BY <1>0, <1>3, BusyType DEF Busy
    <2>2. rows[lane[l].key].attempts + 1 \in Nat
      BY <2>1 DEF Rows
    <2>3. /\ w.step = "claimed" /\ w.key = lane[l].key /\ w.at = lane[l].at
          /\ w.attempt = rows[lane[l].key].attempts + 1
      <3> DEFINE attempt == rows[lane[l].key].attempts + 1
      <3> HIDE DEF attempt
      <3>1. /\ [lane[l] EXCEPT !.step = "claimed", !.attempt = attempt].step = "claimed"
            /\ [lane[l] EXCEPT !.step = "claimed", !.attempt = attempt].key = lane[l].key
            /\ [lane[l] EXCEPT !.step = "claimed", !.attempt = attempt].at = lane[l].at
            /\ [lane[l] EXCEPT !.step = "claimed", !.attempt = attempt].attempt = attempt
        <4>1. attempt \in Nat
          BY <2>2 DEF attempt
        <4> QED
          BY <2>1, <4>1, FoundClaim, Zenon
      <3> QED
        BY <3>1 DEF attempt
    <2>4. lane' = [lane EXCEPT ![l] = Idle] \/ lane' = [lane EXCEPT ![l] = w]
      BY <1>1, <1>3
    <2> HIDE DEF w
    <2>5. /\ \A m \in Lanes : m # l => lane'[m] = lane[m]
          /\ lane'[l] = Idle \/ lane'[l] = w
      BY <1>1, <2>4
    <2>6. \/ lane'[l].step = "idle"
          \/ /\ lane'[l].step = "claimed" /\ lane'[l].key = lane[l].key
             /\ lane'[l].at = lane[l].at
             /\ lane'[l].attempt = rows[lane[l].key].attempts + 1
      BY <1>1, <2>3, <2>5
    <2> QED
      BY <1>0, <1>3, <2>5, <2>6, ClaimInv
  \* A lane that lets go of what it has, and nothing else.
  <1>4. ASSUME lane' = [lane EXCEPT ![l] = Idle], UNCHANGED <<now, rows, batches>>
        PROVE  IndInv'
    <2>1. \A m \in Lanes : lane'[m] = lane[m] \/ lane'[m].step = "idle"
      BY <1>1, <1>4
    <2> QED
      BY <1>0, <1>1, <1>4, <2>1, LetGo
  <1>5. CASE Claim(l)
    BY <1>3, <1>4, <1>5 DEF Claim
  <1>6. CASE ClaimFails(l)
    BY <1>3, <1>4, <1>6 DEF ClaimFails
  <1>7. CASE Execute(l)
    BY <1>0, <1>7, ExecuteInv
  <1>8. CASE \E status \in Ended : Finish(l, status)
    BY <1>0, <1>8, FinishInv
  <1>9. CASE FinishFails(l)
    BY <1>4, <1>9 DEF FinishFails
  <1> QED
    BY <1>2, <1>5, <1>6, <1>7, <1>8, <1>9 DEF LaneStep

LEMMA StepInv == IndInv /\ [Next]_vars => IndInv'
  <1> SUFFICES ASSUME IndInv, [Next]_vars PROVE IndInv'
    OBVIOUS
  <1>0. TypeOK /\ now \in Nat /\ lane \in [Lanes -> {Idle} \union Found]
    BY DEF IndInv, TypeOK, Times
  <1>1. CASE Tick
    <2>1. TypeOK' /\ now <= now' /\ UNCHANGED <<rows, lane, batches>>
      BY <1>0, <1>1, TickType DEF Tick
    <2> QED
      BY <2>1, LetGo
  <1>2. ASSUME NEW s \in Servers,
               EnqueueDueTasks(s) \/ EnqueueFails(s) \/ Crash(s)
               \/ \E v \in Versions : Reload(s, v)
        PROVE  IndInv'
    <2>1. TypeOK'
      BY <1>0, <1>2, ServerStepType
    <2>2. UNCHANGED <<now, rows, batches>>
      BY <1>2 DEF EnqueueDueTasks, EnqueueFails, Crash, Reload
    <2>3. lane' = lane \/ lane' = [l \in Lanes |-> IF l[1] = s THEN Idle ELSE lane[l]]
      BY <1>2 DEF EnqueueDueTasks, EnqueueFails, Crash, Reload
    <2>4. \A l \in Lanes : lane'[l] = lane[l] \/ lane'[l].step = "idle"
      BY <2>3, IdleFact
    <2> QED
      BY <1>0, <2>1, <2>2, <2>4, LetGo
  <1>3. ASSUME NEW s \in Servers, NEW type \in Types, Enqueue(s, type)
        PROVE  IndInv'
    BY <1>3, EnqueueInv
  <1>4. ASSUME NEW l \in Lanes, LaneStep(l) \/ ClaimFails(l) \/ FinishFails(l)
        PROVE  IndInv'
    BY <1>4, LaneStepInv
  <1>5. CASE UNCHANGED vars
    BY <1>5 DEF IndInv, TypeOK, OneBatchPerDay, BusyLanes, Busy, Holders, Holds, Succession,
                Journal, BatchSpent
  <1> QED
    BY <1>1, <1>2, <1>3, <1>4, <1>5 DEF Next, PollStep

-----------------------------------------------------------------------------
(* What follows.                                                           *)

\* The invariant behind the scheduler's promises holds in every reachable state.
THEOREM TasksInvariance == Spec => []IndInv
  BY InitInv, StepInv, PTL DEF Spec

\* No day sees two batches of model calls: the skip rules of
\* openListScheduledRunSkipReason, the unique key and the attempt count suffice for any
\* number of processes, whatever crashes, is claimed again or is reconfigured.
THEOREM BatchOncePerDay == Spec => []OneBatchPerDay
  <1>1. IndInv => OneBatchPerDay
    BY DEF IndInv
  <1> QED
    BY <1>1, TasksInvariance, PTL

\* ClaimNextDue gives no task to a second lane before the first claim has timed out.
THEOREM ClaimsExclusive == Spec => []ExclusiveClaims
  <1>1. IndInv => ExclusiveClaims
    <2>1. IndInv => Succession
      BY DEF IndInv
    <2> QED
      BY <2>1 DEF Succession, ExclusiveClaims
  <1> QED
    BY <1>1, TasksInvariance, PTL

\* The row of a task that was claimed once and has ended never changes, although execute,
\* skip and fail write rows by their id.
THEOREM FirstEndIsFinal == Spec => EndsOnce
  <1> DEFINE Final == \A k \in Keys : rows[k].status \in Ended /\ rows[k].attempts = 1
                                        => rows'[k] = rows[k]
  <1>1. ASSUME IndInv, [Next]_vars, NEW k \in Keys,
               rows[k].status \in Ended, rows[k].attempts = 1
        PROVE  rows'[k] = rows[k]
    <2>0. TypeOK /\ Journal /\ BusyLanes
      BY <1>1 DEF IndInv
    <2>1. \A l \in Lanes : ~Holds(l, k)
      BY <1>1, <2>0 DEF Journal
    <2>2. rows[k].status \notin {"NONE", "QUEUED", "RUNNING"}
      BY <1>1 DEF Ended
    <2>3. ASSUME NEW s \in Servers, NEW type \in Types, Enqueue(s, type)
          PROVE  rows'[k] = rows[k]
      BY <2>0, <2>2, <2>3, EnqueueType
    <2>4. ASSUME NEW l \in Lanes, lane[l].step = "found",
                 StillClaimable(rows[lane[l].key], lane[l]), rows' = ClaimedRows(lane[l])
          PROVE  rows'[k] = rows[k]
      <3>1. lane[l].key # k
        BY <2>2, <2>4 DEF StillClaimable, Stale
      <3>2. Busy(l)
        BY <2>4 DEF Busy
      <3> QED
        BY <2>0, <2>4, <3>1, <3>2, ClaimedFact
    <2>5. ASSUME NEW l \in Lanes, NEW status \in Ended, Finish(l, status)
          PROVE  rows'[k] = rows[k]
      <3>1. lane[l].step \in {"running", "skipping"}
            /\ rows' = [rows EXCEPT ![lane[l].key].status = status]
        BY <2>5 DEF Finish
      <3>2. lane[l].key # k
        BY <2>1, <3>1 DEF Holds
      <3>3. Busy(l)
        BY <3>1 DEF Busy
      <3> QED
        BY <2>0, <3>1, <3>2, <3>3, FinishedFact
    <2>6. ASSUME rows' = rows PROVE rows'[k] = rows[k]
      BY <2>6
    <2>7. \/ rows' = rows
          \/ \E s \in Servers, type \in Types : Enqueue(s, type)
          \/ \E l \in Lanes : /\ lane[l].step = "found" /\ rows' = ClaimedRows(lane[l])
                              /\ StillClaimable(rows[lane[l].key], lane[l])
          \/ \E l \in Lanes, status \in Ended : Finish(l, status)
      <3>1. CASE Tick \/ UNCHANGED vars
        BY <3>1 DEF Tick
      <3>2. CASE \E s \in Servers : PollStep(s) \/ EnqueueFails(s) \/ Crash(s)
        BY <3>2 DEF PollStep, EnqueueDueTasks, EnqueueFails, Crash
      <3>3. CASE \E s \in Servers, v \in Versions : Reload(s, v)
        BY <3>3 DEF Reload
      <3>4. CASE \E l \in Lanes : LaneStep(l) \/ ClaimFails(l) \/ FinishFails(l)
        BY <3>4 DEF LaneStep, FindNextDue, Claim, Execute, ClaimFails, FinishFails
      <3> QED
        BY <1>1, <3>1, <3>2, <3>3, <3>4 DEF Next
    <2> QED
      BY <2>3, <2>4, <2>5, <2>6, <2>7
  <1>2. IndInv /\ [Next]_vars => [Final]_vars
    BY <1>1
  <1> QED
    BY <1>2, TasksInvariance, PTL DEF Spec, EndsOnce

\* Where a claim lasts at least the start minute, execute begins no batch whose row has
\* been ended by another process in the meantime.
THEOREM NoLateBatch == Spec => NoBatchOnEndedTask
  <1> DEFINE InTime == \A l \in Lanes :
               ClaimTimeout >= StartMinute /\ lane[l].step = "claimed"
               /\ lane[l].key.type = "OPENLIST" /\ lane'[l].step = "running"
                 => rows[lane[l].key].status = "RUNNING"
  <1>1. ASSUME IndInv, [Next]_vars, NEW l \in Lanes, ClaimTimeout >= StartMinute,
               lane[l].step = "claimed", lane[l].key.type = "OPENLIST",
               lane'[l].step = "running"
        PROVE  rows[lane[l].key].status = "RUNNING"
    <2>0. TypeOK /\ Journal /\ BusyLanes /\ Holders
      BY <1>1 DEF IndInv
    <2>1. Busy(l) /\ Holds(l, lane[l].key)
      BY <1>1 DEF Busy, Holds
    <2>2. /\ lane[l].key \in Keys /\ lane[l].at \in Nat /\ lane[l].attempt \in Nat
          /\ rows[lane[l].key] \in Rows
      BY <2>0, <2>1, BusyType DEF Times
    <2> DEFINE row == rows[lane[l].key]
    <2>3. Execute(l)
      <3>1. lane \in [Lanes -> {Idle} \union Found] /\ Idle.step = "idle"
        BY <2>0, IdleFact DEF TypeOK
      <3>2. lane'[l] # lane[l] /\ lane'[l].step # "idle"
        BY <1>1
      <3>3. CASE Tick \/ UNCHANGED vars
        BY <3>2, <3>3 DEF Tick
      <3>4. CASE \E s \in Servers : PollStep(s) \/ EnqueueFails(s) \/ Crash(s)
        BY <3>1, <3>2, <3>4 DEF PollStep, EnqueueDueTasks, Enqueue, EnqueueFails, Crash
      <3>5. CASE \E s \in Servers, v \in Versions : Reload(s, v)
        BY <3>2, <3>5 DEF Reload
      <3>6. CASE \E m \in Lanes : LaneStep(m) \/ ClaimFails(m) \/ FinishFails(m)
        <4>1. PICK m \in Lanes : LaneStep(m) \/ ClaimFails(m) \/ FinishFails(m)
          BY <3>6
        <4>2. m = l
          BY <3>1, <3>2, <4>1 DEF LaneStep, FindNextDue, Claim, Execute, Finish, ClaimFails,
                                  FinishFails
        <4> QED
          BY <1>1, <3>1, <3>2, <4>1, <4>2
             DEF LaneStep, FindNextDue, Claim, Finish, ClaimFails, FinishFails
      <3> QED
        BY <1>1, <3>3, <3>4, <3>5, <3>6 DEF Next
    <2>4. ~Skips(lane[l], now, version[l[1]])
      <3>1. lane \in [Lanes -> {Idle} \union Found] /\ lane[l] \in Found
        BY <2>0, <2>1, BusyType DEF TypeOK
      <3>2. [lane[l] EXCEPT !.step = "skipping"].step = "skipping"
        BY <3>1, FoundStep
      <3>3. Skips(lane[l], now, version[l[1]])
              => lane' = [lane EXCEPT ![l] = [lane[l] EXCEPT !.step = "skipping"]]
        BY <1>1, <2>3, <3>1 DEF Execute
      <3> QED
        BY <1>1, <3>1, <3>2, <3>3
    <2>5. now < row.due + StartMinute /\ ~(lane[l].attempt > 1)
      BY <2>4 DEF Skips, WithinScheduledMinute
    <2>6. row.due <= lane[l].at
      BY <2>0, <2>1 DEF BusyLanes
    <2>7. row.due \in Nat /\ row.startedAt \in Nat /\ row.attempts \in Nat /\ now \in Nat
      <3>1. now \in Nat
        BY <2>0 DEF TypeOK, Times
      <3> QED
        BY <2>2, <3>1, RowNat
    <2>8. /\ row.status # "QUEUED"
          /\ 1 <= lane[l].attempt /\ lane[l].attempt <= row.attempts
          /\ lane[l].attempt < row.attempts => lane[l].at + ClaimTimeout < row.startedAt
      BY <2>0, <2>1, <2>2 DEF Holders
    <2>9. row.startedAt <= now
      BY <2>0, <2>2 DEF Journal
    <2> HIDE DEF row
    <2>10. row.attempts = 1
      BY <1>1, <2>2, <2>5, <2>6, <2>7, <2>8, <2>9
    <2>11. row.status \notin Ended
      BY <2>0, <2>1, <2>2, <2>10 DEF Journal, row
    <2>12. row.status # "NONE"
      BY <2>0, <2>1 DEF BusyLanes, row
    <2>13. row.status \in {"NONE", "QUEUED", "RUNNING"} \union Ended
      BY <2>2 DEF Rows, row
    <2> QED
      BY <2>8, <2>11, <2>12, <2>13 DEF row
  <1>2. IndInv /\ [Next]_vars => [InTime]_vars
    BY <1>1
  <1> QED
    BY <1>2, TasksInvariance, PTL DEF Spec, NoBatchOnEndedTask
=============================================================================
