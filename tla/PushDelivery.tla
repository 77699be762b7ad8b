---------------------------- MODULE PushDelivery ----------------------------
(***************************************************************************)
(* Phone notifications (notifications/push.service.ts): devices register   *)
(* and leave, sessions are rotated and end (auth.service.ts), and every    *)
(* API process runs its own copy of the worker `tick`, so that two of them *)
(* may serve the same device.  A step of the model is one statement on the *)
(* database or one call of the messaging service.                          *)
(*                                                                         *)
(* Times (enabledAt, eventAt) are counted in registrations that set        *)
(* enabledAt: what happens between two of them happens at the same time.   *)
(* All processes read the same clock.  A notification older than 48 hours, *)
(* or the 51st unread one, is no longer looked at and does not occur; the  *)
(* 90 days after which a silent device is pruned do not pass.              *)
(***************************************************************************)
EXTENDS Integers, FiniteSets, SequencesExt

CONSTANTS
  Workers,      \* API processes
  Tokens,       \* phones, by their messaging token
  Sessions,     \* refresh sessions
  Owner,        \* the user of each session
  Messages,     \* notifications, by their dedupeKey
  Redated,      \* those a sync gives a new eventAt: reminders, schedule changes, reviews
  Of,           \* the user each notification is for
  Batch,        \* devices served per tick (20)
  MaxDevices,   \* registered devices of a user (10)
  MaxAttempts,  \* attempts per device and notification (5)
  Off,          \* no row for this token
  MaxCalls,     \* bound: registrations
  MaxFaults,    \* bound: failures of a process, of the database or of sending
  MaxLoad       \* bound: processes in a tick and notifications, together

Users == Range(Owner)
Rows == 1 .. MaxCalls
Device == [row : Rows, session : Sessions, since : Nat]

ASSUME OffAssumption == Off \notin Device
ASSUME LimitsAssumption == {Batch, MaxDevices, MaxAttempts, MaxCalls, MaxFaults, MaxLoad}
                             \subseteq Nat
ASSUME FiniteAssumption == IsFiniteSet(Tokens) /\ IsFiniteSet(Workers) /\ IsFiniteSet(Messages)

VARIABLES
  clock,     \* how often enabledAt has been set
  active,    \* users with an ACTIVE account
  session,   \* [Sessions -> FREE, LIVE, DEAD (revoked or expired) or GONE (deleted)]
  device,    \* [Tokens -> PushDevice row or Off]; since: enabledAt
  turn,      \* tokens with lastSyncedAt # 0, the longest waiting first
  delivery,  \* PushDelivery: attempts and FREE, LEASED (leaseUntil > now) or DONE
  inbox,     \* [Messages -> NONE, UNREAD, READ or GONE (deleted)]
  eventAt,   \* [Messages -> time of what the notification tells of]
  asked,     \* registrations between their check and their write
  worker,    \* where each process is in tick
  calls,     \* registrations so far; the number of one names the row it creates
  faults,
  \* what happened, for the properties
  sent,      \* times a phone was sent the message, by token, row and message
  lapsed,    \* leases that ran out undelivered, by token, row and message
  late       \* [Workers -> messages of this visit sent without a binding]

account == << active, session >>
rows == << device, turn, delivery >>
notices == << inbox, eventAt >>
history == << sent, lapsed, late >>
vars == << clock, active, session, device, turn, delivery, inbox, eventAt, asked, worker,
           calls, faults, sent, lapsed, late >>

Untried == [attempts |-> 0, state |-> "FREE"]
Idle == [at |-> "IDLE", batch |-> << >>, items |-> << >>]
Never == [x \in Tokens \X Rows \X Messages |-> 0]
At(w, place) == worker[w].at = place
Load == Cardinality({w \in Workers : ~At(w, "IDLE")})
          + Cardinality({n \in Messages : inbox[n] # "NONE"})
Bound == {t \in Tokens : device[t] # Off}
Stranded == {t \in Bound : session[device[t].session] = "DEAD"}

Init ==
  /\ clock = 0
  /\ active = Users
  /\ session = [s \in Sessions |-> "FREE"]
  /\ device = [t \in Tokens |-> Off]
  /\ turn = << >>
  /\ delivery = [t \in Tokens |-> [n \in Messages |-> Untried]]
  /\ inbox = [n \in Messages |-> "NONE"]
  /\ eventAt = [n \in Messages |-> 0]
  /\ asked = {}
  /\ worker = [w \in Workers |-> Idle]
  /\ calls = 0
  /\ faults = 0
  /\ sent = Never
  /\ lapsed = Never
  /\ late = [w \in Workers |-> 0]

(* Deleting rows takes their deliveries along (onDelete: Cascade). *)
Drop(gone) ==
  /\ device' = [t \in Tokens |-> IF t \in gone THEN Off ELSE device[t]]
  /\ turn' = SelectSeq(turn, LAMBDA t : t \notin gone)
  /\ delivery' = [t \in Tokens |->
                    IF t \in gone THEN [n \in Messages |-> Untried] ELSE delivery[t]]

-----------------------------------------------------------------------------
(* register: checks the session, drops the user's stranded devices, looks  *)
(* for the token and counts; the row is upserted afterwards.               *)
Register(s, t) ==
  LET mine == {x \in Bound : Owner[device[x].session] = Owner[s]}
      gone == Stranded \cap mine
      existing == t \in Bound \ gone
  IN
  /\ Owner[s] \in active /\ session[s] = "LIVE"
  /\ calls < MaxCalls
  /\ existing \/ Cardinality(mine \ gone) < MaxDevices
  /\ Drop(gone)
  /\ asked' = asked \cup
       {[id |-> calls + 1, session |-> s, token |-> t,
         same |-> existing /\ device[t].session = s]}
  /\ calls' = calls + 1
  /\ UNCHANGED << clock, account, notices, worker, faults, history >>

(* Altered: enabledAt is not set. *)
UpsertedUndated(q) ==
  IF device[q.token] = Off
  THEN [row |-> q.id, session |-> q.session, since |-> 0]
  ELSE [device[q.token] EXCEPT !.session = q.session]

(* enabledAt is now for a new row, and when somebody else or another       *)
(* session takes the phone over.                                           *)
Upserted(q) ==
  IF device[q.token] = Off
  THEN [row |-> q.id, session |-> q.session, since |-> clock + 1]
  ELSE [device[q.token] EXCEPT !.session = q.session,
                               !.since = IF q.same THEN @ ELSE clock + 1]

Enable(q) ==
  /\ q \in asked /\ session[q.session] # "GONE"
  /\ asked' = asked \ {q}
  /\ device' = [device EXCEPT ![q.token] = Upserted(q)]
  /\ clock' = IF device[q.token] # Off /\ q.same THEN clock ELSE clock + 1
  /\ turn' = SelectSeq(turn, LAMBDA t : t # q.token)
  /\ late' = [w \in Workers |-> 0]
  /\ UNCHANGED << account, delivery, notices, worker, calls, faults, sent, lapsed >>

(* The session was deleted with its account: the upsert throws. *)
EnableFails(q) ==
  /\ q \in asked /\ session[q.session] = "GONE"
  /\ asked' = asked \ {q}
  /\ UNCHANGED << clock, account, rows, notices, worker, calls, faults, history >>

(* disable *)
Disable(t) ==
  /\ t \in Bound
  /\ Drop({t})
  /\ UNCHANGED << clock, account, notices, asked, worker, calls, faults, history >>

(* disableSession *)
DisableSession(s) ==
  /\ \E t \in Bound : device[t].session = s
  /\ Drop({t \in Bound : device[t].session = s})
  /\ UNCHANGED << clock, account, notices, asked, worker, calls, faults, history >>

-----------------------------------------------------------------------------
SignIn(s) ==
  /\ Owner[s] \in active /\ session[s] = "FREE"
  /\ session' = [session EXCEPT ![s] = "LIVE"]
  /\ UNCHANGED << clock, active, rows, notices, asked, worker, calls, faults, history >>

(* logout, revocation or expiry *)
SignOut(s) ==
  /\ session[s] = "LIVE"
  /\ session' = [session EXCEPT ![s] = "DEAD"]
  /\ UNCHANGED << clock, active, rows, notices, asked, worker, calls, faults, history >>

(* refresh: one transaction ends the session and hands its devices on *)
Refresh(s, new) ==
  /\ Owner[s] \in active
  /\ session[s] = "LIVE" /\ session[new] = "FREE" /\ Owner[new] = Owner[s]
  /\ session' = [session EXCEPT ![s] = "DEAD", ![new] = "LIVE"]
  /\ device' = [t \in Tokens |->
                  IF t \in Bound /\ device[t].session = s
                  THEN [device[t] EXCEPT !.session = new] ELSE device[t]]
  /\ UNCHANGED << clock, active, turn, delivery, notices, asked, worker, calls, faults,
                  history >>

(* deleteAccount: one transaction; a deleted notification takes its        *)
(* deliveries along, also those to a phone somebody else has by now.       *)
DeleteAccount(u) ==
  LET gone == {t \in Bound : Owner[device[t].session] = u}
      deleted == {n \in Messages : Of[n] = u /\ inbox[n] # "NONE"}
  IN
  /\ u \in active
  /\ active' = active \ {u}
  /\ session' = [s \in Sessions |-> IF Owner[s] = u /\ session[s] # "FREE"
                                    THEN "GONE" ELSE session[s]]
  /\ device' = [t \in Tokens |-> IF t \in gone THEN Off ELSE device[t]]
  /\ turn' = SelectSeq(turn, LAMBDA t : t \notin gone)
  /\ delivery' = [t \in Tokens |-> [n \in Messages |->
                    IF t \in gone \/ n \in deleted THEN Untried ELSE delivery[t][n]]]
  /\ inbox' = [n \in Messages |-> IF n \in deleted THEN "GONE" ELSE inbox[n]]
  /\ UNCHANGED << clock, eventAt, asked, worker, calls, faults, history >>

-----------------------------------------------------------------------------
(* ensure, for the service that has something to tell (createForUser) or a *)
(* sync: that of a worker about to read, or of a person looking at the     *)
(* notifications.  A new one may be of an event long past.  One that is    *)
(* there keeps readAt but gets the eventAt the sync has for it: the time   *)
(* of the sync for a reminder, of the last change for a schedule or a      *)
(* review.  A slow sync puts an older time in place of a newer one.  What  *)
(* such a sync makes again for a deleted account is left out: nobody can   *)
(* register a phone for it.                                                *)
Ensure(n) ==
  /\ \/ inbox[n] = "NONE" /\ Load < MaxLoad
     \/ inbox[n] \in {"UNREAD", "READ"} /\ n \in Redated
  /\ \E time \in 0 .. clock : eventAt' = [eventAt EXCEPT ![n] = time]
  /\ inbox' = [inbox EXCEPT ![n] = IF @ = "NONE" THEN "UNREAD" ELSE @]
  /\ UNCHANGED << clock, account, rows, asked, worker, calls, faults, history >>

(* markAsRead, markAllAsRead *)
MarkAsRead(n) ==
  /\ Of[n] \in active /\ inbox[n] = "UNREAD"
  /\ inbox' = [inbox EXCEPT ![n] = "READ"]
  /\ UNCHANGED << clock, account, rows, eventAt, asked, worker, calls, faults, history >>

-----------------------------------------------------------------------------
(* tick *)
Served(w) == Head(worker[w].batch)
Item(w) == Head(worker[w].items)

Move(w, place) == worker' = [worker EXCEPT ![w].at = place]

(* after the last device the tick is over, after the last item the device *)
NextDevice(w) ==
  worker' = [worker EXCEPT ![w] =
    IF Tail(@.batch) = << >> THEN Idle
    ELSE [at |-> "VISIT", batch |-> Tail(@.batch), items |-> << >>]]
NextItem(w) ==
  IF Tail(worker[w].items) = << >> THEN NextDevice(w)
  ELSE worker' = [worker EXCEPT ![w].at = "RECHECK", ![w].items = Tail(@)]

(* the start, with pruneDevices *)
Tick(w) ==
  /\ At(w, "IDLE") /\ Load < MaxLoad
  /\ Drop(Stranded)
  /\ Move(w, "PICK")
  /\ UNCHANGED << clock, account, notices, asked, calls, faults, history >>

(* lastSyncedAt, as a place in the order; zero after a registration *)
LastSynced(t) == Max({0} \cup {i \in DOMAIN turn : turn[i] = t})

(* The devices of active users with a live session that synced the longest *)
(* ago, in that order; those that have not synced since they registered in *)
(* any order.                                                              *)
Pick(w) ==
  LET live == {t \in Bound : /\ Owner[device[t].session] \in active
                             /\ session[device[t].session] = "LIVE"}
      count == Min({Batch, Cardinality(live)})
  IN
  /\ At(w, "PICK")
  /\ \E first \in [1 .. count -> live] :
       /\ IsInjective(first)
       /\ \A i \in 1 .. count : \A t \in live \ Range(SubSeq(first, 1, i)) :
            LastSynced(first[i]) <= LastSynced(t)
       /\ worker' = [worker EXCEPT ![w] = IF count = 0 THEN Idle ELSE
            [at |-> "VISIT", items |-> << >>,
             batch |-> [i \in 1 .. count |->
                         [token |-> first[i], row |-> device[first[i]].row,
                          session |-> device[first[i]].session,
                          since |-> device[first[i]].since]]]]
  /\ UNCHANGED << clock, account, rows, notices, asked, calls, faults, history >>

HasRow(d) == device[d.token] # Off /\ device[d.token].row = d.row
(* Altered: the device keeps its place in the order. *)
SyncedInPlace(t) == IF t \in Range(turn) THEN turn ELSE Append(turn, t)

Synced(t) == Append(SelectSeq(turn, LAMBDA x : x # t), t)

(* The device is marked as synced: its turn is over even if the rest       *)
(* fails.  The notifications of its user are synced next (Ensure).         *)
Visit(w) ==
  /\ At(w, "VISIT") /\ HasRow(Served(w))
  /\ turn' = Synced(Served(w).token)
  /\ Move(w, "SYNC")
  /\ late' = [late EXCEPT ![w] = 0]
  /\ UNCHANGED << clock, account, device, delivery, notices, asked, calls, faults,
                  sent, lapsed >>

(* After the sync: the unread notifications since enabledAt, as it was     *)
(* when the devices were read, the latest first.                           *)
Read(w) ==
  LET d == Served(w)
      unread == {n \in Messages : /\ inbox[n] = "UNREAD" /\ eventAt[n] >= d.since
                                  /\ Of[n] = Owner[d.session]}
  IN
  /\ At(w, "SYNC")
  /\ \E list \in [1 .. Cardinality(unread) -> unread] :
       /\ IsInjective(list)
       /\ \A i, j \in DOMAIN list : i < j => eventAt[list[i]] >= eventAt[list[j]]
       /\ IF list = << >> THEN NextDevice(w)
          ELSE worker' = [worker EXCEPT ![w].at = "RECHECK", ![w].items = list]
  /\ UNCHANGED << clock, account, rows, notices, asked, calls, faults, history >>

(* The row is gone: the update throws. *)
Skip(w) ==
  /\ At(w, "VISIT") /\ ~HasRow(Served(w))
  /\ NextDevice(w)
  /\ UNCHANGED << clock, account, rows, notices, asked, calls, faults, history >>

(* the id, user and session of the device that was read, and a live session *)
Binding(d) ==
  HasRow(d) /\ device[d.token].session = d.session /\ session[d.session] = "LIVE"

(* Altered: the row is looked for, not its session. *)
RecheckRowOnly(w) ==
  /\ At(w, "RECHECK")
  /\ IF ~HasRow(Served(w)) THEN NextDevice(w) ELSE Move(w, "CLAIM")
  /\ UNCHANGED << clock, account, rows, notices, asked, calls, faults, history >>

(* "Recheck consent/session immediately before delivery" *)
Recheck(w) ==
  /\ At(w, "RECHECK")
  /\ IF ~Binding(Served(w)) THEN NextDevice(w) ELSE Move(w, "CLAIM")
  /\ UNCHANGED << clock, account, rows, notices, asked, calls, faults, history >>

(* Altered: the lease is not looked at. *)
ClaimableLeased(x) == x.state # "DONE" /\ x.attempts < MaxAttempts
Claimable(x) == x.state = "FREE" /\ x.attempts < MaxAttempts

(* the device and the notification, whose delivery is a row of its own *)
HasRows(w) == HasRow(Served(w)) /\ inbox[Item(w)] # "GONE"

(* createMany fails when a row it refers to is gone; a delivery that is    *)
(* not claimed is passed over.                                             *)
Claim(w) ==
  LET t == Served(w).token
      n == Item(w)
      x == delivery[t][n]
  IN
  /\ At(w, "CLAIM")
  /\ \/ ~HasRows(w) /\ NextDevice(w) /\ UNCHANGED delivery
     \/ HasRows(w) /\ ~Claimable(x) /\ NextItem(w) /\ UNCHANGED delivery
     \/ /\ HasRows(w) /\ Claimable(x)
        /\ delivery' = [delivery EXCEPT ![t][n] =
                          [attempts |-> x.attempts + 1, state |-> "LEASED"]]
        /\ Move(w, "SEND")
  /\ UNCHANGED << clock, account, device, turn, notices, asked, calls, faults, history >>

Received(w) ==
  /\ sent' = [sent EXCEPT ![<< Served(w).token, Served(w).row, Item(w) >>] = @ + 1]
  /\ late' = [late EXCEPT ![w] = @ + IF Binding(Served(w)) THEN 0 ELSE 1]
  /\ UNCHANGED lapsed

Send(w) ==
  /\ At(w, "SEND")
  /\ Received(w)
  /\ Move(w, "RECORD")
  /\ UNCHANGED << clock, account, rows, notices, asked, calls, faults >>

Record(w) ==
  LET t == Served(w).token IN
  /\ At(w, "RECORD")
  /\ delivery' = IF HasRows(w)
                 THEN [delivery EXCEPT ![t][Item(w)].state = "DONE"] ELSE delivery
  /\ NextItem(w)
  /\ UNCHANGED << clock, account, device, turn, notices, asked, calls, faults, history >>

(* two minutes after the claim *)
LeaseRunsOut(t, n) ==
  /\ t \in Bound /\ delivery[t][n].state = "LEASED"
  /\ delivery' = [delivery EXCEPT ![t][n].state = "FREE"]
  /\ lapsed' = [lapsed EXCEPT ![<< t, device[t].row, n >>] = @ + 1]
  /\ UNCHANGED << clock, account, device, turn, notices, asked, worker, calls, faults,
                  sent, late >>

-----------------------------------------------------------------------------
Fault == faults < MaxFaults /\ faults' = faults + 1

(* A statement, or syncForUser, throws and has changed nothing. *)
DatabaseFails(w) ==
  /\ Fault
  /\ worker[w].at \in {"VISIT", "SYNC", "RECHECK", "CLAIM"}
  /\ NextDevice(w)
  /\ UNCHANGED << clock, account, rows, notices, asked, calls, history >>

(* send throws; the phone may have the message all the same *)
SendFails(w) ==
  /\ Fault
  /\ At(w, "SEND")
  /\ Received(w) \/ UNCHANGED history
  /\ NextItem(w)
  /\ UNCHANGED << clock, account, rows, notices, asked, calls >>

(* the messaging service does not know the token (any more) *)
TokenUnknown(w) ==
  /\ Fault
  /\ At(w, "SEND")
  /\ Drop(IF HasRow(Served(w)) THEN {Served(w).token} ELSE {})
  /\ NextDevice(w)
  /\ UNCHANGED << clock, account, notices, asked, calls, history >>

(* deliveredAt is not written *)
RecordFails(w) ==
  /\ Fault
  /\ At(w, "RECORD")
  /\ NextItem(w)
  /\ UNCHANGED << clock, account, rows, notices, asked, calls, history >>

(* the process ends and starts again with running = false *)
Crash(w) ==
  /\ Fault
  /\ ~At(w, "IDLE")
  /\ worker' = [worker EXCEPT ![w] = Idle]
  /\ UNCHANGED << clock, account, rows, notices, asked, calls, history >>

-----------------------------------------------------------------------------
Pass(w) ==
  \/ Pick(w) \/ Visit(w) \/ Skip(w) \/ Read(w)
  \/ Recheck(w) \/ Claim(w) \/ Send(w) \/ Record(w)
Failure(w) ==
  DatabaseFails(w) \/ SendFails(w) \/ TokenUnknown(w) \/ RecordFails(w) \/ Crash(w)

Next ==
  \/ \E s \in Sessions, t \in Tokens : Register(s, t)
  \/ \E q \in asked : Enable(q) \/ EnableFails(q)
  \/ \E t \in Tokens : Disable(t)
  \/ \E s \in Sessions : DisableSession(s) \/ SignIn(s) \/ SignOut(s)
  \/ \E s, new \in Sessions : Refresh(s, new)
  \/ \E u \in Users : DeleteAccount(u)
  \/ \E n \in Messages : Ensure(n) \/ MarkAsRead(n)
  \/ \E w \in Workers : Tick(w) \/ Pass(w) \/ Failure(w)
  \/ \E t \in Tokens, n \in Messages : LeaseRunsOut(t, n)

Spec == Init /\ [][Next]_vars

(* The interval calls tick again and again, a process that is up goes on   *)
(* with its pass, and time passes.                                         *)
FairSpec ==
  /\ Spec
  /\ \A w \in Workers : WF_vars(Tick(w)) /\ WF_vars(Pass(w))
  /\ \A t \in Tokens, n \in Messages : WF_vars(LeaseRunsOut(t, n))

-----------------------------------------------------------------------------
Target == [token : Tokens, row : Rows, session : Sessions, since : Nat]

(* TypeOK: no delivery is attempted more often than MaxAttempts times, and *)
(* a process that claims, sends or records has a device and an item to do  *)
(* it for.                                                                 *)
TypeOK ==
  /\ clock \in 0 .. MaxCalls /\ active \subseteq Users
  /\ session \in [Sessions -> {"FREE", "LIVE", "DEAD", "GONE"}]
  /\ device \in [Tokens -> Device \cup {Off}]
  /\ turn \in Seq(Tokens) /\ Range(turn) \subseteq Bound
  /\ delivery \in [Tokens -> [Messages -> [attempts : 0 .. MaxAttempts,
                                           state : {"FREE", "LEASED", "DONE"}]]]
  /\ inbox \in [Messages -> {"NONE", "UNREAD", "READ", "GONE"}]
  /\ eventAt \in [Messages -> 0 .. clock]
  /\ asked \subseteq [id : Rows, session : Sessions, token : Tokens, same : BOOLEAN]
  /\ worker \in [Workers -> [at : {"IDLE", "PICK", "VISIT", "SYNC", "RECHECK", "CLAIM",
                                   "SEND", "RECORD"},
                             batch : Seq(Target), items : Seq(Messages)]]
  /\ calls \in 0 .. MaxCalls /\ faults \in 0 .. MaxFaults
  /\ \A w \in Workers :
       /\ worker[w].at \notin {"IDLE", "PICK"} => worker[w].batch # << >>
       /\ worker[w].at \in {"RECHECK", "CLAIM", "SEND", "RECORD"} => worker[w].items # << >>
  /\ sent \in [Tokens \X Rows \X Messages -> Nat]
  /\ lapsed \in [Tokens \X Rows \X Messages -> Nat]
  /\ late \in [Workers -> Nat]

(* While a phone stays registered it is sent the same notification again   *)
(* only when a lease on it ran out with nothing recorded: never because    *)
(* two processes serve the device at once, because a later tick finds the  *)
(* notification still unread or with a newer eventAt, or because the phone *)
(* is taken over and back.  It says nothing of a phone that was disabled   *)
(* in between: its row is gone with all deliveries, and an unread reminder *)
(* that a sync has dated after the new enabledAt is sent once more.        *)
SentOncePerLease ==
  \A t \in Tokens, r \in Rows, n \in Messages : sent[<< t, r, n >>] <= 1 + lapsed[<< t, r, n >>]

(* A notification that keeps its eventAt is not among those: however often *)
(* the phone is disabled, its row pruned and enabled again, by one person  *)
(* or several, it is sent under one registration only.  No delivery is     *)
(* left to tell, only enabledAt, and a process may have read the row as it *)
(* was before.                                                             *)
SentToOneRegistration ==
  \A t \in Tokens, q, r \in Rows, n \in Messages \ Redated :
    sent[<< t, q, n >>] # 0 /\ sent[<< t, r, n >>] # 0 => q = r

(* When a session ends, a phone is disabled or somebody else takes it over *)
(* while its notifications are being sent, a process sends it at most the  *)
(* one message it had already rechecked, and not the rest of its list.     *)
AtMostOneLate == \A w \in Workers : late[w] <= 1

(* An unread notification newer than the registration of a phone does not  *)
(* wait for ever: it is delivered, or read, or dated before enabledAt, or  *)
(* the phone, its session or the account is gone, or all its attempts are  *)
(* used.  Every device gets its turn although a tick serves only the       *)
(* longest waiting ones.                                                   *)
Waiting(t, n) ==
  /\ device[t] # Off
  /\ session[device[t].session] = "LIVE"
  /\ Owner[device[t].session] = Of[n] /\ Of[n] \in active
  /\ inbox[n] = "UNREAD" /\ eventAt[n] >= device[t].since
  /\ delivery[t][n].state # "DONE" /\ delivery[t][n].attempts < MaxAttempts

EveryPushSettles ==
  \A t \in Tokens, n \in Messages : Waiting(t, n) ~> ~Waiting(t, n)
=============================================================================
