------------------------------ MODULE LeagueWar ------------------------------
(***************************************************************************)
(* A war between two leagues: challenge, rosters, readiness, start, the    *)
(* results of its matches and completion (league-wars.service,             *)
(* league-war-integrity and league-war-proof.service), for the latest war  *)
(* of one pair of leagues.                                                 *)
(*                                                                         *)
(* Every operation on the war reads it, checks it and writes it later; the *)
(* writes of accept, reject, cancel, roster and ready check nothing again, *)
(* start asks again for the status only.  A write to a match locks the     *)
(* war, asks again that it is LIVE and that the match row is the one the   *)
(* operation read.  So each operation is a check and a write, with a       *)
(* request in flight between them; completion is one locked transaction.   *)
(***************************************************************************)
EXTENDS Integers, Sequences, FiniteSets, FiniteSetsExt, Functions

CONSTANTS
  Members,      \* the members of each league
  Admins,       \* the people who administer one of the leagues or both
  AdminOf,      \* the leagues each of them administers (a super admin: both)
  PlayerCount,  \* LeagueWar.playerCount
  Legs,         \* 2 when legType is HOME_AWAY, else 1
  Award,        \* [win, draw, loss]: the points of a match
  Scores,       \* the scores people enter: pairs <<home goals, away goals>>
  Nobody,       \* null
  MaxRequests   \* bound: operations in flight at the same time

Leagues == {"HOME", "AWAY"}
Players == Members["HOME"] \cup Members["AWAY"]
Sequence == 1 .. PlayerCount * Legs
Other(l) == IF l = "HOME" THEN "AWAY" ELSE "HOME"

ASSUME MembersAssumption == DOMAIN Members = Leagues /\ Nobody \notin Players \cup Admins
ASSUME AdminsAssumption == AdminOf \in [Admins -> SUBSET Leagues \ {{}}]
ASSUME CountsAssumption == PlayerCount \in Nat \ {0} /\ Legs \in {1, 2}
ASSUME AwardAssumption == Award \in [win : Int, draw : Int, loss : Int]
ASSUME ScoresAssumption == Scores \subseteq Nat \X Nat

VARIABLES
  status,    \* LeagueWar.status; NONE before the first challenge
  ready,     \* whether homeReadyAt and awayReadyAt are set, by league
  roster,    \* the LeagueWarParticipant rows: the players of a league by slot
  match,     \* the LeagueWarMatch rows by sequence, none before the start
  winner,    \* winnerLeagueId, Nobody without one
  requests   \* operations between their check and their write

vars == << status, ready, roster, match, winner, requests >>

Closed == {"COMPLETED", "REJECTED", "CANCELLED", "EXPIRED"}
Pending == {"PENDING_CONFIRMATION", "WALKOVER_PENDING"}
Agreed == {"CONFIRMED", "WALKOVER_CONFIRMED"}
Lineups(l) == {s \in UNION {[1 .. n -> Members[l]] : n \in 0 .. PlayerCount} : IsInjective(s)}
FullLineups(l) == {s \in Lineups(l) : Len(s) = PlayerCount}
NoMatches == << >>

Init ==
  /\ status = "NONE"
  /\ ready = [l \in Leagues |-> FALSE]
  /\ roster = [l \in Leagues |-> << >>]
  /\ match = NoMatches
  /\ winner = Nobody
  /\ requests = {}

-----------------------------------------------------------------------------
(* createWar, and rematch of a closed war: a new row, and the old one is   *)
(* no longer the latest of the pair.                                       *)
Challenge ==
  /\ status \in Closed \cup {"NONE"}
  /\ status' = "INVITED"
  /\ ready' = [l \in Leagues |-> FALSE]
  /\ roster' = [l \in Leagues |-> << >>]
  /\ match' = NoMatches
  /\ winner' = Nobody
  /\ requests' = {}

(* expireInvites: one conditional update, made before most operations. *)
ExpireInvites ==
  /\ status = "INVITED"
  /\ status' = "EXPIRED"
  /\ UNCHANGED << ready, roster, match, winner, requests >>

-----------------------------------------------------------------------------
(* The pairings startWar lays out: slot by slot, or a shuffle of the away  *)
(* side; each pair once, or once at either side when there are two legs.   *)
Shuffled(s) == {[i \in 1 .. PlayerCount |-> s[p[i]]] : p \in
                 {q \in [1 .. PlayerCount -> 1 .. PlayerCount] : IsInjective(q)}}

LegOf(seq) == IF Legs = 2 /\ seq % 2 = 0 THEN 2 ELSE 1
PairOf(seq) == (seq + Legs - 1) \div Legs

(* Altered: the second leg is played at the same side. *)
PairingsSameSide(home, away) ==
  [seq \in Sequence |-> [home |-> home[PairOf(seq)], away |-> away[PairOf(seq)]]]

Pairings(home, away) ==
  [seq \in Sequence |-> IF LegOf(seq) = 1
     THEN [home |-> home[PairOf(seq)], away |-> away[PairOf(seq)]]
     ELSE [home |-> away[PairOf(seq)], away |-> home[PairOf(seq)]]]

Fresh(p) == [home |-> p.home, away |-> p.away, state |-> "NONE", score |-> Nobody,
             walkover |-> Nobody, by |-> Nobody, confirmedBy |-> Nobody]

(* Altered: the row a request has read may have changed meanwhile. *)
StillValidAnyway(reqs, seqs) == reqs

(* updateLiveWarMatch compares updatedAt: a result read from a row that    *)
(* has changed since can only be refused, so its request ends here.        *)
StillValid(reqs, seqs) == {q \in reqs : q.op = "RESULT" => q.seq \notin seqs}

-----------------------------------------------------------------------------
(* The operations on the war: the check of each, which leaves a request.   *)
Ask(q) ==
  /\ Cardinality(requests) < MaxRequests
  /\ requests' = requests \cup {q}
  /\ UNCHANGED << status, ready, roster, match, winner >>

CheckVerdict(verdict) == status = "INVITED" /\ Ask([op |-> verdict])

CheckCancel == status \in {"INVITED", "ACCEPTED"} /\ Ask([op |-> "CANCELLED"])

CheckRoster(l, lineup) ==
  /\ status = "ACCEPTED"
  /\ ~ready[l]
  /\ Ask([op |-> "ROSTER", league |-> l, lineup |-> lineup])

CheckReady(l, isReady) ==
  /\ status = "ACCEPTED"
  /\ isReady => Len(roster[l]) = PlayerCount
  /\ Ask([op |-> "READY", league |-> l, ready |-> isReady])

(* The pairings are laid out from the rosters as they are read here. *)
CheckStart ==
  /\ status = "ACCEPTED"
  /\ \A l \in Leagues : ready[l] /\ Len(roster[l]) = PlayerCount
  /\ \E away \in Shuffled(roster["AWAY"]) :
       Ask([op |-> "START", pairs |-> Pairings(roster["HOME"], away)])

(* Their writes. *)
WriteStatus(q) ==
  /\ q.op \in {"ACCEPTED", "REJECTED", "CANCELLED"}
  /\ status' = q.op
  /\ requests' = requests \ {q}
  /\ UNCHANGED << ready, roster, match, winner >>

(* A player may be in one roster of a war only (unique index): otherwise   *)
(* the whole transaction fails.                                            *)
WriteRoster(q) ==
  /\ q.op = "ROSTER"
  /\ Range(q.lineup) \cap Range(roster[Other(q.league)]) = {}
  /\ roster' = [roster EXCEPT ![q.league] = q.lineup]
  /\ requests' = requests \ {q}
  /\ UNCHANGED << status, ready, match, winner >>

WriteReady(q) ==
  /\ q.op = "READY"
  /\ ready' = [ready EXCEPT ![q.league] = q.ready]
  /\ requests' = requests \ {q}
  /\ UNCHANGED << status, roster, match, winner >>

(* New match rows; whoever read the old ones finds them gone. *)
WriteStart(q) ==
  /\ q.op = "START"
  /\ status = "ACCEPTED"
  /\ status' = "LIVE"
  /\ match' = [seq \in Sequence |-> Fresh(q.pairs[seq])]
  /\ requests' = StillValid({o \in requests : o.op # "PROOF"} \ {q}, Sequence)
  /\ UNCHANGED << ready, roster, winner >>

-----------------------------------------------------------------------------
(* The operations on a match.  set holds the columns they will write.      *)
AskResult(seq, set) == Ask([op |-> "RESULT", seq |-> seq, set |-> set])

DualAdmin(u) == AdminOf[u] = Leagues
Submitter(u) == IF "HOME" \in AdminOf[u] THEN "HOME" ELSE "AWAY"

(* matchHomeLeagueId *)
HomeLeague(seq) == IF LegOf(seq) = 2 THEN "AWAY" ELSE "HOME"

(* A result somebody of both leagues enters needs no confirmation. *)
Entered(u, score, walkover) ==
  [score |-> score, walkover |-> walkover, by |-> Submitter(u),
   confirmedBy |-> IF DualAdmin(u) THEN u ELSE Nobody,
   state |-> IF walkover = Nobody
             THEN IF DualAdmin(u) THEN "CONFIRMED" ELSE "PENDING_CONFIRMATION"
             ELSE IF DualAdmin(u) THEN "WALKOVER_CONFIRMED" ELSE "WALKOVER_PENDING"]

(* submitResult: also over a result that was confirmed already. *)
CheckSubmit(u, seq, score) ==
  /\ status = "LIVE"
  /\ AskResult(seq, Entered(u, score, Nobody))

(* Altered: the league at home in the second leg is not asked for. *)
WalkoverScoreFirstLeg(seq, l) == IF l = "HOME" THEN <<3, 0>> ELSE <<0, 3>>

WalkoverScore(seq, l) == IF l = HomeLeague(seq) THEN <<3, 0>> ELSE <<0, 3>>

(* submitWalkover *)
CheckWalkover(u, seq, l) ==
  /\ status = "LIVE"
  /\ AskResult(seq, Entered(u, WalkoverScore(seq, l), l))

(* Altered: a disputed result can be confirmed. *)
ReviewableAlways(m) == m.state \in Pending \cup {"DISPUTED"}

Reviewable(m) == m.state \in Pending

MayReview(u, seq) ==
  /\ seq \in DOMAIN match
  /\ Reviewable(match[seq])
  /\ \E l \in AdminOf[u] : l # match[seq].by

(* confirmResult and disputeResult: by somebody of the other league. *)
CheckConfirm(u, seq) ==
  /\ MayReview(u, seq)
  /\ AskResult(seq,
       [confirmedBy |-> u,
        state |-> IF match[seq].state = "WALKOVER_PENDING"
                  THEN "WALKOVER_CONFIRMED" ELSE "CONFIRMED"])

CheckDispute(u, seq) ==
  /\ MayReview(u, seq)
  /\ AskResult(seq, [state |-> "DISPUTED", confirmedBy |-> Nobody])

(* uploadProof: the war is looked at before the picture is uploaded.       *)
CheckProof(seq) ==
  /\ status = "LIVE"
  /\ Ask([op |-> "PROOF", seq |-> seq])

(* Altered: the status of the war is not asked for again. *)
WritableOnceChecked == TRUE

(* lockLiveWar *)
Writable == status = "LIVE"

WriteResult(q) ==
  /\ q.op = "RESULT"
  /\ Writable
  /\ match' = [match EXCEPT ![q.seq] =
                 [c \in DOMAIN @ |-> IF c \in DOMAIN q.set THEN q.set[c] ELSE @[c]]]
  /\ requests' = StillValid(requests \ {q}, {q.seq})
  /\ UNCHANGED << status, ready, roster, winner >>

(* The proof of a match that exists is stored whatever became of the war;  *)
(* the row changes, so those who read it are outdated.                     *)
WriteProof(q) ==
  /\ q.op = "PROOF"
  /\ requests' = StillValid(requests \ {q}, {q.seq})
  /\ UNCHANGED << status, ready, roster, match, winner >>

(* A write that is refused, or whose process stops before it. *)
Refuse(q) ==
  /\ requests' = requests \ {q}
  /\ UNCHANGED << status, ready, roster, match, winner >>

-----------------------------------------------------------------------------
(* assertCompleteWarFixtures *)
LineupsMatch ==
  LET first == {seq \in DOMAIN match : LegOf(seq) = 1}
      second == DOMAIN match \ first
  IN  /\ DOMAIN match = Sequence
      /\ {match[seq].home : seq \in first} = Range(roster["HOME"])
      /\ {match[seq].away : seq \in first} = Range(roster["AWAY"])
      /\ \A l \in Leagues : Cardinality(Range(roster[l])) = PlayerCount
      /\ Legs = 2 => {<<match[seq].away, match[seq].home>> : seq \in second}
                       = {<<match[seq].home, match[seq].away>> : seq \in first}

(* summary: the goals and points of a league, and who leads. *)
LeagueGoals(l, seq, m) == IF l = HomeLeague(seq) THEN m.score[1] ELSE m.score[2]

PointsOf(l, seq, m) ==
  LET mine == LeagueGoals(l, seq, m)
      theirs == LeagueGoals(Other(l), seq, m)
  IN  IF mine > theirs THEN Award.win ELSE IF mine = theirs THEN Award.draw ELSE Award.loss

Counted(m) == {seq \in DOMAIN m : m[seq].state \in Agreed}

(* Points, goal difference, goals, wins: home league less away league. *)
Margins(m) ==
  LET goals(l) == MapThenSumSet(LAMBDA seq : LeagueGoals(l, seq, m[seq]), Counted(m))
      points(l) == MapThenSumSet(LAMBDA seq : PointsOf(l, seq, m[seq]), Counted(m))
      wins(l) == Cardinality({seq \in Counted(m) : LeagueGoals(l, seq, m[seq])
                                                     > LeagueGoals(Other(l), seq, m[seq])})
  IN  << points("HOME") - points("AWAY"), 2 * (goals("HOME") - goals("AWAY")),
         goals("HOME") - goals("AWAY"), wins("HOME") - wins("AWAY") >>

Leader(m) ==
  LET decisive == {i \in 1 .. 4 : Margins(m)[i] # 0}
  IN  IF decisive = {} THEN Nobody
      ELSE IF Margins(m)[Min(decisive)] > 0 THEN "HOME" ELSE "AWAY"

(* completeWar *)
Complete ==
  /\ status = "LIVE"
  /\ LineupsMatch
  /\ Counted(match) = Sequence
  /\ status' = "COMPLETED"
  /\ winner' = Leader(match)
  /\ UNCHANGED << ready, roster, match, requests >>

-----------------------------------------------------------------------------
Next ==
  \/ Challenge
  \/ ExpireInvites
  \/ \E verdict \in {"ACCEPTED", "REJECTED"} : CheckVerdict(verdict)
  \/ CheckCancel
  \/ \E l \in Leagues : \E lineup \in Lineups(l) : CheckRoster(l, lineup)
  \/ \E l \in Leagues, isReady \in BOOLEAN : CheckReady(l, isReady)
  \/ CheckStart
  \/ \E u \in Admins, seq \in DOMAIN match :
       \/ \E score \in Scores : CheckSubmit(u, seq, score)
       \/ \E l \in Leagues : CheckWalkover(u, seq, l)
       \/ CheckConfirm(u, seq)
       \/ CheckDispute(u, seq)
  \/ \E seq \in DOMAIN match : CheckProof(seq)
  \/ \E q \in requests :
       \/ WriteStatus(q) \/ WriteRoster(q) \/ WriteReady(q) \/ WriteStart(q)
       \/ WriteResult(q) \/ WriteProof(q) \/ Refuse(q)
  \/ Complete

Spec == Init /\ [][Next]_vars

-----------------------------------------------------------------------------
Match == [home : Players, away : Players, score : Scores \cup {<<3, 0>>, <<0, 3>>, Nobody},
          state : Pending \cup Agreed \cup {"NONE", "DISPUTED"}, walkover : Leagues \cup {Nobody},
          by : Leagues \cup {Nobody}, confirmedBy : Admins \cup {Nobody}]

(* Every variable has its type, and no roster is over its size. *)
TypeOK ==
  /\ status \in Closed \cup {"NONE", "INVITED", "ACCEPTED", "LIVE"}
  /\ ready \in [Leagues -> BOOLEAN]
  /\ \A l \in Leagues : roster[l] \in Lineups(l)
  /\ match = NoMatches \/ match \in [Sequence -> Match]
  /\ winner \in Leagues \cup {Nobody}
  /\ Cardinality(requests) <= MaxRequests

(* However a start races with rosters, readiness and other starts, the     *)
(* pairings of a war are proper: in a leg nobody plays twice, players of a *)
(* match are of the two leagues, and the second leg is the exact return of *)
(* the first.                                                              *)
ProperPairs(m) ==
  /\ \A seq, o \in Sequence : LegOf(seq) = LegOf(o) /\ seq # o =>
       {m[seq].home, m[seq].away} \cap {m[o].home, m[o].away} = {}
  /\ \A seq \in Sequence : /\ m[seq].home \in Members[HomeLeague(seq)]
                           /\ m[seq].away \in Members[Other(HomeLeague(seq))]
                           /\ m[seq].home # m[seq].away
  /\ Legs = 2 => \A seq \in Sequence : \E o \in Sequence :
       m[o].home = m[seq].away /\ m[o].away = m[seq].home

PairingsProper == match # NoMatches => ProperPairs(match)

(* A result counts only when both leagues stand behind it: whoever         *)
(* confirmed it administers a league that did not enter it, or both.       *)
CountedIsAgreed ==
  \A seq \in Counted(match) :
    /\ match[seq].confirmedBy # Nobody
    /\ \E l \in AdminOf[match[seq].confirmedBy] :
         l # match[seq].by \/ DualAdmin(match[seq].confirmedBy)

(* A walkover is a win of the league it was given to, in either leg: the   *)
(* score entered for it and the summary agree on who is at home.           *)
WalkoverCounts ==
  \A seq \in DOMAIN match : match[seq].walkover # Nobody =>
    LeagueGoals(match[seq].walkover, seq, match[seq])
      > LeagueGoals(Other(match[seq].walkover), seq, match[seq])

(* The winner of a completed war is the leader of its results as they are, *)
(* whatever operations were under way when it was completed.               *)
WinnerIsLeader == status = "COMPLETED" => Counted(match) = Sequence /\ winner = Leader(match)

(* A disputed result does not count until somebody enters one anew. *)
DisputeStands ==
  [][\A seq \in DOMAIN match : match[seq].state = "DISPUTED" =>
       \/ seq \notin DOMAIN match'
       \/ match'[seq].state = "NONE"
       \/ match'[seq].state \in Agreed => DualAdmin(match'[seq].confirmedBy)]_vars
=============================================================================
