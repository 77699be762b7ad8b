-------------------------- MODULE LeagueWar_proofs --------------------------
(***************************************************************************)
(* For leagues, rosters and line-ups of any size and any number of         *)
(* operations in flight: the pairings of a war are proper, what counts was *)
(* agreed on, a walkover is won by the league it was given to, the winner  *)
(* is the leader and a dispute stands until a result is entered anew.      *)
(***************************************************************************)
EXTENDS LeagueWar, SequenceTheorems, TLAPS

Pair == [home : Players, away : Players]
SetByEntry == {"score", "walkover", "by", "confirmedBy", "state"}

(* What submitResult and submitWalkover will write: all of a result. *)
EntryOK(seq, s) ==
  /\ DOMAIN s = SetByEntry
  /\ s.score \in Scores \cup {<<3, 0>>, <<0, 3>>}
  /\ s.walkover \in Leagues \cup {Nobody}
  /\ s.by \in Leagues
  /\ s.confirmedBy \in Admins \cup {Nobody}
  /\ s.state \in Pending \cup Agreed
  /\ s.state \in Agreed => s.confirmedBy \in Admins /\ DualAdmin(s.confirmedBy)
  /\ s.walkover # Nobody => s.score = WalkoverScore(seq, s.walkover)

(* What confirmResult and disputeResult will write, about a match that is  *)
(* still as they have read it.                                             *)
VerdictOK(seq, s) ==
  /\ DOMAIN s = {"confirmedBy", "state"}
  /\ s.confirmedBy \in Admins \cup {Nobody}
  /\ s.state \in Agreed \cup {"DISPUTED"}
  /\ match[seq].state \in Pending
  /\ s.state \in Agreed =>
       /\ s.confirmedBy \in Admins
       /\ \E l \in AdminOf[s.confirmedBy] : l # match[seq].by

RequestOK(q) ==
  /\ q.op = "ROSTER" => q.league \in Leagues /\ q.lineup \in Lineups(q.league)
  /\ q.op = "START" => q.pairs \in [Sequence -> Pair] /\ ProperPairs(q.pairs)
  /\ q.op = "RESULT" => /\ q.seq \in DOMAIN match
                        /\ EntryOK(q.seq, q.set) \/ VerdictOK(q.seq, q.set)

RequestsOK == \A q \in requests : RequestOK(q)

RostersApart ==
  /\ roster \in [Leagues -> Seq(Players)]
  /\ \A l \in Leagues : roster[l] \in Lineups(l)
  /\ Range(roster["HOME"]) \cap Range(roster["AWAY"]) = {}

MatchesOK == match = NoMatches \/ match \in [Sequence -> Match]

WarInv == /\ RequestsOK /\ RostersApart /\ MatchesOK
          /\ PairingsProper /\ CountedIsAgreed /\ WalkoverCounts /\ WinnerIsLeader

-----------------------------------------------------------------------------
(* Pairings *)
LEMMA LineupType ==
  ASSUME NEW l \in Leagues, NEW s \in Lineups(l)
  PROVE  /\ s \in Seq(Players) /\ s \in [1 .. Len(s) -> Members[l]]
         /\ \A i, j \in 1 .. Len(s) : s[i] = s[j] => i = j
<1>1. PICK n \in 0 .. PlayerCount : s \in [1 .. n -> Members[l]]
  BY DEF Lineups
<1>2. n \in Nat /\ Members[l] \subseteq Players
  BY <1>1, CountsAssumption DEF Leagues, Players
<1>3. s \in Seq(Members[l])
  BY <1>1, <1>2, SeqDef
<1>4. Len(s) = n
  BY <1>1, <1>2, <1>3, LenProperties
<1>5. IsInjective(s)
  BY DEF Lineups
<1> QED
  BY <1>1, <1>2, <1>3, <1>4, <1>5 DEF IsInjective

LEMMA PlacesInLegs ==
  ASSUME NEW seq \in Sequence
  PROVE  /\ PairOf(seq) \in 1 .. PlayerCount
         /\ LegOf(seq) \in {1, 2}
         /\ \A o \in Sequence : LegOf(o) = LegOf(seq) /\ o # seq => PairOf(o) # PairOf(seq)
         /\ Legs = 2 => \E o \in Sequence : PairOf(o) = PairOf(seq) /\ LegOf(o) # LegOf(seq)
<1>1. CASE Legs = 1
  BY <1>1, CountsAssumption DEF Sequence, PairOf, LegOf
<1>2. CASE Legs = 2
  <2>1. seq \in 1 .. 2 * PlayerCount /\ PlayerCount \in Nat
    BY <1>2, CountsAssumption DEF Sequence
  <2>2. PairOf(seq) \in 1 .. PlayerCount /\ LegOf(seq) \in {1, 2}
    BY <1>2, <2>1 DEF PairOf, LegOf
  <2>3. \A o \in Sequence : LegOf(o) = LegOf(seq) /\ o # seq => PairOf(o) # PairOf(seq)
    BY <1>2, <2>1, CountsAssumption DEF PairOf, LegOf, Sequence
  <2>4. CASE seq % 2 = 0
    <3>1. seq - 1 \in Sequence /\ PairOf(seq - 1) = PairOf(seq) /\ LegOf(seq - 1) # LegOf(seq)
      BY <1>2, <2>1, <2>4 DEF PairOf, LegOf, Sequence
    <3> QED
      BY <2>2, <2>3, <3>1
  <2>5. CASE seq % 2 # 0
    <3>1. seq + 1 \in Sequence /\ PairOf(seq + 1) = PairOf(seq) /\ LegOf(seq + 1) # LegOf(seq)
      BY <1>2, <2>1, <2>5 DEF PairOf, LegOf, Sequence
    <3> QED
      BY <2>2, <2>3, <3>1
  <2> QED
    BY <2>4, <2>5
<1> QED
  BY <1>1, <1>2, CountsAssumption

LEMMA PairingsAreProper ==
  ASSUME NEW home \in [1 .. PlayerCount -> Members["HOME"]],
         NEW away \in [1 .. PlayerCount -> Members["AWAY"]],
         \A i, j \in 1 .. PlayerCount : home[i] = home[j] => i = j,
         \A i, j \in 1 .. PlayerCount : away[i] = away[j] => i = j,
         \A i, j \in 1 .. PlayerCount : home[i] # away[j]
  PROVE  Pairings(home, away) \in [Sequence -> Pair] /\ ProperPairs(Pairings(home, away))
<1> DEFINE P == Pairings(home, away)
<1>1. \A seq \in Sequence :
        /\ LegOf(seq) = 1 => P[seq].home = home[PairOf(seq)] /\ P[seq].away = away[PairOf(seq)]
        /\ LegOf(seq) # 1 => P[seq].home = away[PairOf(seq)] /\ P[seq].away = home[PairOf(seq)]
  BY DEF Pairings
<1>2. P \in [Sequence -> Pair]
  <2>1. \A seq \in Sequence : home[PairOf(seq)] \in Players /\ away[PairOf(seq)] \in Players
    BY PlacesInLegs DEF Players
  <2> QED
    BY <2>1 DEF Pairings, Pair
<1> HIDE DEF P
<1>3. \A seq, o \in Sequence : LegOf(seq) = LegOf(o) /\ seq # o =>
        {P[seq].home, P[seq].away} \cap {P[o].home, P[o].away} = {}
  <2> SUFFICES ASSUME NEW seq \in Sequence, NEW o \in Sequence, LegOf(seq) = LegOf(o), seq # o
               PROVE  {P[seq].home, P[seq].away} \cap {P[o].home, P[o].away} = {}
    OBVIOUS
  <2>1. PairOf(seq) # PairOf(o) /\ PairOf(seq) \in 1 .. PlayerCount /\ PairOf(o) \in 1 .. PlayerCount
    BY PlacesInLegs
  <2> QED
    BY <1>1, <2>1
<1>4. \A seq \in Sequence : /\ P[seq].home \in Members[HomeLeague(seq)]
                            /\ P[seq].away \in Members[Other(HomeLeague(seq))]
                            /\ P[seq].home # P[seq].away
  BY <1>1, PlacesInLegs DEF HomeLeague, Other
<1>5. ASSUME Legs = 2, NEW seq \in Sequence
      PROVE  \E o \in Sequence : P[o].home = P[seq].away /\ P[o].away = P[seq].home
  <2>1. PICK o \in Sequence : PairOf(o) = PairOf(seq) /\ LegOf(o) # LegOf(seq)
    BY <1>5, PlacesInLegs
  <2>2. LegOf(o) \in {1, 2} /\ LegOf(seq) \in {1, 2}
    BY PlacesInLegs
  <2> QED
    BY <1>1, <2>1, <2>2
<1> QED
  BY <1>2, <1>3, <1>4, <1>5 DEF ProperPairs, P

(* The players of a match decide whether the pairings are proper. *)
LEMMA SamePairs ==
  ASSUME NEW m, NEW n, ProperPairs(m),
         \A seq \in Sequence : n[seq].home = m[seq].home /\ n[seq].away = m[seq].away
  PROVE  ProperPairs(n)
BY DEF ProperPairs

-----------------------------------------------------------------------------
LEMMA Initially == Init => WarInv
<1> SUFFICES ASSUME Init PROVE WarInv
  OBVIOUS
<1>1. /\ << >> \in Seq(Players) /\ Range(<< >>) = {}
      /\ \A l \in Leagues : << >> \in Lineups(l)
  <2>1. \A l \in Leagues : << >> \in [1 .. 0 -> Members[l]] /\ IsInjective(<< >>)
    BY DEF IsInjective
  <2>2. 0 \in 0 .. PlayerCount
    BY CountsAssumption
  <2> QED
    BY <2>1, <2>2, EmptySeq DEF Lineups, Range
<1>2. DOMAIN match = {}
  BY DEF Init, NoMatches
<1> QED
  BY <1>1, <1>2 DEF Init, WarInv, RequestsOK, RostersApart, MatchesOK, PairingsProper,
     CountedIsAgreed, Counted, WalkoverCounts, WinnerIsLeader, Leagues

(* A check leaves a request behind and nothing else. *)
LEMMA Asking ==
  ASSUME WarInv, NEW q, Ask(q), RequestOK(q)
  PROVE  WarInv'
<1> USE DEF Ask, WarInv
<1>1. RequestsOK'
  BY DEF RequestsOK, RequestOK, VerdictOK
<1>2. RostersApart' /\ MatchesOK'
  BY DEF RostersApart, MatchesOK
<1>3. PairingsProper' /\ CountedIsAgreed' /\ WalkoverCounts' /\ WinnerIsLeader'
  BY DEF PairingsProper, CountedIsAgreed, WalkoverCounts, WinnerIsLeader, Counted
<1> QED
  BY <1>1, <1>2, <1>3

(* Requests go, and the matches stay as they are. *)
LEMMA FewerRequests ==
  ASSUME RequestsOK, requests' \subseteq requests, match' = match
  PROVE  RequestsOK'
BY DEF RequestsOK, RequestOK, VerdictOK

LEMMA SameMatches ==
  ASSUME WarInv, match' = match, winner' = winner, status' = "COMPLETED" => status = "COMPLETED"
  PROVE  /\ MatchesOK' /\ PairingsProper' /\ CountedIsAgreed' /\ WalkoverCounts'
         /\ WinnerIsLeader'
<1>1. MatchesOK' /\ PairingsProper' /\ CountedIsAgreed' /\ WalkoverCounts'
  BY DEF WarInv, MatchesOK, PairingsProper, CountedIsAgreed, WalkoverCounts, Counted
<1>2. WinnerIsLeader'
  BY DEF WarInv, WinnerIsLeader
<1> QED
  BY <1>1, <1>2

-----------------------------------------------------------------------------
(* Steps on the war *)
LEMMA ChallengeStep == WarInv /\ Challenge => WarInv'
<1> SUFFICES ASSUME WarInv, Challenge PROVE WarInv'
  OBVIOUS
<1>1. /\ << >> \in Seq(Players) /\ Range(<< >>) = {}
      /\ \A l \in Leagues : << >> \in Lineups(l)
  <2>1. \A l \in Leagues : << >> \in [1 .. 0 -> Members[l]] /\ IsInjective(<< >>)
    BY DEF IsInjective
  <2>2. 0 \in 0 .. PlayerCount
    BY CountsAssumption
  <2> QED
    BY <2>1, <2>2, EmptySeq DEF Lineups, Range
<1>2. match' = NoMatches /\ DOMAIN match' = {}
  BY DEF Challenge, NoMatches
<1> QED
  BY <1>1, <1>2 DEF Challenge, WarInv, RequestsOK, RostersApart, MatchesOK, PairingsProper,
     CountedIsAgreed, Counted, WalkoverCounts, WinnerIsLeader, Leagues

LEMMA StatusStep ==
  ASSUME WarInv, UNCHANGED << roster, match, winner >>, requests' \subseteq requests,
         status' = "COMPLETED" => status = "COMPLETED"
  PROVE  WarInv'
<1>1. RequestsOK'
  BY FewerRequests DEF WarInv
<1>2. RostersApart'
  BY DEF WarInv, RostersApart
<1> QED
  BY <1>1, <1>2, SameMatches DEF WarInv

LEMMA RosterStep ==
  ASSUME WarInv, NEW q \in requests, WriteRoster(q)
  PROVE  WarInv'
<1>1. q.league \in Leagues /\ q.lineup \in Lineups(q.league)
  BY DEF WriteRoster, WarInv, RequestsOK, RequestOK
<1>2. RequestsOK'
  BY FewerRequests DEF WarInv, WriteRoster
<1>3. RostersApart'
  <2>1. q.lineup \in Seq(Players)
    BY <1>1, LineupType
  <2>2. roster' = [roster EXCEPT ![q.league] = q.lineup]
        /\ Range(q.lineup) \cap Range(roster[Other(q.league)]) = {}
    BY DEF WriteRoster
  <2>3. roster' \in [Leagues -> Seq(Players)] /\ \A l \in Leagues : roster'[l] \in Lineups(l)
    BY <1>1, <2>1, <2>2 DEF WarInv, RostersApart
  <2>4. Range(roster'["HOME"]) \cap Range(roster'["AWAY"]) = {}
    BY <1>1, <2>2 DEF WarInv, RostersApart, Other, Leagues
  <2> QED
    BY <2>3, <2>4 DEF RostersApart
<1> QED
  BY <1>2, <1>3, SameMatches DEF WarInv, WriteRoster

LEMMA CheckStartStep == WarInv /\ CheckStart => WarInv'
<1> SUFFICES ASSUME WarInv, CheckStart PROVE WarInv'
  OBVIOUS
<1> DEFINE home == roster["HOME"]
           side == roster["AWAY"]
<1>1. PICK away \in Shuffled(side) : Ask([op |-> "START", pairs |-> Pairings(home, away)])
  BY DEF CheckStart
<1>2. PICK p \in [1 .. PlayerCount -> 1 .. PlayerCount] :
        IsInjective(p) /\ away = [i \in 1 .. PlayerCount |-> side[p[i]]]
  BY <1>1 DEF Shuffled
<1>3. Len(home) = PlayerCount /\ Len(side) = PlayerCount
  BY DEF CheckStart, Leagues
<1>4. /\ home \in [1 .. PlayerCount -> Members["HOME"]]
      /\ \A i, j \in 1 .. PlayerCount : home[i] = home[j] => i = j
  BY <1>3, LineupType DEF WarInv, RostersApart, Leagues
<1>5. /\ side \in [1 .. PlayerCount -> Members["AWAY"]]
      /\ \A i, j \in 1 .. PlayerCount : side[i] = side[j] => i = j
  BY <1>3, LineupType DEF WarInv, RostersApart, Leagues
<1>6. \A i, j \in 1 .. PlayerCount : home[i] # side[j]
  <2>1. Range(home) \cap Range(side) = {}
    BY DEF WarInv, RostersApart
  <2>2. DOMAIN home = 1 .. PlayerCount /\ DOMAIN side = 1 .. PlayerCount
    BY <1>4, <1>5
  <2>3. \A i \in 1 .. PlayerCount : home[i] \in Range(home) /\ side[i] \in Range(side)
    BY <2>2 DEF Range
  <2> QED
    BY <2>1, <2>3
<1> HIDE DEF home, side
<1>7. /\ away \in [1 .. PlayerCount -> Members["AWAY"]]
      /\ \A i, j \in 1 .. PlayerCount : away[i] = away[j] => i = j
      /\ \A i, j \in 1 .. PlayerCount : home[i] # away[j]
  BY <1>2, <1>5, <1>6 DEF IsInjective
<1>8. PICK h : h = home
  OBVIOUS
<1>9. PICK q : q = [op |-> "START", pairs |-> Pairings(h, away)]
  OBVIOUS
<1>10. Pairings(h, away) \in [Sequence -> Pair] /\ ProperPairs(Pairings(h, away))
  BY <1>4, <1>7, <1>8, PairingsAreProper
<1>11. RequestOK(q)
  BY <1>9, <1>10 DEF RequestOK
<1>12. Ask(q)
  BY <1>1, <1>8, <1>9
<1> QED
  BY <1>11, <1>12, Asking

LEMMA StartStep ==
  ASSUME WarInv, NEW q \in requests, WriteStart(q)
  PROVE  WarInv'
<1>1. q.pairs \in [Sequence -> Pair] /\ ProperPairs(q.pairs)
  BY DEF WriteStart, WarInv, RequestsOK, RequestOK
<1>2. match' = [seq \in Sequence |-> Fresh(q.pairs[seq])]
  BY DEF WriteStart
<1>3. match' \in [Sequence -> Match]
  BY <1>1, <1>2 DEF Match, Fresh, Pair
<1>4. \A seq \in Sequence :
        /\ match'[seq].home = q.pairs[seq].home /\ match'[seq].away = q.pairs[seq].away
        /\ match'[seq].state = "NONE" /\ match'[seq].walkover = Nobody
  BY <1>2 DEF Fresh
<1>5. RequestsOK'
  <2>1. \A o \in requests' : o \in requests /\ o.op = "RESULT" => o.seq \notin Sequence
    BY DEF WriteStart, StillValid
  <2>2. \A o \in requests' : o.op # "RESULT"
    <3>1. \A o \in requests : o.op = "RESULT" => o.seq \in DOMAIN match
      BY DEF WarInv, RequestsOK, RequestOK
    <3>2. DOMAIN match \subseteq Sequence
      BY DEF WarInv, MatchesOK, NoMatches
    <3> QED
      BY <2>1, <3>1, <3>2 DEF WriteStart, StillValid
  <2>3. \A o \in requests' : o \in requests
    BY DEF WriteStart, StillValid
  <2> QED
    BY <2>2, <2>3 DEF WarInv, RequestsOK, RequestOK
<1>6. PairingsProper'
  <2>1. PICK m : m = match'
    OBVIOUS
  <2>2. ProperPairs(m)
    BY <1>1, <1>4, <2>1, SamePairs
  <2> QED
    BY <2>1, <2>2 DEF PairingsProper
<1>7. CountedIsAgreed' /\ WalkoverCounts'
  BY <1>3, <1>4 DEF CountedIsAgreed, WalkoverCounts, Counted, Agreed
<1>8. WinnerIsLeader'
  BY DEF WinnerIsLeader, WriteStart
<1>9. RostersApart'
  BY DEF WarInv, RostersApart, WriteStart
<1> QED
  BY <1>3, <1>5, <1>6, <1>7, <1>8, <1>9 DEF WarInv, MatchesOK

-----------------------------------------------------------------------------
(* Steps on a match *)
LEMMA EntryIsOK ==
  ASSUME NEW u \in Admins, NEW seq,
         NEW score \in Scores \cup {<<3, 0>>, <<0, 3>>}, NEW walkover \in Leagues \cup {Nobody},
         walkover # Nobody => score = WalkoverScore(seq, walkover)
  PROVE  EntryOK(seq, Entered(u, score, walkover))
<1>1. Submitter(u) \in Leagues /\ u # Nobody
  BY MembersAssumption DEF Submitter, Leagues
<1>2. DOMAIN Entered(u, score, walkover) = SetByEntry
  BY DEF Entered, SetByEntry
<1>3. CASE DualAdmin(u)
  BY <1>1, <1>2, <1>3 DEF EntryOK, Entered, Pending, Agreed
<1>4. CASE ~DualAdmin(u)
  BY <1>1, <1>2, <1>4 DEF EntryOK, Entered, Pending, Agreed
<1> QED
  BY <1>3, <1>4

LEMMA AskResultStep ==
  ASSUME WarInv, NEW seq \in DOMAIN match, NEW set, AskResult(seq, set),
         EntryOK(seq, set) \/ VerdictOK(seq, set)
  PROVE  WarInv'
<1>1. PICK q : q = [op |-> "RESULT", seq |-> seq, set |-> set]
  OBVIOUS
<1>2. RequestOK(q)
  BY <1>1 DEF RequestOK
<1>3. Ask(q)
  BY <1>1 DEF AskResult
<1> QED
  BY <1>2, <1>3, Asking

LEMMA EntrySteps ==
  ASSUME WarInv, NEW u \in Admins, NEW seq \in DOMAIN match
  PROVE  /\ \A score \in Scores : CheckSubmit(u, seq, score) => WarInv'
         /\ \A l \in Leagues : CheckWalkover(u, seq, l) => WarInv'
<1>1. ASSUME NEW score \in Scores, CheckSubmit(u, seq, score)
      PROVE  WarInv'
  <2>1. PICK s : s = Entered(u, score, Nobody)
    OBVIOUS
  <2>2. EntryOK(seq, s)
    BY <2>1, EntryIsOK
  <2> QED
    BY <1>1, <2>1, <2>2, AskResultStep DEF CheckSubmit
<1>2. ASSUME NEW l \in Leagues, CheckWalkover(u, seq, l)
      PROVE  WarInv'
  <2>1. PICK s : s = Entered(u, WalkoverScore(seq, l), l)
    OBVIOUS
  <2>2. WalkoverScore(seq, l) \in {<<3, 0>>, <<0, 3>>}
    BY DEF WalkoverScore
  <2>3. EntryOK(seq, s)
    BY <2>1, <2>2, EntryIsOK
  <2> QED
    BY <1>2, <2>1, <2>3, AskResultStep DEF CheckWalkover
<1> QED
  BY <1>1, <1>2

LEMMA VerdictSteps ==
  ASSUME WarInv, NEW u \in Admins, NEW seq \in DOMAIN match,
         CheckConfirm(u, seq) \/ CheckDispute(u, seq)
  PROVE  WarInv'
<1>1. match[seq].state \in Pending /\ \E l \in AdminOf[u] : l # match[seq].by
  BY DEF CheckConfirm, CheckDispute, MayReview, Reviewable
<1>2. CASE CheckConfirm(u, seq)
  <2>1. PICK s : s = [confirmedBy |-> u,
                      state |-> IF match[seq].state = "WALKOVER_PENDING"
                                THEN "WALKOVER_CONFIRMED" ELSE "CONFIRMED"]
    OBVIOUS
  <2>2. DOMAIN s = {"confirmedBy", "state"} /\ s.confirmedBy = u /\ s.state \in Agreed
    BY <2>1 DEF Agreed
  <2>3. VerdictOK(seq, s)
    BY <1>1, <2>2 DEF VerdictOK
  <2>4. AskResult(seq, s)
    BY <1>2, <2>1 DEF CheckConfirm
  <2> QED
    BY <2>3, <2>4, AskResultStep
<1>3. CASE CheckDispute(u, seq)
  <2>1. PICK s : s = [state |-> "DISPUTED", confirmedBy |-> Nobody]
    OBVIOUS
  <2>2. DOMAIN s = {"confirmedBy", "state"} /\ s.confirmedBy = Nobody /\ s.state = "DISPUTED"
    BY <2>1
  <2>3. VerdictOK(seq, s)
    BY <1>1, <2>2 DEF VerdictOK, Agreed
  <2>4. AskResult(seq, s)
    BY <1>3, <2>1 DEF CheckDispute
  <2> QED
    BY <2>3, <2>4, AskResultStep
<1> QED
  BY <1>2, <1>3

(* A match before and after a write. *)
LEMMA Written ==
  ASSUME WarInv, NEW q \in requests, WriteResult(q)
  PROVE  /\ q.seq \in Sequence /\ q.seq \in DOMAIN match /\ DOMAIN match = Sequence
         /\ match' \in [Sequence -> Match]
         /\ \A seq \in Sequence \ {q.seq} : match'[seq] = match[seq]
         /\ match'[q.seq].home = match[q.seq].home /\ match'[q.seq].away = match[q.seq].away
         /\ \A c \in {"score", "walkover", "by", "confirmedBy", "state"} :
              match'[q.seq][c] = IF c \in DOMAIN q.set THEN q.set[c] ELSE match[q.seq][c]
         /\ EntryOK(q.seq, q.set) \/ VerdictOK(q.seq, q.set)
<1>1. /\ q.seq \in DOMAIN match
      /\ EntryOK(q.seq, q.set) \/ VerdictOK(q.seq, q.set)
  BY DEF WriteResult, WarInv, RequestsOK, RequestOK
<1>2. match \in [Sequence -> Match] /\ DOMAIN match = Sequence
  BY <1>1 DEF WarInv, MatchesOK, NoMatches
<1>3. match[q.seq] \in Match
  BY <1>1, <1>2
<1> DEFINE m == match[q.seq]
           w == [c \in DOMAIN m |-> IF c \in DOMAIN q.set THEN q.set[c] ELSE m[c]]
<1>4. match' = [match EXCEPT ![q.seq] = w]
  BY DEF WriteResult
<1>5. DOMAIN m = {"home", "away"} \cup SetByEntry
  BY <1>3 DEF Match, SetByEntry
<1>6. DOMAIN q.set \subseteq SetByEntry
  BY <1>1 DEF EntryOK, VerdictOK, SetByEntry
<1>7. /\ w.home = m.home /\ w.away = m.away
      /\ \A c \in SetByEntry : w[c] = IF c \in DOMAIN q.set THEN q.set[c] ELSE m[c]
  BY <1>5, <1>6 DEF SetByEntry
<1>8. w \in Match
  <2>1. CASE EntryOK(q.seq, q.set)
    <3>1. w = [home |-> m.home, away |-> m.away, score |-> q.set.score, state |-> q.set.state,
               walkover |-> q.set.walkover, by |-> q.set.by, confirmedBy |-> q.set.confirmedBy]
      BY <1>5, <1>7, <2>1 DEF EntryOK, SetByEntry
    <3> QED
      BY <1>3, <2>1, <3>1 DEF EntryOK, Match
  <2>2. CASE VerdictOK(q.seq, q.set)
    <3>1. w = [home |-> m.home, away |-> m.away, score |-> m.score, state |-> q.set.state,
               walkover |-> m.walkover, by |-> m.by, confirmedBy |-> q.set.confirmedBy]
      BY <1>5, <1>7, <2>2 DEF VerdictOK, SetByEntry
    <3> QED
      BY <1>3, <2>2, <3>1 DEF VerdictOK, Match
  <2> QED
    BY <1>1, <2>1, <2>2
<1> HIDE DEF w
<1> QED
  BY <1>1, <1>2, <1>4, <1>7, <1>8 DEF SetByEntry

LEMMA ResultStep ==
  ASSUME WarInv, NEW q \in requests, WriteResult(q)
  PROVE  WarInv'
<1>1. requests' \subseteq requests
      /\ \A o \in requests' : o.op = "RESULT" => o.seq # q.seq
  BY DEF WriteResult, StillValid
<1>2. RequestsOK'
  <2> SUFFICES ASSUME NEW o \in requests' PROVE RequestOK(o)'
    BY DEF RequestsOK
  <2>1. RequestOK(o)
    BY <1>1 DEF WarInv, RequestsOK
  <2>2. CASE o.op = "RESULT"
    <3>1. o.seq \in Sequence /\ match'[o.seq] = match[o.seq] /\ DOMAIN match' = Sequence
      BY <1>1, <2>1, <2>2, Written DEF RequestOK
    <3> QED
      BY <2>1, <2>2, <3>1 DEF RequestOK, VerdictOK
  <2> QED
    BY <2>1, <2>2 DEF RequestOK
<1>3. PairingsProper'
  <2>1. PICK m : m = match
    OBVIOUS
  <2>2. PICK n : n = match'
    OBVIOUS
  <2>3. ProperPairs(m)
    <3>1. match # NoMatches
      BY Written DEF NoMatches
    <3> QED
      BY <2>1, <3>1 DEF WarInv, PairingsProper
  <2>4. \A seq \in Sequence : n[seq].home = m[seq].home /\ n[seq].away = m[seq].away
    BY <2>1, <2>2, Written
  <2>5. ProperPairs(n)
    BY <2>3, <2>4, SamePairs
  <2> QED
    BY <2>2, <2>5 DEF PairingsProper
<1> DEFINE m == match[q.seq]
           n == match'[q.seq]
<1>4. /\ n.state \in Agreed =>
           /\ n.confirmedBy # Nobody
           /\ \E l \in AdminOf[n.confirmedBy] : l # n.by \/ DualAdmin(n.confirmedBy)
      /\ n.walkover # Nobody =>
           LeagueGoals(n.walkover, q.seq, n) > LeagueGoals(Other(n.walkover), q.seq, n)
  <2>1. CASE EntryOK(q.seq, q.set)
    <3>1. n.state = q.set.state /\ n.score = q.set.score /\ n.walkover = q.set.walkover
          /\ n.confirmedBy = q.set.confirmedBy
      BY <2>1, Written DEF EntryOK, SetByEntry
    <3>2. n.state \in Agreed => n.confirmedBy \in Admins /\ DualAdmin(n.confirmedBy)
      BY <2>1, <3>1 DEF EntryOK
    <3>3. n.walkover # Nobody =>
            n.walkover \in Leagues /\ n.score = WalkoverScore(q.seq, n.walkover)
      BY <2>1, <3>1 DEF EntryOK
    <3>4. n.state \in Agreed =>
            /\ n.confirmedBy # Nobody
            /\ \E l \in AdminOf[n.confirmedBy] : DualAdmin(n.confirmedBy)
      BY <3>2, MembersAssumption DEF DualAdmin, Leagues
    <3>5. n.walkover # Nobody =>
            LeagueGoals(n.walkover, q.seq, n) > LeagueGoals(Other(n.walkover), q.seq, n)
      BY <3>3 DEF WalkoverScore, LeagueGoals, HomeLeague, Other, Leagues
    <3> QED
      BY <3>4, <3>5
  <2>2. CASE VerdictOK(q.seq, q.set)
    <3>1. n.state = q.set.state /\ n.confirmedBy = q.set.confirmedBy
          /\ n.score = m.score /\ n.walkover = m.walkover /\ n.by = m.by
      BY <2>2, Written DEF VerdictOK
    <3>2. n.state \in Agreed =>
            /\ n.confirmedBy # Nobody
            /\ \E l \in AdminOf[n.confirmedBy] : l # n.by
      BY <2>2, <3>1, MembersAssumption DEF VerdictOK
    <3>3. n.walkover # Nobody =>
            LeagueGoals(n.walkover, q.seq, n) > LeagueGoals(Other(n.walkover), q.seq, n)
      BY <3>1, Written DEF WarInv, WalkoverCounts, LeagueGoals
    <3> QED
      BY <3>2, <3>3
  <2> QED
    BY <2>1, <2>2, Written
<1>5. CountedIsAgreed'
  BY <1>4, Written DEF WarInv, CountedIsAgreed, Counted
<1>6. WalkoverCounts'
  <2> SUFFICES ASSUME NEW seq \in Sequence, match'[seq].walkover # Nobody
               PROVE  LeagueGoals(match'[seq].walkover, seq, match'[seq])
                        > LeagueGoals(Other(match'[seq].walkover), seq, match'[seq])
    BY Written DEF WalkoverCounts
  <2>1. CASE seq = q.seq
    BY <1>4, <2>1
  <2>2. CASE seq # q.seq
    BY <2>2, Written DEF WarInv, WalkoverCounts
  <2> QED
    BY <2>1, <2>2
<1>7. WinnerIsLeader'
  BY DEF WinnerIsLeader, WriteResult, Writable
<1>8. RostersApart' /\ MatchesOK'
  BY Written DEF WarInv, RostersApart, MatchesOK, WriteResult
<1> QED
  BY <1>2, <1>3, <1>5, <1>6, <1>7, <1>8 DEF WarInv

-----------------------------------------------------------------------------
LEMMA CompleteStep == WarInv /\ Complete => WarInv'
<1> SUFFICES ASSUME WarInv, Complete PROVE WarInv'
  OBVIOUS
<1>1. UNCHANGED << roster, match, requests >>
  BY DEF Complete
<1>2. RequestsOK'
  BY <1>1, FewerRequests DEF WarInv
<1>3. RostersApart' /\ MatchesOK' /\ PairingsProper' /\ CountedIsAgreed' /\ WalkoverCounts'
  BY <1>1 DEF WarInv, RostersApart, MatchesOK, PairingsProper, CountedIsAgreed, WalkoverCounts,
     Counted
<1>4. WinnerIsLeader'
  BY <1>1 DEF Complete, WinnerIsLeader
<1> QED
  BY <1>2, <1>3, <1>4 DEF WarInv

LEMMA ChecksOfWar ==
  ASSUME WarInv,
         \/ \E verdict \in {"ACCEPTED", "REJECTED"} : CheckVerdict(verdict)
         \/ CheckCancel
         \/ \E l \in Leagues : \E lineup \in Lineups(l) : CheckRoster(l, lineup)
         \/ \E l \in Leagues, isReady \in BOOLEAN : CheckReady(l, isReady)
         \/ \E seq \in DOMAIN match : CheckProof(seq)
  PROVE  WarInv'
<1> DEFINE Plain(r) == r.op \in {"ACCEPTED", "REJECTED", "CANCELLED", "READY", "PROOF"}
           Roster(r) == r.op = "ROSTER" /\ r.league \in Leagues /\ r.lineup \in Lineups(r.league)
<1>1. PICK q : Ask(q) /\ (Plain(q) \/ Roster(q))
  <2>1. ASSUME NEW verdict \in {"ACCEPTED", "REJECTED"}, CheckVerdict(verdict)
        PROVE  \E q : Ask(q) /\ Plain(q)
    <3>1. Ask([op |-> verdict]) /\ Plain([op |-> verdict])
      BY <2>1 DEF CheckVerdict
    <3> QED
      BY <3>1
  <2>2. ASSUME CheckCancel PROVE  \E q : Ask(q) /\ Plain(q)
    <3>1. Ask([op |-> "CANCELLED"]) /\ Plain([op |-> "CANCELLED"])
      BY <2>2 DEF CheckCancel
    <3> QED
      BY <3>1
  <2>3. ASSUME NEW l \in Leagues, NEW lineup \in Lineups(l), CheckRoster(l, lineup)
        PROVE  \E q : Ask(q) /\ Roster(q)
    <3> DEFINE asked == [op |-> "ROSTER", league |-> l, lineup |-> lineup]
    <3>1. Ask(asked) /\ Roster(asked)
      BY <2>3 DEF CheckRoster
    <3> QED
      BY <3>1
  <2>4. ASSUME NEW l \in Leagues, NEW isReady \in BOOLEAN, CheckReady(l, isReady)
        PROVE  \E q : Ask(q) /\ Plain(q)
    <3> DEFINE asked == [op |-> "READY", league |-> l, ready |-> isReady]
    <3>1. Ask(asked) /\ Plain(asked)
      BY <2>4 DEF CheckReady
    <3> QED
      BY <3>1
  <2>5. ASSUME NEW seq \in DOMAIN match, CheckProof(seq)
        PROVE  \E q : Ask(q) /\ Plain(q)
    <3>1. Ask([op |-> "PROOF", seq |-> seq]) /\ Plain([op |-> "PROOF", seq |-> seq])
      BY <2>5 DEF CheckProof
    <3> QED
      BY <3>1
  <2> QED
    BY <2>1, <2>2, <2>3, <2>4, <2>5
<1>2. RequestOK(q)
  BY <1>1 DEF RequestOK
<1> HIDE DEF Plain, Roster
<1> QED
  BY <1>1, <1>2, Asking

LEMMA OtherSteps ==
  ASSUME WarInv,
         \/ ExpireInvites
         \/ \E q \in requests : \/ WriteStatus(q) \/ WriteReady(q) \/ WriteProof(q) \/ Refuse(q)
  PROVE  WarInv'
<1>1. /\ UNCHANGED << roster, match, winner >>
      /\ requests' \subseteq requests
      /\ status' = "COMPLETED" => status = "COMPLETED"
  BY DEF ExpireInvites, WriteStatus, WriteReady, WriteProof, Refuse, StillValid
<1> QED
  BY <1>1, StatusStep

LEMMA Invariance == WarInv /\ [Next]_vars => WarInv'
<1> SUFFICES ASSUME WarInv, [Next]_vars PROVE WarInv'
  OBVIOUS
<1>1. CASE Challenge
  BY <1>1, ChallengeStep
<1>2. CASE CheckStart
  BY <1>2, CheckStartStep
<1>3. CASE \E u \in Admins, seq \in DOMAIN match :
             \/ \E score \in Scores : CheckSubmit(u, seq, score)
             \/ \E l \in Leagues : CheckWalkover(u, seq, l)
             \/ CheckConfirm(u, seq)
             \/ CheckDispute(u, seq)
  BY <1>3, EntrySteps, VerdictSteps
<1>4. CASE \E q \in requests : WriteRoster(q) \/ WriteStart(q) \/ WriteResult(q)
  BY <1>4, RosterStep, StartStep, ResultStep
<1>5. CASE Complete
  BY <1>5, CompleteStep
<1>6. CASE UNCHANGED vars
  BY <1>6, StatusStep DEF vars
<1> QED
  BY <1>1, <1>2, <1>3, <1>4, <1>5, <1>6, ChecksOfWar, OtherSteps DEF Next

(* What the proofs of the properties rest on, with what the operations in  *)
(* flight may still write (the checks before lockLiveWar).                 *)
THEOREM WarInvHolds == Spec => []WarInv
BY Initially, Invariance, PTL DEF Spec

(* However rosters, readiness and starts race: in a leg nobody plays       *)
(* twice, the players are of the two leagues and the second leg is the     *)
(* return of the first (startWar).                                         *)
THEOREM PairingsAlwaysProper == Spec => []PairingsProper
<1>1. WarInv => PairingsProper
  BY DEF WarInv
<1> QED
  BY <1>1, WarInvHolds, PTL

(* No result counts that only one of the leagues stands behind             *)
(* (submitResult, submitWalkover, confirmResult, updateLiveWarMatch).      *)
THEOREM CountedResultsAgreed == Spec => []CountedIsAgreed
<1>1. WarInv => CountedIsAgreed
  BY DEF WarInv
<1> QED
  BY <1>1, WarInvHolds, PTL

(* A walkover is a win of the league it was given to, in either leg        *)
(* (submitWalkover, matchHomeLeagueId).                                    *)
THEOREM WalkoversCount == Spec => []WalkoverCounts
<1>1. WarInv => WalkoverCounts
  BY DEF WarInv
<1> QED
  BY <1>1, WarInvHolds, PTL

(* The winner saved is the leader of the results as they stay (completeWar *)
(* and lockLiveWar).                                                       *)
THEOREM WinnerStaysLeader == Spec => []WinnerIsLeader
<1>1. WarInv => WinnerIsLeader
  BY DEF WarInv
<1> QED
  BY <1>1, WarInvHolds, PTL

-----------------------------------------------------------------------------
LEMMA DisputeKept ==
  ASSUME WarInv, [Next]_vars, NEW seq \in DOMAIN match, match[seq].state = "DISPUTED"
  PROVE  \/ seq \notin DOMAIN match'
         \/ match'[seq].state = "NONE"
         \/ match'[seq].state \in Agreed => DualAdmin(match'[seq].confirmedBy)
<1>1. CASE \E q \in requests : WriteResult(q)
  <2>1. PICK q \in requests : WriteResult(q)
    BY <1>1
  <2>2. CASE seq # q.seq
    <3>1. match'[seq] = match[seq]
      BY <2>1, <2>2, Written
    <3> QED
      BY <3>1 DEF Agreed
  <2>3. CASE seq = q.seq
    <3>1. EntryOK(q.seq, q.set)
      BY <2>1, <2>3, Written DEF VerdictOK, Pending
    <3>2. match'[seq].state = q.set.state /\ match'[seq].confirmedBy = q.set.confirmedBy
      BY <2>1, <2>3, <3>1, Written DEF EntryOK, SetByEntry
    <3> QED
      BY <3>1, <3>2 DEF EntryOK
  <2> QED
    BY <2>2, <2>3
<1>2. CASE \E q \in requests : WriteStart(q)
  BY <1>2 DEF WriteStart, Fresh
<1>3. CASE Challenge
  BY <1>3 DEF Challenge, NoMatches
<1>4. CASE match' = match
  BY <1>4 DEF Agreed
<1>5. \/ match' = match \/ Challenge
      \/ \E q \in requests : WriteResult(q) \/ WriteStart(q)
  BY DEF Next, vars, ExpireInvites, CheckVerdict, CheckCancel, CheckRoster, CheckReady, CheckStart,
     CheckSubmit, CheckWalkover, CheckConfirm, CheckDispute, CheckProof, AskResult, Ask,
     WriteStatus, WriteRoster, WriteReady, WriteProof, Refuse, Complete
<1> QED
  BY <1>1, <1>2, <1>3, <1>4, <1>5

(* No confirmation that was under way makes a disputed result count        *)
(* (confirmResult and disputeResult over updateLiveWarMatch).              *)
THEOREM DisputesStand == Spec => DisputeStands
<1>1. WarInv /\ [Next]_vars =>
        [\A seq \in DOMAIN match : match[seq].state = "DISPUTED" =>
           \/ seq \notin DOMAIN match'
           \/ match'[seq].state = "NONE"
           \/ match'[seq].state \in Agreed => DualAdmin(match'[seq].confirmedBy)]_vars
  BY DisputeKept
<1> QED
  BY <1>1, WarInvHolds, PTL DEF Spec, DisputeStands
=============================================================================
