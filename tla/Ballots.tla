------------------------------ MODULE Ballots -------------------------------
(***************************************************************************)
(* Voting for the most valuable players of one game: the buttons of the    *)
(* voting messages, the voting page, the table of votes both write, and    *)
(* the two counts that read it, the job's (calculate_mvp) and the finish's *)
(* (_get_mvp_winners_from_votes).                                          *)
(*                                                                         *)
(* Nothing locks: a request checks, awaits, and inserts, while others vote *)
(* and organizers move players between the teams, the roster and its       *)
(* reserve.                                                                *)
(***************************************************************************)
EXTENDS Integers, FiniteSets

CONSTANTS
  Players,   \* the players with a signup in the game
  Guests,    \* members of the chat without one, who see the buttons as well
  Requests,     \* requests of voters
  MaxMoves   \* bound on the moves of players while the voting is on

ASSUME BallotParameters ==
  /\ IsFiniteSet(Players) /\ Players \cap Guests = {}
  /\ MaxMoves \in Nat

Teams == {"A", "B", "C"}
Voters == Players \cup Guests

VARIABLES
  active,   \* the players whose signup is ACTIVE (the others are RESERVE)
  team,     \* team[u]: Signup.team, "none" for NULL
  had,      \* had[u]: the teams a ballot for u could be filed under so far
  moves,    \* how many moves there have been
  buttons,  \* the players on the keyboards sent so far
  votes,    \* rows of Vote
  finished, \* whether the game is FINISHED
  elected,  \* the players with is_mvp in GameStats
  request   \* how far each request has come

roster == <<active, team, had, moves>>
ballotVars == <<active, team, had, moves, buttons, votes, finished, elected, request>>

Unused == [at |-> "idle"]
Goes(p, t) == request' = [request EXCEPT ![p] = t]
Ballot(v, u, t) == [voter |-> v, target |-> u, team |-> t]

\* A player without a team is voted for as one of team A.
Filed(t) == IF t = "none" THEN "A" ELSE t

BallotsInit ==
  /\ active \in SUBSET Players
  /\ team \in [Players -> Teams \cup {"none"}]
  /\ had = [u \in Players |-> {Filed(team[u])}]
  /\ moves = 0
  /\ buttons = {}
  /\ votes = {}
  /\ finished = FALSE
  /\ elected = {}
  /\ request = [p \in Requests |-> Unused]

(***************************************************************************)
(* Keyboards and pages.                                                    *)
(***************************************************************************)
InTeam(t) == {u \in active : team[u] = t}

\* get_voting_keyboard: those in the teams or, if there are none, everybody.
\* Keyboards stay in the chat, in direct messages and in clients, whatever
\* happens to the voting.
ShowButtons ==
  LET assigned == {u \in active : team[u] # "none"}
  IN  /\ active # {}
      /\ buttons' = buttons \cup (IF assigned = {} THEN active ELSE assigned)
      /\ UNCHANGED <<roster, votes, finished, elected, request>>

Voted(v) == {b \in votes : b.voter = v}

\* get_vote_data: the page lists teams A and B, unless the player has voted.
OpenPage(p, v) ==
  /\ request[p] = Unused
  /\ v \in active
  /\ Voted(v) = {}
  /\ Goes(p, [at |-> "page", voter |-> v, a |-> InTeam("A"), b |-> InTeam("B")])
  /\ UNCHANGED <<roster, buttons, votes, finished, elected>>

(***************************************************************************)
(* Casting.                                                                *)
(***************************************************************************)

\* (mutated: nobody minds whom a player votes for)
PressedAny(v, u) == v \in active

\* Only players vote, and not for themselves.
Eligible(v, u) == v # u /\ v \in active

\* process_vote: one ballot for the team the target is in now.
Press(p, v, u) ==
  LET t == Filed(team[u])
  IN  /\ request[p] = Unused
      /\ u \in buttons
      /\ Eligible(v, u)
      /\ \A b \in Voted(v) : b.team # t
      /\ Goes(p, [at |-> "insert", ballots |-> {Ballot(v, u, t)}])
      /\ UNCHANGED <<roster, buttons, votes, finished, elected>>

\* (mutated: the two choices change places)
PageSwapped(v, a, b) == {Ballot(v, a, "B"), Ballot(v, b, "A")}

PageBallots(v, a, b) == {Ballot(v, a, "A"), Ballot(v, b, "B")}

\* submit_vote: two ballots, of those the page showed when it was opened.
Submit(p, a, b) ==
  LET t == request[p]
  IN  /\ t.at = "page"
      /\ a \in t.a /\ b \in t.b
      /\ Eligible(t.voter, a) /\ Eligible(t.voter, b)
      /\ Voted(t.voter) = {}
      /\ Goes(p, [at |-> "insert", ballots |-> PageBallots(t.voter, a, b)])
      /\ UNCHANGED <<roster, buttons, votes, finished, elected>>

\* (mutated: no constraint)
Unconstrained(ballots) == TRUE

\* unique_vote_team: one row per voter and team of a game.
Unique(ballots) ==
  \A b \in ballots, c \in votes : ~(c.voter = b.voter /\ c.team = b.team)

Insert(p) ==
  /\ request[p].at = "insert"
  /\ Unique(request[p].ballots)
  /\ votes' = votes \cup request[p].ballots
  /\ Goes(p, Unused)
  /\ UNCHANGED <<roster, buttons, finished, elected>>

\* The page is closed, or the transaction fails: nothing of it is stored.
GiveUp(p) ==
  /\ request[p] # Unused
  /\ Goes(p, Unused)
  /\ UNCHANGED <<roster, buttons, votes, finished, elected>>

(***************************************************************************)
(* Counting.                                                               *)
(***************************************************************************)
Received(t, u) == Cardinality({b \in votes : b.team = t /\ b.target = u})

\* Those ahead in a team: several of them in a tie, none without votes.
Leaders(t) ==
  {u \in Players : /\ Received(t, u) > 0
                   /\ \A w \in Players : Received(t, w) <= Received(t, u)}

\* (mutated: the job counts two teams)
TwoTeams == {"A", "B"}

JobTeams == {"A", "B"} \cup (IF InTeam("C") # {} THEN {"C"} ELSE {})

FinishTeams ==
  LET playing == {team[u] : u \in active} \ {"none"}
  IN  IF playing = {} THEN {"A", "B"} ELSE playing

JobWinners    == UNION {Leaders(t) : t \in JobTeams}
FinishWinners == UNION {Leaders(t) : t \in FinishTeams}

\* calculate_mvp marks its winners, and unmarks nobody.
JobElects ==
  /\ elected' = elected \cup JobWinners
  /\ UNCHANGED <<roster, buttons, votes, finished, request>>

\* finish_game, where the organizer names nobody.  The first finish keeps
\* those the job has elected, a later one elects anew.
FinishElects ==
  /\ elected' = FinishWinners \cup (IF finished THEN {} ELSE elected)
  /\ finished' = TRUE
  /\ UNCHANGED <<roster, buttons, votes, request>>

(***************************************************************************)
(* Meanwhile, organizers and players change the roster: a player changes   *)
(* teams, drops to the reserve, or comes up from it.                       *)
(***************************************************************************)
Move(u) ==
  /\ moves < MaxMoves
  /\ moves' = moves + 1
  /\ \/ \E t \in (Teams \cup {"none"}) \ {team[u]} :
          /\ team' = [team EXCEPT ![u] = t]
          /\ had' = [had EXCEPT ![u] = @ \cup {Filed(t)}]
          /\ UNCHANGED active
     \/ /\ active' = IF u \in active THEN active \ {u} ELSE active \cup {u}
        /\ UNCHANGED <<team, had>>
  /\ UNCHANGED <<buttons, votes, finished, elected, request>>

BallotsNext ==
  \/ ShowButtons
  \/ \E p \in Requests :
       \/ \E v \in Players : OpenPage(p, v)
       \/ \E v \in Voters, u \in Players : Press(p, v, u)
       \/ \E a, b \in Players : Submit(p, a, b)
       \/ Insert(p)
       \/ GiveUp(p)
  \/ JobElects
  \/ FinishElects
  \/ \E u \in Players : Move(u)

BallotsSpec == BallotsInit /\ [][BallotsNext]_ballotVars

(***************************************************************************)
(* Properties.                                                             *)
(***************************************************************************)
\* However the taps on the buttons, the page and a move of the target come
\* together, nobody has two ballots for a team: the check of process_vote
\* and of submit_vote comes before an await, and only the constraint is left
\* to hold off the second of two requests.
OneBallotPerTeam ==
  \A b, c \in votes : b.voter = c.voter /\ b.team = c.team => b = c

\* A ballot stands for a team its target has been in while the voting was
\* on, also where the page was opened before a move and sent after it: a
\* voter has more than one ballot for a player only if that player has moved
\* ("Check if already voted FOR THIS TEAM", vote_handlers.py:53).
FiledUnderTeam ==
  \A b \in votes : b.team \in had[b.target]

\* The finish and the job elect the same players as long as both teams have
\* somebody on the pitch, or nobody has a team yet, although they choose the
\* teams to count by different rules.
CountsAgree ==
  (InTeam("A") # {} /\ InTeam("B") # {}) \/ (\A u \in active : team[u] = "none")
    => JobWinners = FinishWinners

\* Nobody is elected by his own vote alone, nor by votes of people who never
\* were on the roster.
ElectedByOthers ==
  \A u \in elected : \E b \in votes : b.target = u /\ b.voter \in Players \ {u}
=============================================================================
