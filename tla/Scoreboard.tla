----------------------------- MODULE Scoreboard -----------------------------
(***************************************************************************)
(* Objectives, scores and teams (src/translate/scoreboard.go).             *)
(*                                                                         *)
(* Java keeps objectives, shows one of them at each display position, and  *)
(* decorates a line with the prefix and the suffix of its owner's team.    *)
(* Bedrock has three slots and lines with numeric IDs.  The bridge keeps   *)
(* both sides: an objective shown at a position has a Bedrock objective of *)
(* its own, and Rendered holds the lines it last sent for it.  Only        *)
(* pumpJava runs these handlers, so each is one action; the lists of       *)
(* packets it writes are applied to the client's screen as they are sent.  *)
(***************************************************************************)
EXTENDS Integers, FiniteSets, FiniteSetsExt

CONSTANTS
    Objectives,      \* names of Java objectives
    Titles,          \* what their title texts can be
    Owners,          \* owners of scores: integers in the order of their names
    Names,           \* display names a score can carry
    Values,          \* score values
    Teams,           \* names of teams
    Affixes,         \* prefix-suffix pairs a team can carry
    DisplayPositions,\* display positions the server sends
    SidebarEntries,  \* maxBedrockSidebarEntries, 15 in the code
    MaxScorePackets  \* bound on the packets of a behaviour

ASSUME ScoreboardAssumption ==
    /\ Owners \subseteq Int /\ IsFiniteSet(Owners)
    /\ Values \subseteq Int
    /\ DisplayPositions \subseteq Nat
    /\ SidebarEntries \in Nat /\ MaxScorePackets \in Nat

VARIABLES
    objectives,      \* Basic.scoreboardObjectives: name -> title, scores, active displays
    teams,           \* Basic.scoreboardTeams: name -> players, affix
    scoreIDs,        \* nextScoreboardID and nextScoreboardEntryID
    screen,          \* the client: objectives it knows, the one each slot shows, lines
    scorePackets     \* packets handled so far, for the bound

scoreVars == <<objectives, teams, scoreIDs, screen, scorePackets>>

NoName == "no display name"
NoAffix == "no team"
NoTitle == "blank"

Assign(table, key, value) ==
    [k \in DOMAIN table \cup {key} |-> IF k = key THEN value ELSE table[k]]

Removed(table, key) == [k \in DOMAIN table \ {key} |-> table[k]]

(***************************************************************************)
(* The Bedrock client.  SetDisplayObjective makes an objective and shows   *)
(* it; RemoveObjective forgets it with its lines; SetScore removes or      *)
(* replaces lines by their IDs.                                            *)
(***************************************************************************)
RemoveObjective(scr, id) ==
    [known |-> Removed(scr.known, id),
     shown |-> [s \in {t \in DOMAIN scr.shown : scr.shown[t] # id} |-> scr.shown[s]],
     lines |-> [l \in {k \in DOMAIN scr.lines : scr.lines[k].objective # id} |-> scr.lines[l]]]

SetDisplayObjective(scr, id, slot, title) ==
    [scr EXCEPT !.known = Assign(@, id, [slot |-> slot, title |-> title]),
                !.shown = Assign(@, slot, id)]

SetScore(scr, removed, entries) ==
    LET sent == {entries[o].id : o \in DOMAIN entries}
    IN  [scr EXCEPT !.lines =
            [l \in sent \cup (DOMAIN @ \ removed) |->
                IF l \in sent THEN entries[CHOOSE o \in DOMAIN entries : entries[o].id = l]
                ELSE @[l]]]

(***************************************************************************)
(* Translator state                                                        *)
(***************************************************************************)
\* scoreboardSlot: every coloured sidebar of Java is the one sidebar.
Slot(position) ==
    CASE position = 0 -> "list"
      [] position = 1 \/ position \in 3..18 -> "sidebar"
      [] position = 2 -> "belowname"
      [] OTHER -> "none"

NewObjective(title) == [title |-> title, scores |-> <<>>, active |-> <<>>]

\* Mutant: a player who joins a team keeps the teams he was in.
JoinsTeam(all, team, players) ==
    [all EXCEPT ![team].players = @ \cup players]

\* addScoreboardTeamPlayersLocked: joining one team leaves the others.
AddTeamPlayers(all, team, players) ==
    [t \in DOMAIN all |->
        [all[t] EXCEPT !.players = IF t = team THEN @ \cup players ELSE @ \ players]]

\* scoreboardTeamForOwnerLocked, then the affixes of that team.  The code takes
\* the first team its map iteration meets; TeamsExclusive says there is one.
TeamAffix(all, owner) ==
    LET mine == {t \in DOMAIN all : owner \in all[t].players}
    IN  IF mine = {} THEN NoAffix ELSE all[CHOOSE t \in mine : TRUE].affix

\* scoreboardEntryDisplayNameLocked (its cut at 256 runes is left out)
EntryName(all, owner, score) ==
    [base |-> IF score.name = NoName THEN owner ELSE score.name,
     affix |-> TeamAffix(all, owner)]

\* The order of buildScoreboardEntriesLocked: higher scores first, then by name.
Before(scores, p, o) ==
    \/ scores[p].value > scores[o].value
    \/ scores[p].value = scores[o].value /\ p < o

\* The owners that get a line: all of them, or the first of a full sidebar.
FirstOwners(scores, slot) ==
    {o \in DOMAIN scores :
        slot = "sidebar" =>
            Cardinality({p \in DOMAIN scores : Before(scores, p, o)}) < SidebarEntries}

\* A translation in progress: what a handler has changed and sent so far.
Now == [objectives |-> objectives, teams |-> teams, ids |-> scoreIDs, screen |-> screen]

IsShown(s, name, position) ==
    name \in DOMAIN s.objectives /\ position \in DOMAIN s.objectives[name].active

\* Mutant: every draw counts its lines from the same number.
EntryIDFromOne(s, rendered, new, owner) ==
    1 + Cardinality({o \in new : o < owner})

\* The ID of a line: the one its owner has, or the next ones in the owners' order.
EntryID(s, rendered, new, owner) ==
    IF owner \in new THEN s.ids.entry + Cardinality({o \in new : o < owner})
    ELSE rendered[owner].id

\* buildScoreboardEntriesLocked
Entries(s, name, position) ==
    LET objective == s.objectives[name]
        display == objective.active[position]
        owners == FirstOwners(objective.scores, display.slot)
        new == owners \ DOMAIN display.rendered
    IN  [o \in owners |->
            [id |-> EntryID(s, display.rendered, new, o),
             objective |-> display.id,
             value |-> objective.scores[o].value,
             name |-> EntryName(s.teams, o, objective.scores[o])]]

\* renderScoreboardEntries: the lines drawn before are removed and all are sent
\* anew; an owner that had a line keeps its ID.
Render(s, name, position) ==
    IF ~IsShown(s, name, position) THEN s
    ELSE LET rendered == s.objectives[name].active[position].rendered
             entries == Entries(s, name, position)
         IN  [s EXCEPT
                !.objectives[name].active[position].rendered = entries,
                !.ids.entry = @ + Cardinality(DOMAIN entries \ DOMAIN rendered),
                !.screen = SetScore(@, {rendered[o].id : o \in DOMAIN rendered}, entries)]

\* refreshScoreboardDisplay with replaceObjective: the Bedrock objective is
\* removed, made and shown again, and all its lines are drawn as new ones.
Refresh(s, name, position) ==
    LET display == s.objectives[name].active[position]
    IN  Render([s EXCEPT
                   !.objectives[name].active[position].rendered = <<>>,
                   !.screen = SetDisplayObjective(RemoveObjective(@, display.id), display.id,
                                                  display.slot, s.objectives[name].title)],
               name, position)

\* The displays <<objective, position>> of some objectives.  The code visits them
\* in the order of name and position, here in some order: it only numbers lines.
DisplaysOf(s, names) == {d \in names \X DisplayPositions : IsShown(s, d[1], d[2])}

RenderAll(s, names) ==
    FoldSet(LAMBDA d, acc : Render(acc, d[1], d[2]), s, DisplaysOf(s, names))

Sends(s) ==
    /\ scorePackets < MaxScorePackets
    /\ scorePackets' = scorePackets + 1
    /\ objectives' = s.objectives
    /\ teams' = s.teams
    /\ scoreIDs' = s.ids
    /\ screen' = s.screen

\* A packet may name an objective the bridge has not been told of: it is made.
Known(name, title) ==
    IF name \in DOMAIN objectives THEN objectives
    ELSE Assign(objectives, name, NewObjective(title))

(***************************************************************************)
(* The handlers, all run by pumpJava                                       *)
(***************************************************************************)
ScoreboardInit ==
    /\ objectives = <<>>
    /\ teams = <<>>
    /\ scoreIDs = [objective |-> 1, entry |-> 1]
    /\ screen = [known |-> <<>>, shown |-> <<>>, lines |-> <<>>]
    /\ scorePackets = 0

\* translateJavaScoreboardObjective, action 0 or 2: adding is updating.
UpdateObjective(name, title) ==
    LET s == [Now EXCEPT !.objectives = [Known(name, title) EXCEPT ![name].title = title]]
    IN  Sends(FoldSet(LAMBDA d, acc : Refresh(acc, d[1], d[2]), s, DisplaysOf(s, {name})))

\* Action 1: the objective goes, and its Bedrock objectives with it.
RemoveJavaObjective(name) ==
    /\ name \in DOMAIN objectives
    /\ LET active == objectives[name].active
           ids == {active[p].id : p \in DOMAIN active}
       IN  Sends([Now EXCEPT
                    !.objectives = Removed(@, name),
                    !.screen = FoldSet(LAMBDA id, scr : RemoveObjective(scr, id), @, ids)])

\* translateJavaScoreboardDisplay without a name: nothing is shown at the position.
ClearDisplay(position) ==
    /\ Slot(position) # "none"
    /\ LET cleared == {n \in DOMAIN objectives : position \in DOMAIN objectives[n].active}
           ids == {objectives[n].active[position].id : n \in cleared}
       IN  Sends([Now EXCEPT
                    !.objectives = [n \in DOMAIN objectives |->
                        [objectives[n] EXCEPT !.active = Removed(@, position)]],
                    !.screen = FoldSet(LAMBDA id, scr : RemoveObjective(scr, id), @, ids)])

\* With a name: a display of the same objective at the position is replaced.  One
\* of another objective at that position stays active, behind the new one.
Display(name, position) ==
    /\ Slot(position) # "none"
    /\ LET made == Known(name, name)
           active == made[name].active
           id == scoreIDs.objective
           slot == Slot(position)
           cleaned == IF position \in DOMAIN active
                      THEN RemoveObjective(screen, active[position].id) ELSE screen
           display == [id |-> id, slot |-> slot, rendered |-> <<>>]
           s == [Now EXCEPT
                   !.objectives = [made EXCEPT ![name].active = Assign(@, position, display)],
                   !.ids.objective = @ + 1,
                   !.screen = SetDisplayObjective(cleaned, id, slot, made[name].title)]
       IN  Sends(Render(s, name, position))

\* translateJavaScoreboardScore
Score(name, owner, value, display) ==
    LET score == [value |-> value, name |-> display]
        s == [Now EXCEPT !.objectives =
                 [Known(name, NoTitle) EXCEPT ![name].scores = Assign(@, owner, score)]]
    IN  Sends(RenderAll(s, {name}))

\* translateJavaResetScore: in one objective, or in all of them.
ResetScore(names, owner) ==
    LET s == [Now EXCEPT !.objectives = [n \in DOMAIN objectives |->
                 IF n \in names THEN [objectives[n] EXCEPT !.scores = Removed(@, owner)]
                 ELSE objectives[n]]]
    IN  Sends(RenderAll(s, names))

(***************************************************************************)
(* translateJavaScoreboardTeam: every mode ends in refreshAllScoreboards   *)
(***************************************************************************)
NewTeam(affix) == [players |-> {}, affix |-> affix]

TeamKnown(team) ==
    IF team \in DOMAIN teams THEN teams ELSE Assign(teams, team, NewTeam(NoAffix))

RefreshesAll(all) ==
    LET s == [Now EXCEPT !.teams = all] IN Sends(RenderAll(s, DOMAIN objectives))

\* Creating a team that exists empties it.
CreateTeam(team, affix, players) ==
    RefreshesAll(AddTeamPlayers(Assign(teams, team, NewTeam(affix)), team, players))

UpdateTeam(team, affix) ==
    RefreshesAll([TeamKnown(team) EXCEPT ![team].affix = affix])

AddToTeam(team, players) ==
    RefreshesAll(AddTeamPlayers(TeamKnown(team), team, players))

RemoveFromTeam(team, players) ==
    /\ team \in DOMAIN teams
    /\ RefreshesAll([teams EXCEPT ![team].players = @ \ players])

RemoveTeam(team) ==
    /\ team \in DOMAIN teams
    /\ RefreshesAll(Removed(teams, team))

ScoreboardNext ==
    \/ \E n \in Objectives, t \in Titles : UpdateObjective(n, t)
    \/ \E n \in Objectives : RemoveJavaObjective(n)
    \/ \E p \in DisplayPositions : ClearDisplay(p)
    \/ \E n \in Objectives, p \in DisplayPositions : Display(n, p)
    \/ \E n \in Objectives, o \in Owners, v \in Values, d \in Names \cup {NoName} :
           Score(n, o, v, d)
    \/ \E o \in Owners, names \in {{n} : n \in Objectives} \cup {DOMAIN objectives} :
           ResetScore(names, o)
    \/ \E t \in Teams, a \in Affixes, ps \in SUBSET Owners : CreateTeam(t, a, ps)
    \/ \E t \in Teams, a \in Affixes : UpdateTeam(t, a)
    \/ \E t \in Teams, o \in Owners : AddToTeam(t, {o})
    \/ \E t \in Teams, o \in Owners : RemoveFromTeam(t, {o})
    \/ \E t \in Teams : RemoveTeam(t)

ScoreboardSpec == ScoreboardInit /\ [][ScoreboardNext]_scoreVars

(***************************************************************************)
(* Properties                                                              *)
(***************************************************************************)
\* An owner is in one team at most: the lookup of an owner's team stops at the
\* first one a map iteration meets, in an order that differs from call to call.
TeamsExclusive ==
    \A t, u \in DOMAIN teams :
        t # u => teams[t].players \cap teams[u].players = {}

Displays == {d \in Objectives \X DisplayPositions : IsShown(Now, d[1], d[2])}
DisplayAt(d) == objectives[d[1]].active[d[2]]

\* The Bedrock client knows exactly one objective for each display, under an ID of
\* its own and with the objective's present title: none is left behind when a
\* position is cleared or an objective removed, however they were combined.
ObjectivesAgree ==
    /\ {DisplayAt(d).id : d \in Displays} = DOMAIN screen.known
    /\ \A d \in Displays :
          screen.known[DisplayAt(d).id] =
              [slot |-> Slot(d[2]), title |-> objectives[d[1]].title]
    /\ \A d, e \in Displays : DisplayAt(d).id = DisplayAt(e).id => d = e

\* The owners a display should list, from the scores alone.
Listed(d) ==
    LET scores == objectives[d[1]].scores
    IN  IF Slot(d[2]) # "sidebar" THEN DOMAIN scores
        ELSE CHOOSE k \in SUBSET DOMAIN scores :
                /\ Cardinality(k) = Min({SidebarEntries, Cardinality(DOMAIN scores)})
                /\ \A o \in k, p \in DOMAIN scores \ k : Before(scores, o, p)

\* And the line of one of them, from the scores and the teams.
LineOf(d, owner) ==
    LET score == objectives[d[1]].scores[owner]
    IN  [objective |-> DisplayAt(d).id, value |-> score.value,
         base |-> IF score.name = NoName THEN owner ELSE score.name,
         affixes |-> {teams[t].affix : t \in {u \in DOMAIN teams : owner \in teams[u].players}}
                     \ {NoAffix}]

\* The lines of the client are those the scores and the teams call for, in every
\* display at once: no line is lost to another that took its ID, kept
\* after its owner was reset or fell out of a full sidebar, or left with the prefix
\* of a team its owner has left.
LinesAgree ==
    LET drawn(l) == [objective |-> l.objective, value |-> l.value, base |-> l.name.base,
                     affixes |-> {l.name.affix} \ {NoAffix}]
        count == FoldSet(LAMBDA d, n : n + Cardinality(Listed(d)), 0, Displays)
    IN  /\ Cardinality(DOMAIN screen.lines) = count
        /\ \A d \in Displays, o \in Owners :
              o \in Listed(d) =>
                 /\ o \in DOMAIN DisplayAt(d).rendered
                 /\ DisplayAt(d).rendered[o].id \in DOMAIN screen.lines
                 /\ drawn(screen.lines[DisplayAt(d).rendered[o].id]) = LineOf(d, o)

\* After every packet the client's scoreboard is Java's.
ScreenAgrees == ObjectivesAgree /\ LinesAgree
=============================================================================
