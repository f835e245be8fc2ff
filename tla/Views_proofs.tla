---------------------------- MODULE Views_proofs ----------------------------
(***************************************************************************)
(* Proofs that what the bridge shows the Bedrock client is what the Java   *)
(* server said: the boss bars (any bars, titles, healths and styles), and  *)
(* the scoreboard (any objectives, owners, teams and display positions,    *)
(* any size of the sidebar), the blocks and the spawners' contents, and    *)
(* what it remembers of block entities (any cells, chunks and states, any  *)
(* size of the cache), the flags of an actor (any types but one), the      *)
(* recipe book (any displays), however many packets come and go, and the   *)
(* blocks and biomes of a chunk (any sizes and contents).                  *)
(***************************************************************************)
EXTENDS Scoreboard, BossBars, Blocks, EntityFlags, Recipes, Chunks, DataLemmas

(***************************************************************************)
(* The boss bars                                                           *)
(***************************************************************************)
\* The state the bridge keeps of a bar.
Texts == {Title(t) : t \in BarTitles}
Styles == (0..White) \X (0..4)
BarState == [id : Int, title : Texts, health : 0..10, style : Styles]

\* What the tables are, and that no actor has an ID that is still to be given out:
\* BarsAgree alone does not say that a new bar gets an actor of its own.
BarsTyped ==
    /\ nextBossBarID \in Int
    /\ bossBars \in [DOMAIN bossBars -> BarState]
    /\ barsShown \in [DOMAIN barsShown -> [title : Texts, health : 0..10, style : Styles]]
    /\ \A b \in DOMAIN bossBars : bossBars[b].id < nextBossBarID

BarsInv == BarsTyped /\ BarsAgree

\* What the conversions of title, health and style give, whatever the server sends
\* (clampBossBarHealth, bossBarColor, bossBarOverlay).
LEMMA Conversions ==
    /\ \A t \in BarTitles : Title(t) \in Texts
    /\ \A h \in BarHealths : Clamp(h) \in 0..10
    /\ \A s \in BarStyles : Style(s) \in Styles
    /\ "" \notin Texts
<1>1. ASSUME NEW h \in BarHealths PROVE Clamp(h) \in 0..10
  <2>1. CASE h = NaN
    BY <2>1 DEF Clamp
  <2>2. CASE h # NaN
    BY <2>2, BossBarsAssumption DEF Clamp
  <2> QED BY <2>1, <2>2
<1>2. ASSUME NEW s \in BarStyles PROVE Style(s) \in Styles
  <2>1. Colour(s[1]) \in 0..White
    BY BossBarsAssumption DEF Colour, White
  <2>2. Overlay(s[2]) \in 0..4
    BY BossBarsAssumption DEF Overlay
  <2> QED BY <2>1, <2>2 DEF Style, Styles
<1>3. "" \notin Texts
  BY DEF Texts, Title
<1> QED BY <1>1, <1>2, <1>3 DEF Texts

\* A bar that is added has an actor no other bar has.
LEMMA AddKeeps ==
    ASSUME BarsInv, NEW b \in Bars, NEW t \in BarTitles, NEW h \in BarHealths,
           NEW s \in BarStyles, AddBar(b, t, h, s)
    PROVE  BarsInv'
<1> DEFINE state == [id |-> nextBossBarID, title |-> Title(t), health |-> Clamp(h),
                     style |-> Style(s)]
           look == [title |-> state.title, health |-> state.health, style |-> state.style]
<1>1. state \in BarState /\ look \in [title : Texts, health : 0..10, style : Styles]
  BY Conversions DEF BarsInv, BarsTyped, BarState
<1>2. /\ DOMAIN bossBars' = DOMAIN bossBars \cup {b}
      /\ bossBars' = [x \in DOMAIN bossBars \cup {b} |->
                         IF x = b THEN state ELSE bossBars[x]]
  BY DEF AddBar, WithBar
<1>3. /\ DOMAIN barsShown' = DOMAIN barsShown \cup {nextBossBarID}
      /\ barsShown' = [i \in DOMAIN barsShown \cup {nextBossBarID} |->
                          IF i = nextBossBarID THEN look ELSE barsShown[i]]
  BY DEF AddBar, WithBar
<1>4. nextBossBarID' = nextBossBarID + 1 /\ b \notin DOMAIN bossBars
      /\ barActors' = barActors \cup {nextBossBarID}
  BY DEF AddBar
<1> HIDE DEF state, look
<1>5. state.id = nextBossBarID
      /\ look = [title |-> state.title, health |-> state.health, style |-> state.style]
  BY DEF state, look
<1>6. \A x \in DOMAIN bossBars : bossBars[x].id \in Int /\ bossBars[x].id # nextBossBarID
  BY DEF BarsInv, BarsTyped, BarState
<1>7. BarsTyped'
  BY <1>1, <1>2, <1>3, <1>4, <1>5, <1>6 DEF BarsInv, BarsTyped
<1>8. BarsAgree'
  <2>1. DOMAIN barsShown' = {bossBars'[x].id : x \in DOMAIN bossBars'}
    <3>1. DOMAIN barsShown = {bossBars[x].id : x \in DOMAIN bossBars}
      BY DEF BarsInv, BarsAgree
    <3>2. bossBars'[b].id = nextBossBarID
          /\ \A x \in DOMAIN bossBars : bossBars'[x].id = bossBars[x].id
      BY <1>2, <1>4, <1>5
    <3>3. DOMAIN bossBars' = DOMAIN bossBars \cup {b}
          /\ DOMAIN barsShown' = DOMAIN barsShown \cup {nextBossBarID}
      BY <1>2, <1>3, Zenon
    <3>4. {bossBars'[x].id : x \in DOMAIN bossBars'}
              = {bossBars'[x].id : x \in DOMAIN bossBars} \cup {bossBars'[b].id}
      BY <3>3, Zenon
    <3>5. {bossBars'[x].id : x \in DOMAIN bossBars} = {bossBars[x].id : x \in DOMAIN bossBars}
      BY <3>2, Zenon
    <3> QED BY <3>1, <3>2, <3>3, <3>4, <3>5, Zenon
  <2>2. barActors' = DOMAIN barsShown'
    BY <1>3, <1>4 DEF BarsInv, BarsAgree
  <2>3. ASSUME NEW x \in DOMAIN bossBars'
        PROVE  barsShown'[bossBars'[x].id] =
                  [title |-> bossBars'[x].title, health |-> bossBars'[x].health,
                   style |-> bossBars'[x].style]
    <3>1. CASE x = b
      BY <3>1, <1>2, <1>3, <1>5
    <3>2. CASE x # b
      BY <3>2, <1>2, <1>3, <1>6 DEF BarsInv, BarsAgree
    <3> QED BY <3>1, <3>2
  <2>4. ASSUME NEW x \in DOMAIN bossBars'
        PROVE  /\ bossBars'[x].title # "" /\ bossBars'[x].health \in 0..10
               /\ bossBars'[x].style \in Styles
    BY <1>7, Conversions DEF BarsTyped, BarState
  <2>5. \A x, y \in DOMAIN bossBars' : bossBars'[x].id = bossBars'[y].id => x = y
    BY <1>2, <1>5, <1>6 DEF BarsInv, BarsAgree
  <2>6. ASSUME NEW x \in DOMAIN bossBars'
        PROVE  LET shown == barsShown'[bossBars'[x].id]
               IN  /\ shown = [title |-> bossBars'[x].title, health |-> bossBars'[x].health,
                               style |-> bossBars'[x].style]
                   /\ shown.title # ""
                   /\ shown.health \in 0..10
                   /\ shown.style \in (0..White) \X (0..4)
    <3> DEFINE bar == barsShown'[bossBars'[x].id]
    <3>1. bar = [title |-> bossBars'[x].title, health |-> bossBars'[x].health,
                   style |-> bossBars'[x].style]
      BY <2>3
    <3>2. bar.title = bossBars'[x].title /\ bar.health = bossBars'[x].health
          /\ bar.style = bossBars'[x].style
      BY <3>1
    <3> QED BY <2>4, <3>1, <3>2 DEF Styles
  <2> QED BY <2>1, <2>2, <2>5, <2>6 DEF BarsAgree
<1> QED BY <1>7, <1>8 DEF BarsInv

\* A bar that is removed takes its actor with it and no other.
LEMMA RemoveKeeps ==
    ASSUME BarsInv, NEW b \in Bars, RemoveBar(b)
    PROVE  BarsInv'
<1>1. /\ b \in DOMAIN bossBars
      /\ bossBars' = [x \in DOMAIN bossBars \ {b} |-> bossBars[x]]
      /\ barActors' = barActors \ {bossBars[b].id}
      /\ barsShown' = [i \in DOMAIN barsShown \ {bossBars[b].id} |-> barsShown[i]]
      /\ nextBossBarID' = nextBossBarID
  BY DEF RemoveBar
<1>2. \A x \in DOMAIN bossBars' : bossBars'[x] = bossBars[x] /\ bossBars[x].id # bossBars[b].id
  BY <1>1 DEF BarsInv, BarsAgree
<1>3. BarsTyped'
  BY <1>1 DEF BarsInv, BarsTyped
<1>4. BarsAgree'
  <2>1. DOMAIN barsShown' = {bossBars'[x].id : x \in DOMAIN bossBars'}
    <3>1. DOMAIN barsShown = {bossBars[x].id : x \in DOMAIN bossBars}
      BY DEF BarsInv, BarsAgree
    <3>2. DOMAIN bossBars' = DOMAIN bossBars \ {b}
          /\ DOMAIN barsShown' = DOMAIN barsShown \ {bossBars[b].id}
      BY <1>1
    <3> QED BY <1>1, <1>2, <3>1, <3>2
  <2>2. barActors' = DOMAIN barsShown'
    BY <1>1 DEF BarsInv, BarsAgree
  <2>3. \A x \in DOMAIN bossBars' : barsShown'[bossBars'[x].id] = barsShown[bossBars[x].id]
    BY <1>1, <1>2 DEF BarsInv, BarsAgree
  <2> QED BY <1>1, <1>2, <2>1, <2>2, <2>3, ZenonT(60) DEF BarsInv, BarsAgree
<1> QED BY <1>3, <1>4 DEF BarsInv

\* A change of one field reaches that field of that bar.
LEMMA UpdateKeeps ==
    ASSUME BarsInv, NEW b \in Bars, NEW field \in {"title", "health", "style"}, NEW value,
           /\ field = "title" => value \in Texts
           /\ field = "health" => value \in 0..10
           /\ field = "style" => value \in Styles,
           UpdateBar(b, field, value)
    PROVE  BarsInv'
<1> DEFINE state == [bossBars[b] EXCEPT ![field] = value]
           id == bossBars[b].id
           Look(s) == [title |-> s.title, health |-> s.health, style |-> s.style]
<1>1. b \in DOMAIN bossBars /\ nextBossBarID' = nextBossBarID /\ barActors' = barActors
  BY DEF UpdateBar
<1>2. bossBars[b] \in BarState /\ id \in DOMAIN barsShown /\ barsShown[id] = Look(bossBars[b])
  BY <1>1 DEF BarsInv, BarsTyped, BarsAgree
<1>3. state \in BarState /\ state.id = id
  BY <1>2 DEF BarState
<1>4. bossBars' = [bossBars EXCEPT ![b] = state]
  BY DEF UpdateBar
<1>5. barsShown' = [barsShown EXCEPT ![id][field] = state[field]]
  BY <1>2, <1>3 DEF UpdateBar
<1>6. [barsShown[id] EXCEPT ![field] = state[field]] = Look(state)
  <2>1. CASE field = "title"
    BY <2>1, <1>2 DEF BarState
  <2>2. CASE field = "health"
    BY <2>2, <1>2 DEF BarState
  <2>3. CASE field = "style"
    BY <2>3, <1>2 DEF BarState
  <2> QED BY <2>1, <2>2, <2>3
<1>7. barsShown' = [barsShown EXCEPT ![id] = Look(state)]
  BY <1>5, <1>6
<1> HIDE DEF state
<1>8. \A x \in DOMAIN bossBars' : bossBars'[x].id = bossBars[x].id /\ x \in DOMAIN bossBars
  BY <1>3, <1>4
<1>9. BarsTyped'
  <2>1. Look(state) \in [title : Texts, health : 0..10, style : Styles]
    BY <1>3 DEF BarState
  <2> QED BY <1>1, <1>3, <1>4, <1>7, <1>8, <2>1 DEF BarsInv, BarsTyped
<1>10. BarsAgree'
  <2>1. DOMAIN bossBars' = DOMAIN bossBars /\ DOMAIN barsShown' = DOMAIN barsShown
    BY <1>4, <1>7
  <2>2. DOMAIN barsShown' = {bossBars'[x].id : x \in DOMAIN bossBars'}
    <3>1. DOMAIN barsShown = {bossBars[x].id : x \in DOMAIN bossBars}
      BY DEF BarsInv, BarsAgree
    <3> QED BY <1>8, <2>1, <3>1
  <2>3. ASSUME NEW x \in DOMAIN bossBars'
        PROVE  barsShown'[bossBars'[x].id] = Look(bossBars'[x])
    <3>1. CASE x = b
      BY <3>1, <1>1, <1>2, <1>3, <1>4, <1>7
    <3>2. CASE x # b
      BY <3>2, <1>1, <1>4, <1>7, <1>8 DEF BarsInv, BarsAgree
    <3> QED BY <3>1, <3>2
  <2>4. ASSUME NEW x \in DOMAIN bossBars'
        PROVE  /\ bossBars'[x].title # "" /\ bossBars'[x].health \in 0..10
               /\ bossBars'[x].style \in Styles
    BY <1>9, Conversions DEF BarsTyped, BarState
  <2>5. \A x, y \in DOMAIN bossBars' : bossBars'[x].id = bossBars'[y].id => x = y
    BY <1>8, <2>1 DEF BarsInv, BarsAgree
  <2>6. ASSUME NEW x \in DOMAIN bossBars'
        PROVE  LET shown == barsShown'[bossBars'[x].id]
               IN  /\ shown = [title |-> bossBars'[x].title, health |-> bossBars'[x].health,
                               style |-> bossBars'[x].style]
                   /\ shown.title # ""
                   /\ shown.health \in 0..10
                   /\ shown.style \in (0..White) \X (0..4)
    <3> DEFINE bar == barsShown'[bossBars'[x].id]
    <3>1. bar = [title |-> bossBars'[x].title, health |-> bossBars'[x].health,
                   style |-> bossBars'[x].style]
      BY <2>3
    <3>2. bar.title = bossBars'[x].title /\ bar.health = bossBars'[x].health
          /\ bar.style = bossBars'[x].style
      BY <3>1
    <3> QED BY <2>4, <3>1, <3>2 DEF Styles
  <2> QED BY <1>1, <2>1, <2>2, <2>5, <2>6 DEF BarsInv, BarsAgree
<1> QED BY <1>9, <1>10 DEF BarsInv

\* The client shows the server's boss bars, each with its own actor and with the title,
\* health and style last given, for every number of bars and whatever the values.
THEOREM BarsCorrect == BossBarsSpec => []BarsAgree
<1>1. BossBarsInit => BarsInv
  BY DEF BossBarsInit, BarsInv, BarsTyped, BarsAgree, FirstBarActor
<1>2. BarsInv /\ [BossBarsNext]_barVars => BarsInv'
  <2> SUFFICES ASSUME BarsInv, [BossBarsNext]_barVars
               PROVE  BarsInv'
    OBVIOUS
  <2>1. ASSUME NEW b \in Bars, NEW t \in BarTitles, NEW h \in BarHealths, NEW s \in BarStyles,
               AddBar(b, t, h, s)
        PROVE  BarsInv'
    BY <2>1, AddKeeps
  <2>2. ASSUME NEW b \in Bars, RemoveBar(b) PROVE BarsInv'
    BY <2>2, RemoveKeeps
  <2>3. ASSUME NEW b \in Bars, NEW h \in BarHealths, UpdateBar(b, "health", Clamp(h))
        PROVE  BarsInv'
    BY <2>3, Conversions, UpdateKeeps
  <2>4. ASSUME NEW b \in Bars, NEW t \in BarTitles, UpdateBar(b, "title", Title(t))
        PROVE  BarsInv'
    BY <2>4, Conversions, UpdateKeeps
  <2>5. ASSUME NEW b \in Bars, NEW s \in BarStyles, UpdateBar(b, "style", Style(s))
        PROVE  BarsInv'
    BY <2>5, Conversions, UpdateKeeps
  <2>6. CASE UNCHANGED barVars
    <3>1. /\ bossBars' = bossBars /\ nextBossBarID' = nextBossBarID
          /\ barActors' = barActors /\ barsShown' = barsShown
      BY <2>6 DEF barVars
    <3>2. BarsTyped'
      BY <3>1 DEF BarsInv, BarsTyped
    <3>3. BarsAgree'
      <4>1. {bossBars'[b].id : b \in DOMAIN bossBars'} = {bossBars[b].id : b \in DOMAIN bossBars}
        BY <3>1
      <4> QED BY <3>1, <4>1 DEF BarsInv, BarsAgree, White
    <3> QED BY <3>2, <3>3 DEF BarsInv
  <2> QED BY <2>1, <2>2, <2>3, <2>4, <2>5, <2>6 DEF BossBarsNext
<1> QED BY <1>1, <1>2, PTL DEF BossBarsSpec, BarsInv

(***************************************************************************)
(* The scoreboard.  A translation is followed as the model's record of it, *)
(* s: every draw of a display keeps the books of IDs and lines in order    *)
(* (BoardKept) and leaves the displays it does not draw as they were.      *)
(***************************************************************************)
DisplayIn(s, n, p) == s.objectives[n].active[p]

\* The fields of a translation, and what the handlers compare and count.
BoardShape(s) ==
    /\ DOMAIN s = {"objectives", "teams", "ids", "screen"}
    /\ DOMAIN s.ids = {"objective", "entry"}
    /\ s.ids.objective \in Int /\ s.ids.entry \in Int
    /\ DOMAIN s.screen = {"known", "shown", "lines"}
    /\ DOMAIN s.objectives \subseteq Objectives /\ IsFiniteSet(DOMAIN s.objectives)
    /\ \A n \in DOMAIN s.objectives :
          /\ DOMAIN s.objectives[n] = {"title", "scores", "active"}
          /\ DOMAIN s.objectives[n].scores \subseteq Owners
          /\ \A o \in DOMAIN s.objectives[n].scores :
                s.objectives[n].scores[o].value \in Int
          /\ DOMAIN s.objectives[n].active \subseteq {p \in DisplayPositions : Slot(p) # "none"}
          /\ \A p \in DOMAIN s.objectives[n].active :
                DOMAIN DisplayIn(s, n, p) = {"id", "slot", "rendered"}

\* Every display has a Bedrock objective of its own, and there is no other.
BoardObjectives(s) ==
    /\ \A n \in Objectives, p \in DisplayPositions :
          IsShown(s, n, p) =>
             /\ DisplayIn(s, n, p).id \in Int
             /\ DisplayIn(s, n, p).id < s.ids.objective
             /\ DisplayIn(s, n, p).slot = Slot(p)
             /\ DisplayIn(s, n, p).id \in DOMAIN s.screen.known
    /\ \A n, m \in Objectives, p, q \in DisplayPositions :
          /\ IsShown(s, n, p) /\ IsShown(s, m, q)
          /\ DisplayIn(s, n, p).id = DisplayIn(s, m, q).id
          => n = m /\ p = q
    /\ \A i \in DOMAIN s.screen.known : \E n \in Objectives, p \in DisplayPositions :
          IsShown(s, n, p) /\ DisplayIn(s, n, p).id = i

\* Every line a display remembers is on the screen under its ID, and no other is.
BoardLines(s) ==
    /\ \A n \in Objectives, p \in DisplayPositions :
          IsShown(s, n, p) => \A o \in DOMAIN DisplayIn(s, n, p).rendered :
             LET line == DisplayIn(s, n, p).rendered[o]
             IN  /\ line.id \in Int /\ line.id < s.ids.entry
                 /\ line.objective = DisplayIn(s, n, p).id
                 /\ line.id \in DOMAIN s.screen.lines
                 /\ s.screen.lines[line.id] = line
    /\ \A n, m \in Objectives, p, q \in DisplayPositions :
          IsShown(s, n, p) /\ IsShown(s, m, q) =>
             \A o \in DOMAIN DisplayIn(s, n, p).rendered,
                u \in DOMAIN DisplayIn(s, m, q).rendered :
                DisplayIn(s, n, p).rendered[o].id = DisplayIn(s, m, q).rendered[u].id
                => n = m /\ p = q /\ o = u
    /\ \A l \in DOMAIN s.screen.lines : \E n \in Objectives, p \in DisplayPositions :
          /\ IsShown(s, n, p)
          /\ \E o \in DOMAIN DisplayIn(s, n, p).rendered :
                DisplayIn(s, n, p).rendered[o].id = l

BoardKept(s) == BoardShape(s) /\ BoardObjectives(s) /\ BoardLines(s)

\* The client has a display's present title; its lines are those of the scores and teams.
Titled(s, n, p) ==
    s.screen.known[DisplayIn(s, n, p).id] =
        [slot |-> Slot(p), title |-> s.objectives[n].title]

Drawn(s, n, p) ==
    /\ DOMAIN DisplayIn(s, n, p).rendered = FirstOwners(s.objectives[n].scores, Slot(p))
    /\ \A o \in DOMAIN DisplayIn(s, n, p).rendered :
          DisplayIn(s, n, p).rendered[o] =
              [id |-> DisplayIn(s, n, p).rendered[o].id, objective |-> DisplayIn(s, n, p).id,
               value |-> s.objectives[n].scores[o].value,
               name |-> EntryName(s.teams, o, s.objectives[n].scores[o])]

\* The teams of a translation: no owner is in two of them.
TeamsApart(all) ==
    /\ \A t \in DOMAIN all : DOMAIN all[t] = {"players", "affix"}
    /\ \A t, u \in DOMAIN all : t # u => all[t].players \cap all[u].players = {}

BoardInv(s) ==
    /\ BoardKept(s) /\ TeamsApart(s.teams)
    /\ \A n \in Objectives, p \in DisplayPositions :
          IsShown(s, n, p) => Titled(s, n, p) /\ Drawn(s, n, p)

\* The numbers given to the new lines of one draw differ and are all used up by it.
Rank(new, o) == Cardinality({u \in new : u < o})

LEMMA RanksDiffer ==
    ASSUME NEW new, new \subseteq Int, IsFiniteSet(new)
    PROVE  /\ Cardinality(new) \in Nat
           /\ \A o \in new : Rank(new, o) \in Nat /\ Rank(new, o) < Cardinality(new)
           /\ \A o, u \in new : o # u => Rank(new, o) # Rank(new, u)
<1> DEFINE below(o) == {u \in new : u < o}
<1>1. \A o \in new : IsFiniteSet(below(o)) /\ Cardinality(below(o)) \in Nat
  BY FS_Subset, FS_CardinalityType
<1>2. Cardinality(new) \in Nat
  BY FS_CardinalityType
<1>3. ASSUME NEW o \in new PROVE Cardinality(below(o)) < Cardinality(new)
  <2>1. below(o) \in SUBSET new /\ below(o) # new
    OBVIOUS
  <2>2. Cardinality(below(o)) <= Cardinality(new) /\ Cardinality(below(o)) # Cardinality(new)
    <3> HIDE DEF below
    <3> QED BY <2>1, FS_Subset
  <2> QED BY <1>1, <1>2, <2>2
<1>4. ASSUME NEW o \in new, NEW u \in new, o < u
      PROVE  Cardinality(below(o)) # Cardinality(below(u))
  <2>1. o \in below(u) /\ o \notin below(o) /\ \A x \in below(o) : x \in below(u)
    BY <1>4
  <2> HIDE DEF below
  <2>2. below(o) \in SUBSET below(u) /\ below(o) # below(u)
    BY <2>1
  <2> QED BY <1>1, <2>2, FS_Subset
<1>5. ASSUME NEW o \in new, NEW u \in new, o # u
      PROVE  Cardinality(below(o)) # Cardinality(below(u))
  <2>1. o < u \/ u < o
    BY <1>5
  <2> QED BY <2>1, <1>4
<1> QED BY <1>1, <1>2, <1>3, <1>5 DEF Rank

(***************************************************************************)
(* A draw of one display                                                   *)
(***************************************************************************)
\* What a draw of a display leaves as it is.
SameBoard(s, r) ==
    /\ r.teams = s.teams
    /\ r.ids.objective = s.ids.objective
    /\ DOMAIN r.objectives = DOMAIN s.objectives
    /\ \A n \in DOMAIN s.objectives :
          /\ r.objectives[n].title = s.objectives[n].title
          /\ r.objectives[n].scores = s.objectives[n].scores
          /\ DOMAIN r.objectives[n].active = DOMAIN s.objectives[n].active
          /\ \A p \in DOMAIN s.objectives[n].active :
                DisplayIn(r, n, p).id = DisplayIn(s, n, p).id

\* The whole of the objectives when the lines of one display are replaced.
Relined(r, s, name, position, lines) ==
    /\ DOMAIN r = DOMAIN s /\ r.teams = s.teams
    /\ DOMAIN r.objectives = DOMAIN s.objectives
    /\ \A n \in DOMAIN s.objectives :
          /\ DOMAIN r.objectives[n] = DOMAIN s.objectives[n]
          /\ r.objectives[n].title = s.objectives[n].title
          /\ r.objectives[n].scores = s.objectives[n].scores
          /\ DOMAIN r.objectives[n].active = DOMAIN s.objectives[n].active
          /\ \A p \in DOMAIN s.objectives[n].active :
                /\ n # name \/ p # position => DisplayIn(r, n, p) = DisplayIn(s, n, p)
                /\ DOMAIN DisplayIn(r, n, p) = DOMAIN DisplayIn(s, n, p)
                /\ DisplayIn(r, n, p).id = DisplayIn(s, n, p).id
                /\ DisplayIn(r, n, p).slot = DisplayIn(s, n, p).slot
    /\ DisplayIn(r, name, position).rendered = lines

LEMMA RenderReplaces ==
    ASSUME NEW s, BoardShape(s), NEW name, NEW position, IsShown(s, name, position)
    PROVE  LET r == Render(s, name, position)
               old == DisplayIn(s, name, position).rendered
               entries == Entries(s, name, position)
           IN  /\ Relined(r, s, name, position, entries)
               /\ DOMAIN r.ids = DOMAIN s.ids /\ r.ids.objective = s.ids.objective
               /\ r.ids.entry = s.ids.entry + Cardinality(DOMAIN entries \ DOMAIN old)
               /\ r.screen = SetScore(s.screen, {old[o].id : o \in DOMAIN old}, entries)
<1> DEFINE r == Render(s, name, position)
           old == DisplayIn(s, name, position).rendered
           entries == Entries(s, name, position)
<1>1. r = [s EXCEPT
             !.objectives[name].active[position].rendered = entries,
             !.ids.entry = @ + Cardinality(DOMAIN entries \ DOMAIN old),
             !.screen = SetScore(@, {old[o].id : o \in DOMAIN old}, entries)]
  BY DEF Render, DisplayIn
<1>2. name \in DOMAIN s.objectives /\ position \in DOMAIN s.objectives[name].active
  BY DEF IsShown
<1>3. DOMAIN r = DOMAIN s /\ r.teams = s.teams
  BY <1>1, Zenon DEF BoardShape
<1>4. r.objectives = [s.objectives EXCEPT ![name].active[position].rendered = entries]
  BY <1>1 DEF BoardShape
<1>5. r.ids = [s.ids EXCEPT !.entry = @ + Cardinality(DOMAIN entries \ DOMAIN old)]
  BY <1>1 DEF BoardShape
<1>6. r.screen = SetScore(s.screen, {old[o].id : o \in DOMAIN old}, entries)
  BY <1>1 DEF BoardShape
<1> HIDE DEF r, entries, old
<1>7. /\ DOMAIN r.ids = DOMAIN s.ids /\ r.ids.objective = s.ids.objective
      /\ r.ids.entry = s.ids.entry + Cardinality(DOMAIN entries \ DOMAIN old)
  BY <1>5 DEF BoardShape
<1>8. Relined(r, s, name, position, entries)
  BY <1>2, <1>3, <1>4 DEF BoardShape, Relined, DisplayIn
<1> QED BY <1>6, <1>7, <1>8 DEF r, entries, old

\* What is drawn for a display: its listed owners, the old lines under their IDs and
\* the new ones under IDs nobody has had, all different.
LEMMA EntriesNumbered ==
    ASSUME NEW s, BoardKept(s), NEW n \in Objectives, NEW p \in DisplayPositions,
           IsShown(s, n, p)
    PROVE  LET old == DisplayIn(s, n, p).rendered
               entries == Entries(s, n, p)
               fresh == DOMAIN entries \ DOMAIN old
           IN  /\ DOMAIN entries = FirstOwners(s.objectives[n].scores, Slot(p))
               /\ IsFiniteSet(fresh) /\ Cardinality(fresh) \in Nat
               /\ \A o \in DOMAIN entries :
                     /\ entries[o] = [id |-> entries[o].id, objective |-> DisplayIn(s, n, p).id,
                            value |-> s.objectives[n].scores[o].value,
                            name |-> EntryName(s.teams, o, s.objectives[n].scores[o])]
                     /\ entries[o].id \in Int
                     /\ entries[o].id < s.ids.entry + Cardinality(fresh)
                     /\ o \in DOMAIN old => entries[o].id = old[o].id
                     /\ o \notin DOMAIN old => entries[o].id >= s.ids.entry
               /\ \A o, u \in DOMAIN entries : entries[o].id = entries[u].id => o = u
<1> DEFINE old == DisplayIn(s, n, p).rendered
           entries == Entries(s, n, p)
           owners == FirstOwners(s.objectives[n].scores, Slot(p))
           fresh == owners \ DOMAIN old
<1>1. n \in DOMAIN s.objectives /\ p \in DOMAIN s.objectives[n].active
      /\ DisplayIn(s, n, p).slot = Slot(p)
  BY DEF IsShown, BoardKept, BoardObjectives
<1>2. entries = [o \in owners |->
            [id |-> EntryID(s, old, fresh, o), objective |-> DisplayIn(s, n, p).id,
             value |-> s.objectives[n].scores[o].value,
             name |-> EntryName(s.teams, o, s.objectives[n].scores[o])]]
  BY <1>1, Zenon DEF Entries, DisplayIn
<1>3. owners \subseteq DOMAIN s.objectives[n].scores
  BY DEF FirstOwners
<1> HIDE DEF owners, entries
<1>4. /\ DOMAIN entries = owners /\ DOMAIN entries \ DOMAIN old = fresh
      /\ \A o \in owners :
            /\ entries[o].id = EntryID(s, old, fresh, o)
            /\ entries[o] = [id |-> entries[o].id, objective |-> DisplayIn(s, n, p).id,
                  value |-> s.objectives[n].scores[o].value,
                  name |-> EntryName(s.teams, o, s.objectives[n].scores[o])]
  BY <1>2
<1>5. fresh \subseteq Int /\ IsFiniteSet(fresh)
  <2>1. fresh \subseteq Owners
    BY <1>1, <1>3 DEF BoardKept, BoardShape
  <2> QED BY <2>1, ScoreboardAssumption, FS_Subset
<1>6. s.ids.entry \in Int
  BY DEF BoardKept, BoardShape
<1>13. \A o \in owners : o \in fresh <=> o \notin DOMAIN old
  OBVIOUS
<1>14. fresh \subseteq owners
  OBVIOUS
<1>7. /\ Cardinality(fresh) \in Nat
      /\ \A o \in fresh : Rank(fresh, o) \in Nat /\ Rank(fresh, o) < Cardinality(fresh)
      /\ \A o, u \in fresh : o # u => Rank(fresh, o) # Rank(fresh, u)
  <2> HIDE DEF fresh
  <2> QED BY <1>5, RanksDiffer
<1>15. /\ \A o \in fresh : EntryID(s, old, fresh, o) = s.ids.entry + Rank(fresh, o)
       /\ \A o \in owners \ fresh : EntryID(s, old, fresh, o) = old[o].id
  BY Zenon DEF EntryID, Rank
<1> HIDE DEF fresh, old
<1>8. /\ \A o \in fresh : entries[o].id = s.ids.entry + Rank(fresh, o)
      /\ \A o \in owners \ fresh : entries[o].id = old[o].id
  BY <1>4, <1>14, <1>15
<1>9. \A o \in DOMAIN old : old[o].id \in Int /\ old[o].id < s.ids.entry
  BY DEF BoardKept, BoardLines, old
<1>10. \A o, u \in DOMAIN old : old[o].id = old[u].id => o = u
  BY DEF BoardKept, BoardLines, old
<1>11. \A o \in owners :
         /\ entries[o].id \in Int /\ entries[o].id < s.ids.entry + Cardinality(fresh)
         /\ o \in DOMAIN old => entries[o].id = old[o].id
         /\ o \notin DOMAIN old => entries[o].id >= s.ids.entry
  <2>1. \A o \in fresh : entries[o].id \in Int /\ entries[o].id >= s.ids.entry
                         /\ entries[o].id < s.ids.entry + Cardinality(fresh)
    BY <1>6, <1>7, <1>8
  <2>2. \A o \in owners \ fresh : entries[o].id = old[o].id /\ entries[o].id \in Int
                         /\ entries[o].id < s.ids.entry + Cardinality(fresh)
    BY <1>6, <1>7, <1>8, <1>9, <1>13
  <2> QED BY <1>8, <1>13, <2>1, <2>2
<1>12. ASSUME NEW o \in owners, NEW u \in owners, entries[o].id = entries[u].id PROVE o = u
  <2>1. CASE o \in fresh /\ u \in fresh
    BY <1>6, <1>7, <1>8, <1>12, <2>1
  <2>2. CASE o \notin fresh /\ u \notin fresh
    BY <1>8, <1>10, <1>12, <1>13, <2>2
  <2>3. CASE o \in fresh /\ u \notin fresh
    BY <1>6, <1>7, <1>8, <1>9, <1>12, <1>13, <2>3
  <2>4. CASE o \notin fresh /\ u \in fresh
    BY <1>6, <1>7, <1>8, <1>9, <1>12, <1>13, <2>4
  <2> QED BY <2>1, <2>2, <2>3, <2>4
<1> QED BY <1>4, <1>5, <1>7, <1>11, <1>12 DEF owners, entries, fresh, old

\* What SetScore leaves on a screen.
IDsApart(entries) == \A o, u \in DOMAIN entries : entries[o].id = entries[u].id => o = u

LinesSet(r, scr, removed, entries) ==
    /\ DOMAIN r = DOMAIN scr /\ r.known = scr.known /\ r.shown = scr.shown
    /\ DOMAIN r.lines = {entries[o].id : o \in DOMAIN entries}
                        \cup (DOMAIN scr.lines \ removed)
    /\ \A o \in DOMAIN entries : r.lines[entries[o].id] = entries[o]
    /\ \A l \in DOMAIN scr.lines \ removed :
          l \notin {entries[o].id : o \in DOMAIN entries} => r.lines[l] = scr.lines[l]

LEMMA ScreenLines ==
    ASSUME NEW screen0, DOMAIN screen0 = {"known", "shown", "lines"}, NEW removed, NEW entries,
           IDsApart(entries)
    PROVE  LinesSet(SetScore(screen0, removed, entries), screen0, removed, entries)
<1> DEFINE r == SetScore(screen0, removed, entries)
           drawn == {entries[o].id : o \in DOMAIN entries}
           owner(e) == CHOOSE o \in DOMAIN entries : entries[o].id = e
           rest == DOMAIN screen0.lines \ removed
<1>1. \A o \in DOMAIN entries : owner(entries[o].id) = o
  BY DEF IDsApart
<1>2. /\ DOMAIN r = DOMAIN screen0 /\ r.known = screen0.known /\ r.shown = screen0.shown
      /\ r.lines = [l \in drawn \cup rest |->
                       IF l \in drawn THEN entries[owner(l)] ELSE screen0.lines[l]]
  BY DEF SetScore
<1> HIDE DEF r, owner
<1> QED BY <1>1, <1>2 DEF r, LinesSet

\* What draws of the displays T do to a board; with titled their titles are sent too.
Redrawn(s, r, T, titled) ==
    /\ BoardKept(r) /\ SameBoard(s, r)
    /\ \A n \in Objectives, p \in DisplayPositions :
          IsShown(s, n, p) =>
             /\ Drawn(s, n, p) \/ <<n, p>> \in T => Drawn(r, n, p)
             /\ Titled(s, n, p) \/ (titled /\ <<n, p>> \in T) => Titled(r, n, p)

\* A draw leaves no line of its display behind, takes no line of another and gives
\* out no ID twice.
LEMMA RenderRedraws ==
    ASSUME NEW s, BoardKept(s), NEW name \in Objectives, NEW position \in DisplayPositions,
           IsShown(s, name, position)
    PROVE  Redrawn(s, Render(s, name, position), {<<name, position>>}, FALSE)
<1> DEFINE r == Render(s, name, position)
           old == DisplayIn(s, name, position).rendered
           entries == Entries(s, name, position)
           fresh == DOMAIN entries \ DOMAIN old
           removed == {old[o].id : o \in DOMAIN old}
<1>1. /\ Relined(r, s, name, position, entries)
      /\ DOMAIN r.ids = DOMAIN s.ids /\ r.ids.objective = s.ids.objective
      /\ r.ids.entry = s.ids.entry + Cardinality(fresh)
      /\ r.screen = SetScore(s.screen, removed, entries)
  BY RenderReplaces DEF BoardKept
<1>2. /\ DOMAIN entries = FirstOwners(s.objectives[name].scores, Slot(position))
      /\ IsFiniteSet(fresh) /\ Cardinality(fresh) \in Nat
      /\ \A o \in DOMAIN entries :
            /\ entries[o] = [id |-> entries[o].id, objective |-> DisplayIn(s, name, position).id,
                     value |-> s.objectives[name].scores[o].value,
                     name |-> EntryName(s.teams, o, s.objectives[name].scores[o])]
            /\ entries[o].id \in Int
            /\ entries[o].id < s.ids.entry + Cardinality(fresh)
            /\ o \in DOMAIN old => entries[o].id = old[o].id
            /\ o \notin DOMAIN old => entries[o].id >= s.ids.entry
      /\ \A o, u \in DOMAIN entries : entries[o].id = entries[u].id => o = u
  BY EntriesNumbered
<1> HIDE DEF r, entries, fresh
<1>3. /\ DOMAIN r.screen = DOMAIN s.screen
      /\ r.screen.known = s.screen.known
      /\ DOMAIN r.screen.lines = {entries[o].id : o \in DOMAIN entries}
                                 \cup (DOMAIN s.screen.lines \ removed)
      /\ \A o \in DOMAIN entries : r.screen.lines[entries[o].id] = entries[o]
      /\ \A l \in DOMAIN s.screen.lines \ removed :
            l \notin {entries[o].id : o \in DOMAIN entries} =>
               r.screen.lines[l] = s.screen.lines[l]
  <2>1. DOMAIN s.screen = {"known", "shown", "lines"}
    BY DEF BoardKept, BoardShape
  <2> HIDE DEF old, removed
  <2>2. IDsApart(entries)
    BY <1>2 DEF IDsApart
  <2>3. LinesSet(r.screen, s.screen, removed, entries)
    BY <1>1, <2>1, <2>2, ScreenLines
  <2> QED BY <2>3 DEF LinesSet
<1>4. name \in DOMAIN s.objectives /\ position \in DOMAIN s.objectives[name].active
  BY DEF IsShown
<1>5. SameBoard(s, r)
  BY <1>1 DEF Relined, SameBoard
<1>6. \A n, p : IsShown(r, n, p) <=> IsShown(s, n, p)
  BY <1>1 DEF Relined, IsShown
<1>7. /\ \A n, p : IsShown(s, n, p) => DisplayIn(r, n, p).id = DisplayIn(s, n, p).id
                   /\ DisplayIn(r, n, p).slot = DisplayIn(s, n, p).slot
      /\ \A n, p : IsShown(s, n, p) /\ ~(n = name /\ p = position) =>
            DisplayIn(r, n, p).rendered = DisplayIn(s, n, p).rendered
      /\ DisplayIn(r, name, position).rendered = entries
  BY <1>1 DEF Relined, IsShown
<1>8. BoardShape(r)
  <2> HIDE DEF old, removed
  <2>1. BoardShape(s)
    BY DEF BoardKept
  <2>2. r.ids.objective \in Int /\ r.ids.entry \in Int
    BY <1>1, <1>2, <2>1 DEF BoardShape
  <2> QED BY <1>1, <1>3, <2>1, <2>2 DEF BoardShape, Relined
<1>9. BoardObjectives(r)
  <2> HIDE DEF old, removed
  <2>1. BoardObjectives(s)
    BY DEF BoardKept
  <2> QED BY <1>1, <1>3, <1>6, <1>7, <2>1 DEF BoardObjectives
<1>10. BoardLines(r)
  <2>1. BoardLines(s) /\ s.ids.entry \in Int
    BY DEF BoardKept, BoardShape
  <2>2. \A o \in DOMAIN old : old[o].id \in Int /\ old[o].id < s.ids.entry
    BY <2>1 DEF BoardLines
  <2>3. ASSUME NEW n \in Objectives, NEW p \in DisplayPositions, IsShown(s, n, p),
               ~(n = name /\ p = position), NEW o \in DOMAIN DisplayIn(s, n, p).rendered
        PROVE  LET l == DisplayIn(s, n, p).rendered[o].id IN
               /\ l \notin removed /\ l \in Int /\ l < s.ids.entry
               /\ l \notin {entries[u].id : u \in DOMAIN entries}
               /\ l < r.ids.entry
               /\ l \in DOMAIN r.screen.lines
               /\ r.screen.lines[l] = DisplayIn(s, n, p).rendered[o]
    <3> DEFINE l == DisplayIn(s, n, p).rendered[o].id
    <3>1. l \in Int /\ l < s.ids.entry /\ l \in DOMAIN s.screen.lines
          /\ s.screen.lines[l] = DisplayIn(s, n, p).rendered[o]
      BY <2>1, <2>3 DEF BoardLines
    <3>2. \A u \in DOMAIN old : old[u].id # l
      BY <2>1, <2>3 DEF BoardLines
    <3> HIDE DEF l, old
    <3>3. l \notin removed
      BY <3>2
    <3>4. ASSUME NEW u \in DOMAIN entries PROVE entries[u].id # l
      BY <1>2, <2>1, <3>1, <3>2
    <3>5. l < r.ids.entry
      BY <1>1, <1>2, <2>1, <3>1
    <3> HIDE DEF removed
    <3> QED BY <1>3, <3>1, <3>3, <3>4, <3>5 DEF l
  <2>4. ASSUME NEW o \in DOMAIN entries
        PROVE  /\ entries[o].id \in Int /\ entries[o].id < r.ids.entry
               /\ entries[o].objective = DisplayIn(s, name, position).id
               /\ entries[o].id \in DOMAIN r.screen.lines
               /\ r.screen.lines[entries[o].id] = entries[o]
    <3> HIDE DEF old, removed
    <3>1. entries[o].objective = DisplayIn(s, name, position).id
      BY <1>2
    <3> QED BY <1>1, <1>2, <1>3, <3>1
  <2> HIDE DEF old
  <2>5. ASSUME NEW n \in Objectives, NEW p \in DisplayPositions, IsShown(r, n, p),
               NEW o \in DOMAIN DisplayIn(r, n, p).rendered
        PROVE  LET line == DisplayIn(r, n, p).rendered[o]
               IN  /\ line.id \in Int /\ line.id < r.ids.entry
                   /\ line.objective = DisplayIn(r, n, p).id
                   /\ line.id \in DOMAIN r.screen.lines
                   /\ r.screen.lines[line.id] = line
    <3>1. CASE n = name /\ p = position
      BY <1>6, <1>7, <2>4, <2>5, <3>1
    <3>2. CASE ~(n = name /\ p = position)
      <4>1. DisplayIn(s, n, p).rendered[o].objective = DisplayIn(s, n, p).id
        BY <1>6, <1>7, <2>1, <2>5, <3>2 DEF BoardLines
      <4> QED BY <1>6, <1>7, <2>3, <2>5, <3>2, <4>1
    <3> QED BY <3>1, <3>2
  <2>6. ASSUME NEW n \in Objectives, NEW p \in DisplayPositions, IsShown(r, n, p),
               NEW m \in Objectives, NEW q \in DisplayPositions, IsShown(r, m, q),
               NEW o \in DOMAIN DisplayIn(r, n, p).rendered,
               NEW u \in DOMAIN DisplayIn(r, m, q).rendered,
               DisplayIn(r, n, p).rendered[o].id = DisplayIn(r, m, q).rendered[u].id
        PROVE  n = m /\ p = q /\ o = u
    <3>1. CASE ~(n = name /\ p = position) /\ ~(m = name /\ q = position)
      BY <1>6, <1>7, <2>1, <2>6, <3>1 DEF BoardLines
    <3>2. CASE n = name /\ p = position /\ m = name /\ q = position
      BY <1>2, <1>7, <2>6, <3>2
    <3>3. CASE n = name /\ p = position /\ ~(m = name /\ q = position)
      BY <1>6, <1>7, <2>3, <2>6, <3>3
    <3>4. CASE ~(n = name /\ p = position) /\ m = name /\ q = position
      BY <1>6, <1>7, <2>3, <2>6, <3>4
    <3> QED BY <3>1, <3>2, <3>3, <3>4
  <2>7. ASSUME NEW l \in DOMAIN r.screen.lines
        PROVE  \E n \in Objectives, p \in DisplayPositions :
                  /\ IsShown(r, n, p)
                  /\ \E o \in DOMAIN DisplayIn(r, n, p).rendered :
                        DisplayIn(r, n, p).rendered[o].id = l
    <3>1. CASE \E o \in DOMAIN entries : entries[o].id = l
      BY <1>6, <1>7, <3>1
    <3>2. CASE l \in DOMAIN s.screen.lines \ removed
      <4>1. PICK n \in Objectives, p \in DisplayPositions :
               /\ IsShown(s, n, p)
               /\ \E o \in DOMAIN DisplayIn(s, n, p).rendered :
                     DisplayIn(s, n, p).rendered[o].id = l
        BY <2>1, <3>2 DEF BoardLines
      <4>2. ~(n = name /\ p = position)
        BY <3>2, <4>1 DEF old
      <4> QED BY <1>6, <1>7, <4>1, <4>2
    <3> QED BY <1>3, <3>1, <3>2
  <2> QED BY <2>5, <2>6, <2>7 DEF BoardLines
<1>11. ASSUME NEW n \in Objectives, NEW p \in DisplayPositions, IsShown(s, n, p)
       PROVE  /\ Drawn(s, n, p) \/ <<n, p>> = <<name, position>> => Drawn(r, n, p)
              /\ Titled(s, n, p) => Titled(r, n, p)
  <2> HIDE DEF old, removed
  <2>1. /\ r.teams = s.teams /\ r.objectives[n].scores = s.objectives[n].scores
        /\ r.objectives[n].title = s.objectives[n].title
    BY <1>5, <1>11 DEF SameBoard, IsShown
  <2>2. Titled(s, n, p) => Titled(r, n, p)
    BY <1>3, <1>7, <1>11, <2>1 DEF Titled
  <2>3. CASE n = name /\ p = position
    <3>1. Drawn(r, n, p)
      BY <1>2, <1>7, <1>11, <2>1, <2>3 DEF Drawn
    <3> QED BY <2>2, <3>1
  <2>4. CASE ~(n = name /\ p = position)
    <3>1. Drawn(s, n, p) => Drawn(r, n, p)
      BY <1>7, <1>11, <2>1, <2>4 DEF Drawn
    <3> QED BY <2>2, <2>4, <3>1
  <2> QED BY <2>3, <2>4
<1> QED BY <1>5, <1>8, <1>9, <1>10, <1>11 DEF Redrawn, BoardKept, r

\* The screen on which an objective was removed and made again, without its lines.
Remade(made, scr, id, slot, title) ==
    /\ DOMAIN made = DOMAIN scr
    /\ DOMAIN made.known = DOMAIN scr.known
    /\ made.known[id] = [slot |-> slot, title |-> title]
    /\ \A i \in DOMAIN scr.known : i # id => made.known[i] = scr.known[i]
    /\ made.lines = [l \in {k \in DOMAIN scr.lines : scr.lines[k].objective # id} |-> scr.lines[l]]

\* Removing an objective and making it again keeps the others and their lines.
LEMMA ObjectiveRemade ==
    ASSUME NEW scr, DOMAIN scr = {"known", "shown", "lines"},
           NEW id \in DOMAIN scr.known, NEW slot, NEW title
    PROVE  Remade(SetDisplayObjective(RemoveObjective(scr, id), id, slot, title), scr, id, slot, title)
<1> DEFINE bare == RemoveObjective(scr, id)
           made == SetDisplayObjective(bare, id, slot, title)
           others == {l \in DOMAIN scr.lines : scr.lines[l].objective # id}
<1>1. /\ DOMAIN bare = {"known", "shown", "lines"}
      /\ bare.known = [k \in DOMAIN scr.known \ {id} |-> scr.known[k]]
      /\ bare.lines = [l \in others |-> scr.lines[l]]
  BY DEF RemoveObjective, Removed
<1> HIDE DEF bare
<1>2. /\ DOMAIN made = DOMAIN bare /\ made.lines = bare.lines
      /\ made.known = Assign(bare.known, id, [slot |-> slot, title |-> title])
  BY <1>1 DEF SetDisplayObjective
<1> HIDE DEF made, others
<1>3. made.known = [k \in DOMAIN scr.known |->
                       IF k = id THEN [slot |-> slot, title |-> title] ELSE scr.known[k]]
  BY <1>1, <1>2 DEF Assign
<1> QED BY <1>1, <1>2, <1>3 DEF Remade, made, bare, others

\* Removing a Bedrock objective and making it again takes its lines away, no others,
\* and gives it the present title; then all its lines are drawn.
LEMMA RefreshRedraws ==
    ASSUME NEW s, BoardKept(s), NEW name \in Objectives, NEW position \in DisplayPositions,
           IsShown(s, name, position)
    PROVE  Redrawn(s, Refresh(s, name, position), {<<name, position>>}, TRUE)
<1> DEFINE id == DisplayIn(s, name, position).id
           title == s.objectives[name].title
           bare == [s EXCEPT
                      !.objectives[name].active[position].rendered = <<>>,
                      !.screen = SetDisplayObjective(RemoveObjective(@, id), id,
                                        DisplayIn(s, name, position).slot, title)]
           r == Refresh(s, name, position)
<1>1. name \in DOMAIN s.objectives /\ position \in DOMAIN s.objectives[name].active
  BY DEF IsShown
<1>2. r = Render(bare, name, position)
  BY DEF Refresh, DisplayIn
<1>3. BoardShape(s) /\ BoardObjectives(s) /\ BoardLines(s)
  BY DEF BoardKept
<1>4. /\ DOMAIN bare = DOMAIN s /\ bare.teams = s.teams /\ bare.ids = s.ids
      /\ bare.objectives = [s.objectives EXCEPT ![name].active[position].rendered = <<>>]
      /\ bare.screen = SetDisplayObjective(RemoveObjective(s.screen, id), id,
                             DisplayIn(s, name, position).slot, title)
  BY <1>3 DEF BoardShape
<1>5. DisplayIn(s, name, position).slot = Slot(position) /\ id \in DOMAIN s.screen.known
  BY <1>3 DEF BoardObjectives
<1> DEFINE others == {l \in DOMAIN s.screen.lines : s.screen.lines[l].objective # id}
<1> HIDE DEF bare, r, id, title
<1>6. /\ DOMAIN bare.screen = DOMAIN s.screen
      /\ DOMAIN bare.screen.known = DOMAIN s.screen.known
      /\ bare.screen.known[id] = [slot |-> Slot(position), title |-> title]
      /\ \A i \in DOMAIN s.screen.known : i # id => bare.screen.known[i] = s.screen.known[i]
      /\ DOMAIN bare.screen.lines = others
      /\ \A l \in others : bare.screen.lines[l] = s.screen.lines[l]
  <2> DEFINE scr == s.screen
             slot == Slot(position)
  <2>1. DOMAIN scr = {"known", "shown", "lines"} /\ id \in DOMAIN scr.known
    BY <1>3, <1>5 DEF BoardShape
  <2>2. bare.screen = SetDisplayObjective(RemoveObjective(scr, id), id, slot, title)
    BY <1>4, <1>5
  <2> HIDE DEF scr, slot
  <2>3. /\ DOMAIN bare.screen = DOMAIN scr
        /\ DOMAIN bare.screen.known = DOMAIN scr.known
        /\ bare.screen.known[id] = [slot |-> slot, title |-> title]
        /\ \A i \in DOMAIN scr.known : i # id => bare.screen.known[i] = scr.known[i]
        /\ bare.screen.lines = [l \in {k \in DOMAIN scr.lines : scr.lines[k].objective # id}
                                   |-> scr.lines[l]]
    <3>1. Remade(bare.screen, scr, id, slot, title)
      BY <2>1, <2>2, ObjectiveRemade, ZenonT(60)
    <3> QED BY <3>1 DEF Remade
  <2> QED BY <2>3 DEF scr, slot
<1>7. Relined(bare, s, name, position, <<>>)
  <2> DEFINE had == s.objectives
             now == bare.objectives
  <2>1. /\ \A n \in DOMAIN had : DOMAIN had[n] = {"title", "scores", "active"}
        /\ \A n \in DOMAIN had : \A p \in DOMAIN had[n].active :
              DOMAIN had[n].active[p] = {"id", "slot", "rendered"}
    BY <1>3 DEF BoardShape, DisplayIn
  <2>2. now = [had EXCEPT ![name].active[position].rendered = <<>>]
    BY <1>4
  <2> HIDE DEF had, now
  <2>3. /\ DOMAIN now = DOMAIN had
        /\ \A n \in DOMAIN had : n # name => now[n] = had[n]
        /\ now[name] = [had[name] EXCEPT !.active[position].rendered = <<>>]
    BY <1>1, <2>2 DEF had
  <2>4. /\ DOMAIN now[name] = DOMAIN had[name]
        /\ now[name].title = had[name].title /\ now[name].scores = had[name].scores
        /\ DOMAIN now[name].active = DOMAIN had[name].active
        /\ \A p \in DOMAIN had[name].active : p # position => now[name].active[p] = had[name].active[p]
        /\ now[name].active[position] = [had[name].active[position] EXCEPT !.rendered = <<>>]
    BY <1>1, <2>1, <2>3 DEF had
  <2>5. /\ DOMAIN now[name].active[position] = DOMAIN had[name].active[position]
        /\ now[name].active[position].id = had[name].active[position].id
        /\ now[name].active[position].slot = had[name].active[position].slot
        /\ now[name].active[position].rendered = <<>>
    BY <1>1, <2>1, <2>4 DEF had
  <2>7. \A n \in DOMAIN had :
           /\ DOMAIN now[n] = DOMAIN had[n]
           /\ now[n].title = had[n].title /\ now[n].scores = had[n].scores
           /\ DOMAIN now[n].active = DOMAIN had[n].active
    BY <2>3, <2>4
  <2>8. ASSUME NEW n \in DOMAIN had, NEW p \in DOMAIN had[n].active
        PROVE  /\ n # name \/ p # position => now[n].active[p] = had[n].active[p]
               /\ DOMAIN now[n].active[p] = DOMAIN had[n].active[p]
               /\ now[n].active[p].id = had[n].active[p].id
               /\ now[n].active[p].slot = had[n].active[p].slot
    <3>1. CASE n = name /\ p = position
      BY <2>5, <3>1, Zenon
    <3>2. CASE n # name
      BY <2>3, <3>2, Zenon
    <3>3. CASE n = name /\ p # position
      BY <2>4, <3>3, Zenon
    <3> QED BY <3>1, <3>2, <3>3, Zenon
  <2>9. DOMAIN bare = DOMAIN s /\ bare.teams = s.teams
    BY <1>4
  <2> HIDE DEF bare
  <2>10. /\ DOMAIN bare.objectives = DOMAIN s.objectives
         /\ DisplayIn(bare, name, position).rendered = <<>>
    BY <2>3, <2>5 DEF DisplayIn, had, now
  <2>11. ASSUME NEW n \in DOMAIN s.objectives
         PROVE  /\ DOMAIN bare.objectives[n] = DOMAIN s.objectives[n]
                /\ bare.objectives[n].title = s.objectives[n].title
                /\ bare.objectives[n].scores = s.objectives[n].scores
                /\ DOMAIN bare.objectives[n].active = DOMAIN s.objectives[n].active
    BY <2>7, Zenon DEF had, now
  <2>12. ASSUME NEW n \in DOMAIN s.objectives, NEW p \in DOMAIN s.objectives[n].active
         PROVE  /\ n # name \/ p # position => DisplayIn(bare, n, p) = DisplayIn(s, n, p)
                /\ DOMAIN DisplayIn(bare, n, p) = DOMAIN DisplayIn(s, n, p)
                /\ DisplayIn(bare, n, p).id = DisplayIn(s, n, p).id
                /\ DisplayIn(bare, n, p).slot = DisplayIn(s, n, p).slot
    BY <2>8, Zenon DEF DisplayIn, had, now
  <2> QED BY <2>9, <2>10, <2>11, <2>12, Zenon DEF Relined
<1>8. \A n, p : IsShown(bare, n, p) <=> IsShown(s, n, p)
  BY <1>7 DEF Relined, IsShown
<1>9. /\ \A n, p : IsShown(s, n, p) => DisplayIn(bare, n, p).id = DisplayIn(s, n, p).id
                   /\ DisplayIn(bare, n, p).slot = DisplayIn(s, n, p).slot
      /\ \A n, p : IsShown(s, n, p) /\ ~(n = name /\ p = position) =>
            DisplayIn(bare, n, p).rendered = DisplayIn(s, n, p).rendered
      /\ DOMAIN DisplayIn(bare, name, position).rendered = {}
  BY <1>7 DEF Relined, IsShown
<1>10. BoardShape(bare)
  <2>1. /\ DOMAIN bare = {"objectives", "teams", "ids", "screen"} /\ bare.ids = s.ids
        /\ DOMAIN bare.screen = {"known", "shown", "lines"}
    BY <1>3, <1>4, <1>6 DEF BoardShape
  <2>2. DOMAIN s.ids = {"objective", "entry"} /\ s.ids.objective \in Int /\ s.ids.entry \in Int
    BY <1>3 DEF BoardShape
  <2> HIDE DEF others
  <2>3. DOMAIN bare.objectives \subseteq Objectives /\ IsFiniteSet(DOMAIN bare.objectives)
    BY <1>3, <1>7 DEF BoardShape, Relined
  <2>4. ASSUME NEW n \in DOMAIN bare.objectives
        PROVE  /\ DOMAIN bare.objectives[n] = {"title", "scores", "active"}
               /\ DOMAIN bare.objectives[n].scores \subseteq Owners
               /\ \A o \in DOMAIN bare.objectives[n].scores :
                     bare.objectives[n].scores[o].value \in Int
               /\ DOMAIN bare.objectives[n].active \subseteq {p \in DisplayPositions : Slot(p) # "none"}
    BY <1>3, <1>7 DEF BoardShape, Relined
  <2>5. ASSUME NEW n \in DOMAIN bare.objectives, NEW p \in DOMAIN bare.objectives[n].active
        PROVE  DOMAIN DisplayIn(bare, n, p) = {"id", "slot", "rendered"}
    BY <1>3, <1>7 DEF BoardShape, Relined
  <2> QED BY <2>1, <2>2, <2>3, <2>4, <2>5 DEF BoardShape
<1>11. BoardObjectives(bare)
  <2> HIDE DEF others
  <2>1. ASSUME NEW n \in Objectives, NEW p \in DisplayPositions, IsShown(bare, n, p)
        PROVE  /\ DisplayIn(bare, n, p).id \in Int
               /\ DisplayIn(bare, n, p).id < bare.ids.objective
               /\ DisplayIn(bare, n, p).slot = Slot(p)
               /\ DisplayIn(bare, n, p).id \in DOMAIN bare.screen.known
    <3>1. IsShown(s, n, p) /\ DisplayIn(bare, n, p).id = DisplayIn(s, n, p).id
          /\ DisplayIn(bare, n, p).slot = DisplayIn(s, n, p).slot
      BY <1>8, <1>9, <2>1
    <3>2. DOMAIN bare.screen.known = DOMAIN s.screen.known
          /\ bare.ids.objective = s.ids.objective
      BY <1>4, <1>6
    <3>3. /\ DisplayIn(s, n, p).id \in Int /\ DisplayIn(s, n, p).id < s.ids.objective
          /\ DisplayIn(s, n, p).slot = Slot(p)
          /\ DisplayIn(s, n, p).id \in DOMAIN s.screen.known
      BY <1>3, <3>1 DEF BoardObjectives
    <3> QED BY <3>1, <3>2, <3>3
  <2>2. \A n, m \in Objectives, p, q \in DisplayPositions :
          /\ IsShown(bare, n, p) /\ IsShown(bare, m, q)
          /\ DisplayIn(bare, n, p).id = DisplayIn(bare, m, q).id
          => n = m /\ p = q
    BY <1>3, <1>8, <1>9 DEF BoardObjectives
  <2>3. \A i \in DOMAIN bare.screen.known : \E n \in Objectives, p \in DisplayPositions :
          IsShown(bare, n, p) /\ DisplayIn(bare, n, p).id = i
    <3>1. \A i \in DOMAIN s.screen.known : \E n \in Objectives, p \in DisplayPositions :
             IsShown(s, n, p) /\ DisplayIn(s, n, p).id = i
      BY <1>3 DEF BoardObjectives
    <3>2. DOMAIN bare.screen.known = DOMAIN s.screen.known
      BY <1>6
    <3> QED BY <1>8, <1>9, <3>1, <3>2
  <2> QED BY <2>1, <2>2, <2>3 DEF BoardObjectives
<1>12. \A n \in Objectives, p \in DisplayPositions :
          IsShown(s, n, p) /\ ~(n = name /\ p = position) =>
             /\ DisplayIn(s, n, p).id # id
             /\ \A o \in DOMAIN DisplayIn(s, n, p).rendered :
                   DisplayIn(s, n, p).rendered[o].id \in others
  <2>1. ASSUME NEW n \in Objectives, NEW p \in DisplayPositions, IsShown(s, n, p),
               ~(n = name /\ p = position)
        PROVE  DisplayIn(s, n, p).id # id
    BY <1>3, <2>1 DEF BoardObjectives, id
  <2> QED BY <1>3, <2>1 DEF BoardLines
<1>13. BoardLines(bare)
  <2>1. ASSUME NEW n \in Objectives, NEW p \in DisplayPositions, IsShown(bare, n, p),
               NEW o \in DOMAIN DisplayIn(bare, n, p).rendered
        PROVE  /\ IsShown(s, n, p) /\ ~(n = name /\ p = position)
               /\ DisplayIn(bare, n, p).rendered = DisplayIn(s, n, p).rendered
               /\ DisplayIn(bare, n, p).rendered[o].id \in others
    BY <1>8, <1>9, <1>12, <2>1
  <2>2. ASSUME NEW n \in Objectives, NEW p \in DisplayPositions, IsShown(bare, n, p),
               NEW o \in DOMAIN DisplayIn(bare, n, p).rendered
        PROVE  LET line == DisplayIn(bare, n, p).rendered[o]
               IN  /\ line.id \in Int /\ line.id < bare.ids.entry
                   /\ line.objective = DisplayIn(bare, n, p).id
                   /\ line.id \in DOMAIN bare.screen.lines
                   /\ bare.screen.lines[line.id] = line
    <3> HIDE DEF others
    <3> QED BY <1>3, <1>4, <1>6, <1>9, <2>1, <2>2 DEF BoardLines
  <2>3. ASSUME NEW l \in DOMAIN bare.screen.lines
        PROVE  \E n \in Objectives, p \in DisplayPositions :
                  /\ IsShown(bare, n, p)
                  /\ \E o \in DOMAIN DisplayIn(bare, n, p).rendered :
                        DisplayIn(bare, n, p).rendered[o].id = l
    <3>1. l \in DOMAIN s.screen.lines /\ s.screen.lines[l].objective # id
      BY <1>6, <2>3
    <3>2. PICK n \in Objectives, p \in DisplayPositions :
             /\ IsShown(s, n, p)
             /\ \E o \in DOMAIN DisplayIn(s, n, p).rendered :
                   DisplayIn(s, n, p).rendered[o].id = l
      BY <1>3, <3>1 DEF BoardLines
    <3>3. ~(n = name /\ p = position)
      BY <1>3, <3>1, <3>2 DEF BoardLines, id
    <3> QED BY <1>8, <1>9, <3>2, <3>3
  <2>4. ASSUME NEW n \in Objectives, NEW p \in DisplayPositions, IsShown(bare, n, p),
               NEW m \in Objectives, NEW q \in DisplayPositions, IsShown(bare, m, q),
               NEW o \in DOMAIN DisplayIn(bare, n, p).rendered,
               NEW u \in DOMAIN DisplayIn(bare, m, q).rendered,
               DisplayIn(bare, n, p).rendered[o].id = DisplayIn(bare, m, q).rendered[u].id
        PROVE  n = m /\ p = q /\ o = u
    <3> HIDE DEF others
    <3> QED BY <1>3, <2>1, <2>4 DEF BoardLines
  <2> QED BY <2>2, <2>3, <2>4 DEF BoardLines
<1>14. BoardKept(bare) /\ SameBoard(s, bare)
  BY <1>4, <1>7, <1>10, <1>11, <1>13 DEF BoardKept, SameBoard, Relined
<1>15. ASSUME NEW n \in Objectives, NEW p \in DisplayPositions, IsShown(s, n, p)
       PROVE  /\ Drawn(s, n, p) /\ ~(n = name /\ p = position) => Drawn(bare, n, p)
              /\ Titled(s, n, p) \/ <<n, p>> = <<name, position>> => Titled(bare, n, p)
  <2>1. /\ bare.teams = s.teams /\ bare.objectives[n].scores = s.objectives[n].scores
        /\ bare.objectives[n].title = s.objectives[n].title
    BY <1>14, <1>15 DEF SameBoard, IsShown
  <2>2. Drawn(s, n, p) /\ ~(n = name /\ p = position) => Drawn(bare, n, p)
    BY <1>9, <1>15, <2>1 DEF Drawn
  <2>3. CASE n = name /\ p = position
    BY <1>6, <1>9, <1>15, <2>1, <2>2, <2>3 DEF Titled, id, title
  <2>4. CASE ~(n = name /\ p = position)
    <3>1. DisplayIn(s, n, p).id \in DOMAIN s.screen.known /\ DisplayIn(s, n, p).id # id
      BY <1>3, <1>12, <1>15, <2>4 DEF BoardObjectives
    <3>2. Titled(s, n, p) => Titled(bare, n, p)
      BY <1>6, <1>9, <1>15, <2>1, <3>1 DEF Titled
    <3> QED BY <2>2, <2>4, <3>2
  <2> QED BY <2>3, <2>4
<1>16. Redrawn(bare, r, {<<name, position>>}, FALSE)
  BY <1>2, <1>8, <1>14, RenderRedraws
<1>17. BoardKept(r) /\ SameBoard(s, r)
  BY <1>14, <1>16 DEF Redrawn, SameBoard
<1>18. ASSUME NEW n \in Objectives, NEW p \in DisplayPositions, IsShown(s, n, p)
       PROVE  /\ Drawn(s, n, p) \/ <<n, p>> = <<name, position>> => Drawn(r, n, p)
              /\ Titled(s, n, p) \/ <<n, p>> = <<name, position>> => Titled(r, n, p)
  <2>1. IsShown(bare, n, p)
    BY <1>8, <1>18
  <2> QED BY <1>15, <1>16, <1>18, <2>1 DEF Redrawn
<1> QED BY <1>17, <1>18 DEF Redrawn, r

(***************************************************************************)
(* Folds.  A handler that goes through a set takes its elements in some    *)
(* order: Folds says what the function is that a fold of the community     *)
(* modules picks, for each of the operations folded here.                  *)
(***************************************************************************)
FoldStep(kind, x, acc) ==
    CASE kind[1] = "render" -> Render(acc, x[1], x[2])
      [] kind[1] = "refresh" -> Refresh(acc, x[1], x[2])
      [] kind[1] = "remove" -> RemoveObjective(acc, x)
      [] kind[1] = "count" -> acc + Cardinality(Listed(x))
      [] kind[1] = "change" -> RememberChange(acc, x, kind[2])
      [] kind[1] = "put" -> Put(acc, x, kind[2][x].state)
      [] kind[1] = "shows" -> Shows(acc, x, kind[2])
      [] kind[1] = "chunk" -> Shows(acc, x, kind[2][x].state)
      [] kind[1] = "reset" -> Shows(Shows(acc, x, Air), x, Spawner)
      [] kind[1] = "mob" -> ShowsMob(acc, x, kind[2][x].mob)

Folds(f, kind, base, S) ==
    f = [s \in SUBSET S |->
            IF s = {} THEN base ELSE FoldStep(kind, Picked(s), f[s \ {Picked(s)}])]

\* Two folds agree on every set both of them cover.
LEMMA FoldsAgree ==
    ASSUME NEW S, IsFiniteSet(S), NEW t \in SUBSET S, NEW u \in SUBSET S,
           NEW kind, NEW base, NEW f, NEW h, Folds(f, kind, base, t), Folds(h, kind, base, u)
    PROVE  \A s \in SUBSET (t \cap u) : f[s] = h[s]
<1> DEFINE W == t \cap u
           T == {s \in SUBSET W : f[s] = h[s]}
<1>1. IsFiniteSet(W)
  BY FS_Subset
<1>2. ASSUME NEW s \in SUBSET W, \A r \in SUBSET s : r # s => r \in T
      PROVE  s \in T
  <2>1. CASE s = {}
    BY <2>1 DEF Folds
  <2>2. CASE s # {}
    <3>1. Picked(s) \in s
      BY <2>2 DEF Picked
    <3>2. s \ {Picked(s)} \in T
      BY <3>1, <1>2
    <3>3. f[s] = FoldStep(kind, Picked(s), f[s \ {Picked(s)}])
      BY <2>2 DEF Folds
    <3>4. h[s] = FoldStep(kind, Picked(s), h[s \ {Picked(s)}])
      BY <2>2 DEF Folds
    <3> QED BY <3>2, <3>3, <3>4
  <2> QED BY <2>1, <2>2
<1>3. \A s \in SUBSET W : (\A r \in SUBSET s : r # s => r \in T) => s \in T
  BY <1>2
<1> HIDE DEF T, W
<1>4. \A s \in SUBSET W : s \in T
  BY <1>1, <1>3, SetInduction
<1> QED
  BY <1>4 DEF T, W

\* There is one for every finite set.
LEMMA FoldsExist ==
    ASSUME NEW S, IsFiniteSet(S), NEW kind, NEW base
    PROVE  \E f : Folds(f, kind, base, S)
<1> DEFINE T == {t \in SUBSET S : \E f : Folds(f, kind, base, t)}
<1>1. ASSUME NEW s \in SUBSET S, \A r \in SUBSET s : r # s => r \in T
      PROVE  s \in T
  <2> DEFINE F(r) == CHOOSE f : Folds(f, kind, base, r)
             Below(r) == r \ {Picked(r)}
             At(r) == IF r = s
                      THEN IF s = {} THEN base
                           ELSE FoldStep(kind, Picked(s), F(Below(s))[Below(s)])
                      ELSE F(r)[r]
             h == [r \in SUBSET s |-> At(r)]
  <2>1. \A r \in SUBSET s : r # s => Folds(F(r), kind, base, r)
    BY <1>1
  <2> HIDE DEF F
  <2>2. \A r \in SUBSET s : r # {} => Below(r) \in SUBSET r /\ Below(r) # r /\ Picked(r) \in r
    BY DEF Picked
  <2>3. ASSUME NEW r \in SUBSET s, r # {}
        PROVE  h[r] = FoldStep(kind, Picked(r), h[Below(r)])
    <3>1. Below(r) \in SUBSET s /\ Below(r) # s
      BY <2>2, <2>3
    <3>2. h[Below(r)] = F(Below(r))[Below(r)]
      BY <3>1
    <3>3. CASE r = s
      BY <2>3, <3>2, <3>3
    <3>4. CASE r # s
      <4>1. Folds(F(r), kind, base, r) /\ Folds(F(Below(r)), kind, base, Below(r))
        BY <2>1, <3>1, <3>4
      <4>2. F(r)[r] = FoldStep(kind, Picked(r), F(r)[Below(r)])
        BY <4>1, <2>3 DEF Folds
      <4>3. F(r)[Below(r)] = F(Below(r))[Below(r)]
        <5>1. Below(r) \in SUBSET (r \cap Below(r)) /\ r \in SUBSET S /\ Below(r) \in SUBSET S
          BY <3>1
        <5> DEFINE b == Below(r)
                   fr == F(r)
                   fb == F(b)
        <5>2. /\ r \in SUBSET S /\ b \in SUBSET S /\ b \in SUBSET (r \cap b)
              /\ Folds(fr, kind, base, r) /\ Folds(fb, kind, base, b)
          BY <4>1, <5>1
        <5> HIDE DEF b, fr, fb
        <5>3. \A q \in SUBSET (r \cap b) : fr[q] = fb[q]
          BY ONLY IsFiniteSet(S), <5>2, FoldsAgree
        <5>4. fr[b] = fb[b]
          BY <5>2, <5>3
        <5> QED BY <5>4 DEF b, fr, fb
      <4>4. h[r] = F(r)[r]
        BY <3>4
      <4> QED BY <3>2, <4>2, <4>3, <4>4
    <3> QED BY <3>3, <3>4
  <2>4. h[{}] = base
    <3>1. CASE s = {}
      BY <3>1
    <3>2. CASE s # {}
      <4>1. Folds(F({}), kind, base, {}) /\ {} \in SUBSET s
        BY <2>1, <3>2
      <4> QED BY <3>2, <4>1 DEF Folds
    <3> QED BY <3>1, <3>2
  <2>5. Folds(h, kind, base, s)
    <3>1. \A r \in SUBSET s :
             h[r] = IF r = {} THEN base ELSE FoldStep(kind, Picked(r), h[Below(r)])
      BY <2>3, <2>4
    <3>2. h = [r \in SUBSET s |-> h[r]]
      OBVIOUS
    <3> HIDE DEF h
    <3> QED BY <3>1, <3>2 DEF Folds
  <2> HIDE DEF h
  <2> QED BY <2>5
<1> HIDE DEF T
<1>2. \A s \in SUBSET S : (\A r \in SUBSET s : r # s => r \in T) => s \in T
  BY <1>1
<1>3. S \in T
  BY <1>2, SetInduction
<1> QED
  BY <1>3 DEF T

\* What a fold gives, read from its definition.
LEMMA RenderFolds ==
    ASSUME NEW S, IsFiniteSet(S), NEW s
    PROVE  \E f : /\ Folds(f, <<"render">>, s, S)
                  /\ FoldSet(LAMBDA d, acc : Render(acc, d[1], d[2]), s, S) = f[S]
<1> DEFINE g == CHOOSE f : f = [t \in SUBSET S |->
                   IF t = {} THEN s
                   ELSE Render(f[t \ {Picked(t)}], Picked(t)[1], Picked(t)[2])]
<1>1. \A x, acc : FoldStep(<<"render">>, x, acc) = Render(acc, x[1], x[2])
  BY DEF FoldStep
<1>2. \A f : Folds(f, <<"render">>, s, S) <=>
             f = [t \in SUBSET S |-> IF t = {} THEN s
                   ELSE Render(f[t \ {Picked(t)}], Picked(t)[1], Picked(t)[2])]
  BY <1>1 DEF Folds
<1>3. Folds(g, <<"render">>, s, S)
  BY <1>2, FoldsExist
<1>4. FoldSet(LAMBDA d, acc : Render(acc, d[1], d[2]), s, S) = g[S]
  BY DEF FoldSet, MapThenFoldSet, Picked
<1> QED BY <1>3, <1>4

LEMMA RefreshFolds ==
    ASSUME NEW S, IsFiniteSet(S), NEW s
    PROVE  \E f : /\ Folds(f, <<"refresh">>, s, S)
                  /\ FoldSet(LAMBDA d, acc : Refresh(acc, d[1], d[2]), s, S) = f[S]
<1> DEFINE g == CHOOSE f : f = [t \in SUBSET S |->
                   IF t = {} THEN s
                   ELSE Refresh(f[t \ {Picked(t)}], Picked(t)[1], Picked(t)[2])]
<1>1. \A x, acc : FoldStep(<<"refresh">>, x, acc) = Refresh(acc, x[1], x[2])
  BY DEF FoldStep
<1>2. \A f : Folds(f, <<"refresh">>, s, S) <=>
             f = [t \in SUBSET S |-> IF t = {} THEN s
                   ELSE Refresh(f[t \ {Picked(t)}], Picked(t)[1], Picked(t)[2])]
  BY <1>1 DEF Folds
<1>3. Folds(g, <<"refresh">>, s, S)
  BY <1>2, FoldsExist
<1>4. FoldSet(LAMBDA d, acc : Refresh(acc, d[1], d[2]), s, S) = g[S]
  BY DEF FoldSet, MapThenFoldSet, Picked
<1> QED BY <1>3, <1>4

LEMMA RemoveFolds ==
    ASSUME NEW S, IsFiniteSet(S), NEW scr
    PROVE  \E f : /\ Folds(f, <<"remove">>, scr, S)
                  /\ FoldSet(LAMBDA id, acc : RemoveObjective(acc, id), scr, S) = f[S]
<1> DEFINE g == CHOOSE f : f = [t \in SUBSET S |->
                   IF t = {} THEN scr ELSE RemoveObjective(f[t \ {Picked(t)}], Picked(t))]
<1>1. \A x, acc : FoldStep(<<"remove">>, x, acc) = RemoveObjective(acc, x)
  BY DEF FoldStep
<1>2. \A f : Folds(f, <<"remove">>, scr, S) <=>
             f = [t \in SUBSET S |->
                   IF t = {} THEN scr ELSE RemoveObjective(f[t \ {Picked(t)}], Picked(t))]
  BY <1>1 DEF Folds
<1>3. Folds(g, <<"remove">>, scr, S)
  BY <1>2, FoldsExist
<1>4. FoldSet(LAMBDA id, acc : RemoveObjective(acc, id), scr, S) = g[S]
  BY DEF FoldSet, MapThenFoldSet, Picked
<1> QED BY <1>3, <1>4

LEMMA CountFolds ==
    ASSUME NEW S, IsFiniteSet(S)
    PROVE  \E f : /\ Folds(f, <<"count">>, 0, S)
                  /\ FoldSet(LAMBDA d, n : n + Cardinality(Listed(d)), 0, S) = f[S]
<1> DEFINE g == CHOOSE f : f = [t \in SUBSET S |->
                   IF t = {} THEN 0 ELSE f[t \ {Picked(t)}] + Cardinality(Listed(Picked(t)))]
<1>1. \A x, acc : FoldStep(<<"count">>, x, acc) = acc + Cardinality(Listed(x))
  BY DEF FoldStep
<1>2. \A f : Folds(f, <<"count">>, 0, S) <=>
             f = [t \in SUBSET S |->
                   IF t = {} THEN 0 ELSE f[t \ {Picked(t)}] + Cardinality(Listed(Picked(t)))]
  BY <1>1 DEF Folds
<1>3. Folds(g, <<"count">>, 0, S)
  BY <1>2, FoldsExist
<1>4. FoldSet(LAMBDA d, n : n + Cardinality(Listed(d)), 0, S) = g[S]
  BY DEF FoldSet, MapThenFoldSet, Picked
<1> QED BY <1>3, <1>4

(***************************************************************************)
(* All the displays a packet concerns                                      *)
(***************************************************************************)
\* The displays of a board are finitely many: Bedrock has a slot for 19 positions.
LEMMA DisplaysFinite ==
    ASSUME NEW s, BoardKept(s)
    PROVE  IsFiniteSet({d \in Objectives \X DisplayPositions : IsShown(s, d[1], d[2])})
<1> DEFINE D == {d \in Objectives \X DisplayPositions : IsShown(s, d[1], d[2])}
           P == (DOMAIN s.objectives) \X (0..18)
<1>1. IsFiniteSet(0..18) /\ IsFiniteSet(DOMAIN s.objectives)
  <2>1. 0 \in Int /\ 18 \in Int
    OBVIOUS
  <2>2. IsFiniteSet(0..18)
    BY <2>1, FS_Interval
  <2> QED BY <2>2 DEF BoardKept, BoardShape
<1>2. IsFiniteSet(P)
  BY <1>1, FS_Product
<1>3. ASSUME NEW p \in DisplayPositions, Slot(p) # "none" PROVE p \in 0..18
  <2>1. p \in Nat
    BY ScoreboardAssumption
  <2> QED BY <1>3, <2>1 DEF Slot
<1>4. D \subseteq P
  BY <1>3 DEF IsShown, BoardKept, BoardShape
<1> QED BY <1>2, <1>4, FS_Subset

\* Redrawing display after display redraws them all, in whichever order.
LEMMA FoldRedraws ==
    ASSUME NEW s, BoardKept(s), NEW kind \in {"render", "refresh"}, NEW S, IsFiniteSet(S),
           S \subseteq {d \in Objectives \X DisplayPositions : IsShown(s, d[1], d[2])},
           NEW f, Folds(f, <<kind>>, s, S)
    PROVE  Redrawn(s, f[S], S, kind = "refresh")
<1> DEFINE T == {t \in SUBSET S : Redrawn(s, f[t], t, kind = "refresh")}
<1>1. ASSUME NEW t \in SUBSET S, \A r \in SUBSET t : r # t => r \in T
      PROVE  t \in T
  <2>1. CASE t = {}
    <3>1. f[t] = s
      BY <2>1 DEF Folds
    <3> QED BY <2>1, <3>1 DEF Redrawn, SameBoard
  <2>2. CASE t # {}
    <3> DEFINE d == Picked(t)
               u == t \ {d}
    <3>1. d \in t /\ u \in T
      BY <1>1, <2>2 DEF Picked
    <3>2. f[t] = FoldStep(<<kind>>, d, f[u])
      BY <2>2 DEF Folds
    <3>3. d \in Objectives \X DisplayPositions /\ IsShown(s, d[1], d[2])
          /\ d = <<d[1], d[2]>>
      BY <3>1
    <3> HIDE DEF d
    <3>4. Redrawn(s, f[u], u, kind = "refresh")
      BY <3>1
    <3>5. IsShown(f[u], d[1], d[2]) /\ BoardKept(f[u])
      BY <3>3, <3>4 DEF Redrawn, SameBoard, IsShown
    <3>6. Redrawn(f[u], f[t], {d}, kind = "refresh")
      <4>1. CASE kind = "render"
        <5>1. f[t] = Render(f[u], d[1], d[2])
          BY <3>2, <4>1 DEF FoldStep
        <5> QED BY <3>3, <3>5, <4>1, <5>1, RenderRedraws
      <4>2. CASE kind = "refresh"
        <5>1. f[t] = Refresh(f[u], d[1], d[2])
          BY <3>2, <4>2 DEF FoldStep
        <5> QED BY <3>3, <3>5, <4>2, <5>1, RefreshRedraws
      <4> QED BY <4>1, <4>2
    <3>7. BoardKept(f[t]) /\ SameBoard(s, f[t])
      BY <3>4, <3>6, ZenonT(60) DEF Redrawn, SameBoard
    <3>8. ASSUME NEW n \in Objectives, NEW p \in DisplayPositions, IsShown(s, n, p)
          PROVE  /\ Drawn(s, n, p) \/ <<n, p>> \in t => Drawn(f[t], n, p)
                 /\ Titled(s, n, p) \/ (kind = "refresh" /\ <<n, p>> \in t) => Titled(f[t], n, p)
      <4>1. IsShown(f[u], n, p)
        BY <3>4, <3>8 DEF Redrawn, SameBoard, IsShown
      <4>2. <<n, p>> \in t => <<n, p>> \in u \/ <<n, p>> \in {d}
        OBVIOUS
      <4> HIDE DEF u
      <4> QED BY <3>4, <3>6, <3>8, <4>1, <4>2 DEF Redrawn
    <3> QED BY <3>7, <3>8 DEF Redrawn
  <2> QED BY <2>1, <2>2
<1> HIDE DEF T
<1>2. \A t \in SUBSET S : (\A r \in SUBSET t : r # t => r \in T) => t \in T
  BY <1>1
<1>3. S \in T
  BY <1>2, SetInduction
<1> QED BY <1>3 DEF T

LEMMA RenderAllRedraws ==
    ASSUME NEW s, BoardKept(s), NEW names, names \subseteq Objectives
    PROVE  Redrawn(s, RenderAll(s, names), names \X DisplayPositions, FALSE)
<1> DEFINE S == DisplaysOf(s, names)
<1>1. S \subseteq {d \in Objectives \X DisplayPositions : IsShown(s, d[1], d[2])}
  BY DEF DisplaysOf
<1>2. IsFiniteSet(S)
  BY <1>1, DisplaysFinite, FS_Subset
<1> HIDE DEF S
<1>3. PICK f : Folds(f, <<"render">>, s, S)
               /\ FoldSet(LAMBDA d, acc : Render(acc, d[1], d[2]), s, S) = f[S]
  BY <1>2, RenderFolds
<1>4. RenderAll(s, names) = f[S]
  BY <1>3 DEF RenderAll, S
<1>5. Redrawn(s, f[S], S, "render" = "refresh")
  BY <1>1, <1>2, <1>3, FoldRedraws
<1>6. ASSUME NEW n \in Objectives, NEW p \in DisplayPositions, IsShown(s, n, p),
             <<n, p>> \in names \X DisplayPositions
      PROVE  <<n, p>> \in S
  BY <1>6 DEF S, DisplaysOf
<1> QED BY <1>4, <1>5, <1>6 DEF Redrawn

(***************************************************************************)
(* What the handlers make of a board before they draw                      *)
(***************************************************************************)
\* A board whose objectives got other titles or scores, or which knows more of them.
Reworded(s, r) ==
    /\ DOMAIN r = DOMAIN s /\ r.ids = s.ids /\ r.screen = s.screen
    /\ DOMAIN r.objectives \subseteq Objectives /\ IsFiniteSet(DOMAIN r.objectives)
    /\ DOMAIN s.objectives \subseteq DOMAIN r.objectives
    /\ \A n \in DOMAIN r.objectives :
          /\ DOMAIN r.objectives[n] = {"title", "scores", "active"}
          /\ DOMAIN r.objectives[n].scores \subseteq Owners
          /\ \A o \in DOMAIN r.objectives[n].scores :
                r.objectives[n].scores[o].value \in Int
          /\ n \in DOMAIN s.objectives => r.objectives[n].active = s.objectives[n].active
          /\ n \notin DOMAIN s.objectives => DOMAIN r.objectives[n].active = {}

LEMMA RewordedKept ==
    ASSUME NEW s, BoardKept(s), NEW r, Reworded(s, r)
    PROVE  /\ BoardKept(r)
           /\ \A n, p : IsShown(r, n, p) <=> IsShown(s, n, p)
           /\ \A n, p : IsShown(s, n, p) =>
                 /\ /\ Drawn(s, n, p) /\ r.teams = s.teams
                    /\ r.objectives[n].scores = s.objectives[n].scores
                    => Drawn(r, n, p)
                 /\ Titled(s, n, p) /\ r.objectives[n].title = s.objectives[n].title
                    => Titled(r, n, p)
<1>1. BoardShape(s) /\ BoardObjectives(s) /\ BoardLines(s)
  BY DEF BoardKept
<1>2. \A n, p : IsShown(r, n, p) <=> IsShown(s, n, p)
  BY DEF Reworded, IsShown
<1>3. \A n, p : IsShown(s, n, p) => DisplayIn(r, n, p) = DisplayIn(s, n, p)
  BY DEF Reworded, IsShown, DisplayIn
<1>4. r.ids = s.ids /\ r.screen = s.screen
  BY DEF Reworded
<1>5. BoardShape(r)
  BY <1>1 DEF Reworded, BoardShape, DisplayIn
<1>6. BoardObjectives(r)
  BY <1>1, <1>2, <1>3, <1>4 DEF BoardObjectives
<1>7. BoardLines(r)
  <2>1. ASSUME NEW n \in Objectives, NEW p \in DisplayPositions, IsShown(r, n, p),
               NEW o \in DOMAIN DisplayIn(r, n, p).rendered
        PROVE  LET line == DisplayIn(r, n, p).rendered[o]
               IN  /\ line.id \in Int /\ line.id < r.ids.entry
                   /\ line.objective = DisplayIn(r, n, p).id
                   /\ line.id \in DOMAIN r.screen.lines
                   /\ r.screen.lines[line.id] = line
    <3>1. IsShown(s, n, p) /\ DisplayIn(r, n, p) = DisplayIn(s, n, p)
      BY <1>2, <1>3, <2>1
    <3> QED BY <1>1, <1>4, <2>1, <3>1 DEF BoardLines
  <2>2. ASSUME NEW n \in Objectives, NEW p \in DisplayPositions, IsShown(r, n, p),
               NEW m \in Objectives, NEW q \in DisplayPositions, IsShown(r, m, q),
               NEW o \in DOMAIN DisplayIn(r, n, p).rendered,
               NEW u \in DOMAIN DisplayIn(r, m, q).rendered,
               DisplayIn(r, n, p).rendered[o].id = DisplayIn(r, m, q).rendered[u].id
        PROVE  n = m /\ p = q /\ o = u
    <3>1. /\ IsShown(s, n, p) /\ DisplayIn(r, n, p) = DisplayIn(s, n, p)
          /\ IsShown(s, m, q) /\ DisplayIn(r, m, q) = DisplayIn(s, m, q)
      BY <1>2, <1>3, <2>2
    <3> QED BY <1>1, <2>2, <3>1 DEF BoardLines
  <2>3. ASSUME NEW l \in DOMAIN r.screen.lines
        PROVE  \E n \in Objectives, p \in DisplayPositions :
                  /\ IsShown(r, n, p)
                  /\ \E o \in DOMAIN DisplayIn(r, n, p).rendered :
                        DisplayIn(r, n, p).rendered[o].id = l
    <3>1. PICK n \in Objectives, p \in DisplayPositions :
             /\ IsShown(s, n, p)
             /\ \E o \in DOMAIN DisplayIn(s, n, p).rendered :
                   DisplayIn(s, n, p).rendered[o].id = l
      BY <1>1, <1>4, <2>3 DEF BoardLines
    <3> QED BY <1>2, <1>3, <3>1
  <2> QED BY <2>1, <2>2, <2>3 DEF BoardLines
<1>8. ASSUME NEW n, NEW p, IsShown(s, n, p)
      PROVE  /\ /\ Drawn(s, n, p) /\ r.teams = s.teams
                /\ r.objectives[n].scores = s.objectives[n].scores
                => Drawn(r, n, p)
             /\ Titled(s, n, p) /\ r.objectives[n].title = s.objectives[n].title
                => Titled(r, n, p)
  <2>1. DisplayIn(r, n, p) = DisplayIn(s, n, p)
    BY <1>3, <1>8
  <2> QED BY <1>4, <2>1 DEF Drawn, Titled
<1> QED BY <1>2, <1>5, <1>6, <1>7, <1>8 DEF BoardKept

\* A handler ends with every display drawn if each was before or is one it draws.
LEMMA RedrawnWhole ==
    ASSUME NEW s, BoardKept(s), TeamsApart(s.teams), NEW r, NEW T, NEW titled \in BOOLEAN,
           Redrawn(s, r, T, titled),
           \A n \in Objectives, p \in DisplayPositions : IsShown(s, n, p) =>
              /\ Drawn(s, n, p) \/ <<n, p>> \in T
              /\ Titled(s, n, p) \/ (titled /\ <<n, p>> \in T)
    PROVE  BoardInv(r)
<1>1. BoardKept(r) /\ r.teams = s.teams
  BY DEF Redrawn, SameBoard
<1>2. \A n, p : IsShown(r, n, p) <=> IsShown(s, n, p)
  BY DEF Redrawn, SameBoard, IsShown
<1> QED BY <1>1, <1>2 DEF BoardInv, Redrawn

\* What is sent is what holds afterwards.
LEMMA FieldsDecide ==
    ASSUME NEW s, BoardInv(s), NEW r, DOMAIN r = DOMAIN s, r.objectives = s.objectives,
           r.teams = s.teams, r.ids = s.ids, r.screen = s.screen
    PROVE  BoardInv(r)
<1>1. BoardKept(s) /\ TeamsApart(s.teams)
  BY DEF BoardInv
<1>2. Reworded(s, r)
  BY <1>1 DEF Reworded, BoardKept, BoardShape
<1> QED BY <1>1, <1>2, RewordedKept DEF BoardInv

LEMMA SentHolds ==
    ASSUME NEW s, BoardInv(s), Sends(s)
    PROVE  BoardInv(Now)'
<1> DEFINE r == [objectives |-> objectives', teams |-> teams', ids |-> scoreIDs',
                 screen |-> screen']
<1>1. /\ DOMAIN r = DOMAIN s /\ r.objectives = s.objectives /\ r.teams = s.teams
      /\ r.ids = s.ids /\ r.screen = s.screen
  BY DEF Sends, BoardInv, BoardKept, BoardShape
<1> HIDE DEF r
<1>2. BoardInv(r)
  BY <1>1, FieldsDecide
<1> QED BY <1>2 DEF r, Now

(***************************************************************************)
(* The handlers of objectives and scores                                   *)
(***************************************************************************)
\* The packets that only change what an objective says: all its displays are redrawn.
LEMMA UpdateObjectiveKeeps ==
    ASSUME BoardInv(Now), NEW name \in Objectives, NEW title \in Titles,
           UpdateObjective(name, title)
    PROVE  BoardInv(Now)'
<1> DEFINE s == [Now EXCEPT !.objectives = [Known(name, title) EXCEPT ![name].title = title]]
           S == DisplaysOf(s, {name})
           r == FoldSet(LAMBDA d, acc : Refresh(acc, d[1], d[2]), s, S)
<1>1. BoardKept(Now) /\ TeamsApart(teams) /\ Now.objectives = objectives
      /\ DOMAIN Now = {"objectives", "teams", "ids", "screen"}
  BY DEF BoardInv, Now
<1>2. /\ DOMAIN s = DOMAIN Now /\ s.ids = Now.ids /\ s.screen = Now.screen
      /\ s.teams = Now.teams /\ Now.teams = teams
      /\ s.objectives = [Known(name, title) EXCEPT ![name].title = title]
  BY DEF Now
<1>3. Sends(r)
  BY DEF UpdateObjective
<1> HIDE DEF s, r
<1>4. /\ IsFiniteSet(DOMAIN objectives) /\ DOMAIN objectives \subseteq Objectives
      /\ \A n \in DOMAIN objectives :
            /\ DOMAIN objectives[n] = {"title", "scores", "active"}
            /\ DOMAIN objectives[n].scores \subseteq Owners
            /\ \A o \in DOMAIN objectives[n].scores : objectives[n].scores[o].value \in Int
  BY <1>1 DEF BoardKept, BoardShape
<1>5. IsFiniteSet(DOMAIN objectives \cup {name})
  BY <1>4, FS_AddElement
<1>6. /\ DOMAIN s.objectives = DOMAIN objectives \cup {name}
      /\ \A n \in DOMAIN objectives : n # name => s.objectives[n] = objectives[n]
      /\ name \in DOMAIN objectives =>
            s.objectives[name] = [objectives[name] EXCEPT !.title = title]
      /\ name \notin DOMAIN objectives =>
            s.objectives[name] = [title |-> title, scores |-> <<>>, active |-> <<>>]
  BY <1>2 DEF Known, Assign, NewObjective
<1>7. Reworded(Now, s)
  BY <1>1, <1>2, <1>4, <1>5, <1>6 DEF Reworded
<1>8. BoardKept(s)
  BY <1>1, <1>7, RewordedKept
<1>9. S \subseteq {d \in Objectives \X DisplayPositions : IsShown(s, d[1], d[2])}
  BY DEF DisplaysOf
<1>10. IsFiniteSet(S)
  BY <1>8, <1>9, DisplaysFinite, FS_Subset
<1>11. ASSUME NEW n \in Objectives, NEW p \in DisplayPositions, IsShown(s, n, p)
       PROVE  /\ Drawn(s, n, p) \/ <<n, p>> \in S
              /\ Titled(s, n, p) \/ <<n, p>> \in S
  <2>1. CASE n = name
    BY <1>11, <2>1 DEF DisplaysOf
  <2>2. CASE n # name
    <3>1. IsShown(Now, n, p) /\ Drawn(Now, n, p) /\ Titled(Now, n, p)
      BY <1>1, <1>7, <1>11, RewordedKept DEF BoardInv
    <3>2. s.objectives[n] = Now.objectives[n]
      BY <1>1, <1>6, <2>2, <3>1 DEF IsShown
    <3> QED BY <1>1, <1>2, <1>7, <3>1, <3>2, RewordedKept
  <2> QED BY <2>1, <2>2
<1> HIDE DEF S
<1>12. PICK f : Folds(f, <<"refresh">>, s, S)
                /\ FoldSet(LAMBDA d, acc : Refresh(acc, d[1], d[2]), s, S) = f[S]
  BY <1>10, RefreshFolds
<1>13. Redrawn(s, r, S, TRUE)
  <2>1. Redrawn(s, f[S], S, "refresh" = "refresh")
    BY <1>8, <1>9, <1>10, <1>12, FoldRedraws
  <2> QED BY <1>12, <2>1 DEF r
<1>14. BoardInv(r)
  <2>1. TeamsApart(s.teams)
    BY <1>1, <1>2
  <2> QED BY <1>8, <1>11, <1>13, <2>1, RedrawnWhole
<1> QED BY <1>3, <1>14, SentHolds

LEMMA ScoreKeeps ==
    ASSUME BoardInv(Now), NEW name \in Objectives, NEW owner \in Owners, NEW value \in Values,
           NEW display, Score(name, owner, value, display)
    PROVE  BoardInv(Now)'
<1> DEFINE score == [value |-> value, name |-> display]
           s == [Now EXCEPT !.objectives =
                    [Known(name, NoTitle) EXCEPT ![name].scores = Assign(@, owner, score)]]
           T == {name} \X DisplayPositions
<1>1. BoardKept(Now) /\ TeamsApart(teams) /\ Now.objectives = objectives
      /\ DOMAIN Now = {"objectives", "teams", "ids", "screen"}
  BY DEF BoardInv, Now
<1>2. /\ DOMAIN s = DOMAIN Now /\ s.ids = Now.ids /\ s.screen = Now.screen
      /\ s.teams = Now.teams /\ Now.teams = teams
      /\ s.objectives = [Known(name, NoTitle) EXCEPT ![name].scores = Assign(@, owner, score)]
  BY DEF Now
<1>3. Sends(RenderAll(s, {name}))
  BY DEF Score
<1> HIDE DEF s
<1>4. /\ IsFiniteSet(DOMAIN objectives) /\ DOMAIN objectives \subseteq Objectives
      /\ \A n \in DOMAIN objectives :
            /\ DOMAIN objectives[n] = {"title", "scores", "active"}
            /\ DOMAIN objectives[n].scores \subseteq Owners
            /\ \A o \in DOMAIN objectives[n].scores : objectives[n].scores[o].value \in Int
  BY <1>1 DEF BoardKept, BoardShape
<1>5. IsFiniteSet(DOMAIN objectives \cup {name}) /\ value \in Int
  BY <1>4, FS_AddElement, ScoreboardAssumption
<1>6. /\ DOMAIN s.objectives = DOMAIN objectives \cup {name}
      /\ \A n \in DOMAIN objectives : n # name => s.objectives[n] = objectives[n]
      /\ name \in DOMAIN objectives =>
            s.objectives[name] =
               [objectives[name] EXCEPT !.scores = Assign(@, owner, score)]
      /\ name \notin DOMAIN objectives =>
            s.objectives[name] = [title |-> NoTitle, scores |-> Assign(<<>>, owner, score),
                                  active |-> <<>>]
  BY <1>2 DEF Known, Assign, NewObjective
<1>7. Reworded(Now, s)
  <2>1. ASSUME NEW table, DOMAIN table \subseteq Owners,
               \A o \in DOMAIN table : table[o].value \in Int
        PROVE  /\ DOMAIN Assign(table, owner, score) \subseteq Owners
               /\ \A o \in DOMAIN Assign(table, owner, score) :
                     Assign(table, owner, score)[o].value \in Int
    BY <1>5, <2>1 DEF Assign
  <2>2. CASE name \in DOMAIN objectives
    <3>1. /\ s.objectives[name].scores = Assign(objectives[name].scores, owner, score)
          /\ s.objectives[name].active = objectives[name].active
          /\ DOMAIN s.objectives[name] = {"title", "scores", "active"}
      BY <1>4, <1>6, <2>2
    <3> HIDE DEF score
    <3>2. /\ DOMAIN s.objectives[name].scores \subseteq Owners
          /\ \A o \in DOMAIN s.objectives[name].scores :
                s.objectives[name].scores[o].value \in Int
      BY <1>4, <2>1, <2>2, <3>1
    <3> QED BY <1>1, <1>2, <1>4, <1>5, <1>6, <2>2, <3>1, <3>2 DEF Reworded
  <2>3. CASE name \notin DOMAIN objectives
    <3>1. /\ s.objectives[name].scores = Assign(<<>>, owner, score)
          /\ DOMAIN s.objectives[name].active = {}
          /\ DOMAIN s.objectives[name] = {"title", "scores", "active"}
      BY <1>6, <2>3
    <3> HIDE DEF score
    <3>2. /\ DOMAIN s.objectives[name].scores \subseteq Owners
          /\ \A o \in DOMAIN s.objectives[name].scores :
                s.objectives[name].scores[o].value \in Int
      <4>1. DOMAIN <<>> \subseteq Owners /\ \A o \in DOMAIN <<>> : <<>>[o].value \in Int
        OBVIOUS
      <4> QED BY <2>1, <3>1, <4>1
    <3> QED BY <1>1, <1>2, <1>4, <1>5, <1>6, <2>3, <3>1, <3>2 DEF Reworded
  <2> QED BY <2>2, <2>3
<1>8. BoardKept(s)
  BY <1>1, <1>7, RewordedKept
<1>9. ASSUME NEW n \in Objectives, NEW p \in DisplayPositions, IsShown(s, n, p)
      PROVE  /\ Drawn(s, n, p) \/ <<n, p>> \in T
             /\ Titled(s, n, p)
  <2>1. IsShown(Now, n, p) /\ Drawn(Now, n, p) /\ Titled(Now, n, p)
    BY <1>1, <1>7, <1>9, RewordedKept DEF BoardInv
  <2>2. n \in DOMAIN objectives
    BY <1>1, <2>1 DEF IsShown
  <2>3. s.objectives[n].title = Now.objectives[n].title
    BY <1>1, <1>4, <1>6, <2>2
  <2>4. CASE n = name
    BY <1>1, <1>7, <2>1, <2>3, <2>4, RewordedKept
  <2>5. CASE n # name
    <3>1. s.objectives[n] = Now.objectives[n]
      BY <1>1, <1>6, <2>2, <2>5
    <3> QED BY <1>1, <1>2, <1>7, <2>1, <3>1, RewordedKept
  <2> QED BY <2>4, <2>5
<1>10. Redrawn(s, RenderAll(s, {name}), T, FALSE)
  BY <1>8, RenderAllRedraws
<1>11. BoardInv(RenderAll(s, {name}))
  <2>1. TeamsApart(s.teams)
    BY <1>1, <1>2
  <2> HIDE DEF T
  <2> QED BY <1>8, <1>9, <1>10, <2>1, RedrawnWhole
<1> QED BY <1>3, <1>11, SentHolds

LEMMA ResetScoreKeeps ==
    ASSUME BoardInv(Now), NEW names \in SUBSET Objectives, NEW owner, ResetScore(names, owner)
    PROVE  BoardInv(Now)'
<1> DEFINE s == [Now EXCEPT !.objectives = [n \in DOMAIN objectives |->
                    IF n \in names THEN [objectives[n] EXCEPT !.scores = Removed(@, owner)]
                    ELSE objectives[n]]]
           T == names \X DisplayPositions
<1>1. BoardKept(Now) /\ TeamsApart(teams) /\ Now.objectives = objectives
      /\ DOMAIN Now = {"objectives", "teams", "ids", "screen"}
  BY DEF BoardInv, Now
<1>2. /\ DOMAIN s = DOMAIN Now /\ s.ids = Now.ids /\ s.screen = Now.screen
      /\ s.teams = Now.teams /\ Now.teams = teams
      /\ s.objectives = [n \in DOMAIN objectives |->
                    IF n \in names THEN [objectives[n] EXCEPT !.scores = Removed(@, owner)]
                    ELSE objectives[n]]
  BY DEF Now
<1>3. Sends(RenderAll(s, names))
  BY DEF ResetScore
<1> HIDE DEF s
<1>4. /\ IsFiniteSet(DOMAIN objectives) /\ DOMAIN objectives \subseteq Objectives
      /\ \A n \in DOMAIN objectives :
            /\ DOMAIN objectives[n] = {"title", "scores", "active"}
            /\ DOMAIN objectives[n].scores \subseteq Owners
            /\ \A o \in DOMAIN objectives[n].scores : objectives[n].scores[o].value \in Int
  BY <1>1 DEF BoardKept, BoardShape
<1>5. /\ DOMAIN s.objectives = DOMAIN objectives
      /\ \A n \in DOMAIN objectives :
            /\ n \notin names => s.objectives[n] = objectives[n]
            /\ n \in names => s.objectives[n] =
                  [objectives[n] EXCEPT !.scores = Removed(@, owner)]
  BY <1>2
<1>6. ASSUME NEW n \in DOMAIN objectives
      PROVE  /\ DOMAIN s.objectives[n] = {"title", "scores", "active"}
             /\ DOMAIN s.objectives[n].scores \subseteq Owners
             /\ \A o \in DOMAIN s.objectives[n].scores :
                   s.objectives[n].scores[o].value \in Int
             /\ s.objectives[n].active = objectives[n].active
             /\ s.objectives[n].title = objectives[n].title
  <2>1. CASE n \in names
    <3>1. /\ DOMAIN s.objectives[n] = {"title", "scores", "active"}
          /\ s.objectives[n].scores =
                [o \in DOMAIN objectives[n].scores \ {owner} |-> objectives[n].scores[o]]
          /\ s.objectives[n].active = objectives[n].active
          /\ s.objectives[n].title = objectives[n].title
      BY <1>4, <1>5, <1>6, <2>1 DEF Removed
    <3> QED BY <1>4, <1>6, <3>1
  <2>2. CASE n \notin names
    BY <1>4, <1>5, <1>6, <2>2
  <2> QED BY <2>1, <2>2
<1>7. Reworded(Now, s)
  BY <1>1, <1>2, <1>4, <1>5, <1>6 DEF Reworded
<1>8. BoardKept(s)
  BY <1>1, <1>7, RewordedKept
<1>9. ASSUME NEW n \in Objectives, NEW p \in DisplayPositions, IsShown(s, n, p)
      PROVE  /\ Drawn(s, n, p) \/ <<n, p>> \in T
             /\ Titled(s, n, p)
  <2>1. IsShown(Now, n, p) /\ Drawn(Now, n, p) /\ Titled(Now, n, p)
    BY <1>1, <1>7, <1>9, RewordedKept DEF BoardInv
  <2>2. n \in DOMAIN objectives
    BY <1>1, <2>1 DEF IsShown
  <2>3. s.objectives[n].title = Now.objectives[n].title
    BY <1>1, <1>6, <2>2
  <2>4. CASE n \in names
    BY <1>1, <1>7, <2>1, <2>3, <2>4, RewordedKept
  <2>5. CASE n \notin names
    <3>1. s.objectives[n] = Now.objectives[n]
      BY <1>1, <1>5, <2>2, <2>5
    <3> QED BY <1>1, <1>2, <1>7, <2>1, <3>1, RewordedKept
  <2> QED BY <2>4, <2>5
<1>10. Redrawn(s, RenderAll(s, names), T, FALSE)
  BY <1>8, RenderAllRedraws
<1>11. BoardInv(RenderAll(s, names))
  <2>1. TeamsApart(s.teams)
    BY <1>1, <1>2
  <2> HIDE DEF T
  <2> QED BY <1>8, <1>9, <1>10, <2>1, RedrawnWhole
<1> QED BY <1>3, <1>11, SentHolds

(***************************************************************************)
(* The handlers of teams                                                   *)
(***************************************************************************)
\* Joining one team leaves all others, so that an owner is in one at most.
LEMMA AddedApart ==
    ASSUME NEW all, TeamsApart(all), NEW team, NEW players
    PROVE  TeamsApart(AddTeamPlayers(all, team, players))
<1> DEFINE r == AddTeamPlayers(all, team, players)
<1>1. /\ DOMAIN r = DOMAIN all
      /\ \A t \in DOMAIN all :
            /\ DOMAIN r[t] = {"players", "affix"}
            /\ t = team => r[t].players = all[t].players \cup players
            /\ t # team => r[t].players = all[t].players \ players
  BY DEF AddTeamPlayers, TeamsApart
<1> HIDE DEF r
<1>2. ASSUME NEW t \in DOMAIN all, NEW u \in DOMAIN all, t # u
      PROVE  r[t].players \cap r[u].players = {}
  <2>1. all[t].players \cap all[u].players = {}
    BY <1>2 DEF TeamsApart
  <2> QED BY <1>1, <1>2, <2>1
<1> QED BY <1>1, <1>2 DEF TeamsApart, r

\* A team that is made, or made anew, is empty.
LEMMA NewTeamApart ==
    ASSUME NEW all, TeamsApart(all), NEW team, NEW affix
    PROVE  TeamsApart(Assign(all, team, NewTeam(affix)))
<1> DEFINE r == Assign(all, team, NewTeam(affix))
<1>1. /\ DOMAIN r = DOMAIN all \cup {team}
      /\ DOMAIN r[team] = {"players", "affix"} /\ r[team].players = {}
      /\ \A t \in DOMAIN all : t # team => r[t] = all[t]
  BY DEF Assign, NewTeam
<1> HIDE DEF r
<1> QED BY <1>1 DEF TeamsApart, r

\* With the teams changed and every display redrawn the screen is right again.
LEMMA RefreshesAllKeeps ==
    ASSUME BoardInv(Now), NEW all, TeamsApart(all), RefreshesAll(all)
    PROVE  BoardInv(Now)'
<1> DEFINE s == [Now EXCEPT !.teams = all]
           names == DOMAIN objectives
           T == names \X DisplayPositions
<1>1. BoardKept(Now) /\ Now.objectives = objectives
      /\ DOMAIN Now = {"objectives", "teams", "ids", "screen"}
  BY DEF BoardInv, Now
<1>2. /\ DOMAIN s = DOMAIN Now /\ s.ids = Now.ids /\ s.screen = Now.screen
      /\ s.teams = all /\ s.objectives = objectives
  BY DEF Now
<1>3. Sends(RenderAll(s, names))
  BY DEF RefreshesAll
<1> HIDE DEF s
<1>4. Reworded(Now, s) /\ names \subseteq Objectives
  BY <1>1, <1>2 DEF Reworded, BoardKept, BoardShape
<1>5. BoardKept(s)
  BY <1>1, <1>4, RewordedKept
<1>6. ASSUME NEW n \in Objectives, NEW p \in DisplayPositions, IsShown(s, n, p)
      PROVE  <<n, p>> \in T /\ Titled(s, n, p)
  <2>1. IsShown(Now, n, p) /\ Titled(Now, n, p)
    BY <1>1, <1>4, <1>6, RewordedKept DEF BoardInv
  <2>2. n \in DOMAIN objectives /\ s.objectives[n].title = Now.objectives[n].title
    BY <1>1, <1>2, <2>1 DEF IsShown
  <2> QED BY <1>1, <1>4, <2>1, <2>2, RewordedKept
<1>7. Redrawn(s, RenderAll(s, names), T, FALSE)
  BY <1>4, <1>5, RenderAllRedraws
<1>8. BoardInv(RenderAll(s, names))
  <2>1. TeamsApart(s.teams)
    BY <1>2
  <2> HIDE DEF T, names
  <2> QED BY <1>5, <1>6, <1>7, <2>1, RedrawnWhole
<1> QED BY <1>3, <1>8, SentHolds

LEMMA TeamPacketsKeep ==
    ASSUME BoardInv(Now), NEW team, NEW affix, NEW players,
           \/ CreateTeam(team, affix, players)
           \/ UpdateTeam(team, affix)
           \/ AddToTeam(team, players)
           \/ RemoveFromTeam(team, players)
           \/ RemoveTeam(team)
    PROVE  BoardInv(Now)'
<1>1. TeamsApart(teams)
  BY DEF BoardInv, Now
<1>2. TeamsApart(TeamKnown(team)) /\ team \in DOMAIN TeamKnown(team)
  <2>1. CASE team \in DOMAIN teams
    BY <1>1, <2>1 DEF TeamKnown
  <2>2. CASE team \notin DOMAIN teams
    <3>1. TeamKnown(team) = Assign(teams, team, NewTeam(NoAffix))
      BY <2>2 DEF TeamKnown
    <3>2. team \in DOMAIN Assign(teams, team, NewTeam(NoAffix))
      BY DEF Assign
    <3> QED BY <1>1, <3>1, <3>2, NewTeamApart
  <2> QED BY <2>1, <2>2
<1>3. CASE CreateTeam(team, affix, players)
  <2>1. TeamsApart(AddTeamPlayers(Assign(teams, team, NewTeam(affix)), team, players))
    BY <1>1, NewTeamApart, AddedApart
  <2> QED BY <1>3, <2>1, RefreshesAllKeeps DEF CreateTeam
<1>4. CASE UpdateTeam(team, affix)
  <2> DEFINE known == TeamKnown(team)
  <2> HIDE DEF known
  <2>1. TeamsApart(known)
    BY <1>2 DEF known
  <2>2. TeamsApart([known EXCEPT ![team].affix = affix])
    BY <2>1 DEF TeamsApart
  <2> QED BY <1>4, <2>2, RefreshesAllKeeps DEF UpdateTeam, known
<1>5. CASE AddToTeam(team, players)
  <2>1. TeamsApart(AddTeamPlayers(TeamKnown(team), team, players))
    BY <1>2, AddedApart
  <2> QED BY <1>5, <2>1, RefreshesAllKeeps DEF AddToTeam
<1>6. CASE RemoveFromTeam(team, players)
  <2> DEFINE r == [teams EXCEPT ![team].players = @ \ players]
  <2>1. /\ DOMAIN r = DOMAIN teams
        /\ \A t \in DOMAIN teams :
              DOMAIN r[t] = {"players", "affix"} /\ r[t].players \subseteq teams[t].players
    BY <1>1 DEF TeamsApart
  <2>2. TeamsApart(r)
    <3> HIDE DEF r
    <3>1. ASSUME NEW t \in DOMAIN teams, NEW u \in DOMAIN teams, t # u
          PROVE  r[t].players \cap r[u].players = {}
      <4>1. teams[t].players \cap teams[u].players = {}
        BY <1>1, <3>1 DEF TeamsApart
      <4> QED BY <2>1, <4>1
    <3> QED BY <2>1, <3>1 DEF TeamsApart
  <2> QED BY <1>6, <2>2, RefreshesAllKeeps DEF RemoveFromTeam
<1>7. CASE RemoveTeam(team)
  <2>1. TeamsApart(Removed(teams, team))
    BY <1>1 DEF TeamsApart, Removed
  <2> QED BY <1>7, <2>1, RefreshesAllKeeps DEF RemoveTeam
<1> QED BY <1>3, <1>4, <1>5, <1>6, <1>7

(***************************************************************************)
(* The handlers that take displays away, and the one that puts one up      *)
(***************************************************************************)
\* A screen after Bedrock objectives have been removed, in whichever order.
Without(scr, ids, r) ==
    /\ DOMAIN r = {"known", "shown", "lines"}
    /\ DOMAIN r.known = DOMAIN scr.known \ ids
    /\ \A i \in DOMAIN r.known : r.known[i] = scr.known[i]
    /\ DOMAIN r.lines = {l \in DOMAIN scr.lines : scr.lines[l].objective \notin ids}
    /\ \A l \in DOMAIN r.lines : r.lines[l] = scr.lines[l]

LEMMA FoldRemoves ==
    ASSUME NEW scr, DOMAIN scr = {"known", "shown", "lines"}, NEW S, IsFiniteSet(S),
           NEW f, Folds(f, <<"remove">>, scr, S)
    PROVE  Without(scr, S, f[S])
<1> DEFINE T == {t \in SUBSET S : Without(scr, t, f[t])}
<1>1. ASSUME NEW t \in SUBSET S, \A r \in SUBSET t : r # t => r \in T
      PROVE  t \in T
  <2>1. CASE t = {}
    <3>1. f[t] = scr
      BY <2>1 DEF Folds
    <3> QED BY <2>1, <3>1 DEF Without
  <2>2. CASE t # {}
    <3> DEFINE d == Picked(t)
               u == t \ {d}
    <3>1. d \in t /\ u \in T
      BY <1>1, <2>2 DEF Picked
    <3>2. f[t] = RemoveObjective(f[u], d)
      BY <2>2 DEF Folds, FoldStep
    <3> HIDE DEF d
    <3>3. Without(scr, u, f[u])
      BY <3>1
    <3>4. t = u \cup {d}
      BY <3>1
    <3> HIDE DEF u
    <3>5. /\ DOMAIN f[t] = {"known", "shown", "lines"}
          /\ DOMAIN f[t].known = DOMAIN f[u].known \ {d}
          /\ \A i \in DOMAIN f[t].known : f[t].known[i] = f[u].known[i]
          /\ DOMAIN f[t].lines = {l \in DOMAIN f[u].lines : f[u].lines[l].objective # d}
          /\ \A l \in DOMAIN f[t].lines : f[t].lines[l] = f[u].lines[l]
      BY <3>2 DEF RemoveObjective, Removed
    <3>6. /\ DOMAIN f[u].known = DOMAIN scr.known \ u
          /\ \A i \in DOMAIN f[u].known : f[u].known[i] = scr.known[i]
          /\ DOMAIN f[u].lines = {l \in DOMAIN scr.lines : scr.lines[l].objective \notin u}
          /\ \A l \in DOMAIN f[u].lines : f[u].lines[l] = scr.lines[l]
      BY <3>3 DEF Without
    <3>7. DOMAIN f[t].known = DOMAIN scr.known \ t
          /\ \A i \in DOMAIN f[t].known : f[t].known[i] = scr.known[i]
      BY <3>4, <3>5, <3>6
    <3>8. /\ DOMAIN f[t].lines = {l \in DOMAIN scr.lines : scr.lines[l].objective \notin t}
          /\ \A l \in DOMAIN f[t].lines : f[t].lines[l] = scr.lines[l]
      <4>1. \A l \in DOMAIN f[u].lines : f[u].lines[l].objective = scr.lines[l].objective
        BY <3>6
      <4>2. \A l : l \in DOMAIN f[t].lines <=>
                     l \in DOMAIN scr.lines /\ scr.lines[l].objective \notin t
        BY <3>4, <3>5, <3>6, <4>1
      <4> QED BY <3>5, <3>6, <4>2
    <3> QED BY <3>5, <3>7, <3>8 DEF Without
  <2> QED BY <2>1, <2>2
<1> HIDE DEF T
<1>2. \A t \in SUBSET S : (\A r \in SUBSET t : r # t => r \in T) => t \in T
  BY <1>1
<1>3. S \in T
  BY <1>2, SetInduction
<1> QED BY <1>3 DEF T

\* r is s with some displays closed: gone from their objectives, or gone with them,
\* and their Bedrock objectives from the screen.
Closed(s, r, ids) ==
    /\ DOMAIN r = DOMAIN s /\ r.ids = s.ids /\ r.teams = s.teams
    /\ DOMAIN r.objectives \subseteq DOMAIN s.objectives
    /\ \A n \in DOMAIN r.objectives :
          /\ DOMAIN r.objectives[n] = {"title", "scores", "active"}
          /\ r.objectives[n].title = s.objectives[n].title
          /\ r.objectives[n].scores = s.objectives[n].scores
          /\ DOMAIN r.objectives[n].active \subseteq DOMAIN s.objectives[n].active
          /\ \A p \in DOMAIN r.objectives[n].active :
                DisplayIn(r, n, p) = DisplayIn(s, n, p)
    /\ \A n \in Objectives, p \in DisplayPositions :
          IsShown(s, n, p) => (DisplayIn(s, n, p).id \in ids <=> ~IsShown(r, n, p))
    /\ Without(s.screen, ids, r.screen)

LEMMA ClosedKept ==
    ASSUME NEW s, BoardInv(s), NEW r, NEW ids, Closed(s, r, ids)
    PROVE  BoardInv(r)
<1>1. BoardShape(s) /\ BoardObjectives(s) /\ BoardLines(s)
  BY DEF BoardInv, BoardKept
<1>2. \A n, p : IsShown(r, n, p) => IsShown(s, n, p) /\ DisplayIn(r, n, p) = DisplayIn(s, n, p)
  BY DEF Closed, IsShown
<1>3. \A n \in Objectives, p \in DisplayPositions :
         IsShown(s, n, p) => (DisplayIn(s, n, p).id \in ids <=> ~IsShown(r, n, p))
  BY DEF Closed
<1>4. /\ r.ids = s.ids /\ r.teams = s.teams
      /\ DOMAIN r.screen = {"known", "shown", "lines"}
      /\ DOMAIN r.screen.known = DOMAIN s.screen.known \ ids
      /\ \A i \in DOMAIN r.screen.known : r.screen.known[i] = s.screen.known[i]
      /\ DOMAIN r.screen.lines =
            {l \in DOMAIN s.screen.lines : s.screen.lines[l].objective \notin ids}
      /\ \A l \in DOMAIN r.screen.lines : r.screen.lines[l] = s.screen.lines[l]
  BY DEF Closed, Without
<1>5. BoardShape(r)
  <2>1. IsFiniteSet(DOMAIN r.objectives)
    BY <1>1, FS_Subset DEF BoardShape, Closed
  <2> QED BY <1>1, <1>4, <2>1 DEF BoardShape, Closed, DisplayIn
<1>6. BoardObjectives(r)
  <2>1. ASSUME NEW n \in Objectives, NEW p \in DisplayPositions, IsShown(r, n, p)
        PROVE  /\ DisplayIn(r, n, p).id \in Int
               /\ DisplayIn(r, n, p).id < r.ids.objective
               /\ DisplayIn(r, n, p).slot = Slot(p)
               /\ DisplayIn(r, n, p).id \in DOMAIN r.screen.known
    <3>1. IsShown(s, n, p) /\ DisplayIn(r, n, p) = DisplayIn(s, n, p)
          /\ DisplayIn(s, n, p).id \notin ids
      BY <1>2, <1>3, <2>1
    <3> QED BY <1>1, <1>4, <3>1 DEF BoardObjectives
  <2>2. \A n, m \in Objectives, p, q \in DisplayPositions :
          /\ IsShown(r, n, p) /\ IsShown(r, m, q)
          /\ DisplayIn(r, n, p).id = DisplayIn(r, m, q).id
          => n = m /\ p = q
    BY <1>1, <1>2 DEF BoardObjectives
  <2>3. ASSUME NEW i \in DOMAIN r.screen.known
        PROVE  \E n \in Objectives, p \in DisplayPositions :
                  IsShown(r, n, p) /\ DisplayIn(r, n, p).id = i
    <3>1. i \in DOMAIN s.screen.known /\ i \notin ids
      BY <1>4, <2>3
    <3>2. PICK n \in Objectives, p \in DisplayPositions :
             IsShown(s, n, p) /\ DisplayIn(s, n, p).id = i
      BY <1>1, <3>1 DEF BoardObjectives
    <3>3. IsShown(r, n, p)
      BY <1>3, <3>1, <3>2
    <3> QED BY <1>2, <3>2, <3>3
  <2> QED BY <2>1, <2>2, <2>3 DEF BoardObjectives
<1>7. BoardLines(r)
  <2>1. ASSUME NEW n \in Objectives, NEW p \in DisplayPositions, IsShown(r, n, p),
               NEW o \in DOMAIN DisplayIn(r, n, p).rendered
        PROVE  LET line == DisplayIn(r, n, p).rendered[o]
               IN  /\ line.id \in Int /\ line.id < r.ids.entry
                   /\ line.objective = DisplayIn(r, n, p).id
                   /\ line.id \in DOMAIN r.screen.lines
                   /\ r.screen.lines[line.id] = line
    <3>1. IsShown(s, n, p) /\ DisplayIn(r, n, p) = DisplayIn(s, n, p)
          /\ DisplayIn(s, n, p).id \notin ids
      BY <1>2, <1>3, <2>1
    <3>2. LET line == DisplayIn(s, n, p).rendered[o]
          IN  /\ line.id \in Int /\ line.id < s.ids.entry
              /\ line.objective = DisplayIn(s, n, p).id
              /\ line.id \in DOMAIN s.screen.lines
              /\ s.screen.lines[line.id] = line
      BY <1>1, <2>1, <3>1 DEF BoardLines
    <3>3. DisplayIn(s, n, p).rendered[o].id \in DOMAIN r.screen.lines
      BY <1>4, <3>1, <3>2
    <3> QED BY <1>4, <3>1, <3>2, <3>3
  <2>2. ASSUME NEW n \in Objectives, NEW p \in DisplayPositions, IsShown(r, n, p),
               NEW m \in Objectives, NEW q \in DisplayPositions, IsShown(r, m, q),
               NEW o \in DOMAIN DisplayIn(r, n, p).rendered,
               NEW u \in DOMAIN DisplayIn(r, m, q).rendered,
               DisplayIn(r, n, p).rendered[o].id = DisplayIn(r, m, q).rendered[u].id
        PROVE  n = m /\ p = q /\ o = u
    <3>1. /\ IsShown(s, n, p) /\ DisplayIn(r, n, p) = DisplayIn(s, n, p)
          /\ IsShown(s, m, q) /\ DisplayIn(r, m, q) = DisplayIn(s, m, q)
      BY <1>2, <2>2
    <3> QED BY <1>1, <2>2, <3>1 DEF BoardLines
  <2>3. ASSUME NEW l \in DOMAIN r.screen.lines
        PROVE  \E n \in Objectives, p \in DisplayPositions :
                  /\ IsShown(r, n, p)
                  /\ \E o \in DOMAIN DisplayIn(r, n, p).rendered :
                        DisplayIn(r, n, p).rendered[o].id = l
    <3>1. l \in DOMAIN s.screen.lines /\ s.screen.lines[l].objective \notin ids
      BY <1>4, <2>3
    <3>2. PICK n \in Objectives, p \in DisplayPositions :
             /\ IsShown(s, n, p)
             /\ \E o \in DOMAIN DisplayIn(s, n, p).rendered :
                   DisplayIn(s, n, p).rendered[o].id = l
      BY <1>1, <3>1 DEF BoardLines
    <3>3. s.screen.lines[l].objective = DisplayIn(s, n, p).id
      BY <1>1, <3>2 DEF BoardLines
    <3>4. IsShown(r, n, p)
      BY <1>3, <3>1, <3>2, <3>3
    <3> QED BY <1>2, <3>2, <3>4
  <2> QED BY <2>1, <2>2, <2>3 DEF BoardLines
<1>8. ASSUME NEW n \in Objectives, NEW p \in DisplayPositions, IsShown(r, n, p)
      PROVE  Titled(r, n, p) /\ Drawn(r, n, p)
  <2>1. /\ IsShown(s, n, p) /\ DisplayIn(r, n, p) = DisplayIn(s, n, p)
        /\ r.objectives[n].title = s.objectives[n].title
        /\ r.objectives[n].scores = s.objectives[n].scores
    BY <1>2, <1>8 DEF Closed, IsShown
  <2>2. Titled(s, n, p) /\ Drawn(s, n, p)
    BY <2>1 DEF BoardInv
  <2>3. r.screen.known[DisplayIn(r, n, p).id] = s.screen.known[DisplayIn(r, n, p).id]
    BY <1>4, <1>6, <1>8 DEF BoardObjectives
  <2>4. Titled(r, n, p)
    BY <2>1, <2>2, <2>3 DEF Titled
  <2>5. Drawn(r, n, p)
    BY <1>4, <2>1, <2>2 DEF Drawn
  <2> QED BY <2>4, <2>5
<1> QED BY <1>4, <1>5, <1>6, <1>7, <1>8 DEF BoardInv, BoardKept

\* Closing displays at once, as both handlers do.
LEMMA CloseKeeps ==
    ASSUME BoardInv(Now), NEW r, NEW ids, IsFiniteSet(ids), Sends(r),
           r.screen = FoldSet(LAMBDA id, scr : RemoveObjective(scr, id), screen, ids),
           ASSUME Without(screen, ids, r.screen) PROVE Closed(Now, r, ids)
    PROVE  BoardInv(Now)'
<1>1. DOMAIN screen = {"known", "shown", "lines"}
  BY DEF BoardInv, BoardKept, BoardShape, Now
<1>2. PICK f : Folds(f, <<"remove">>, screen, ids)
               /\ FoldSet(LAMBDA id, acc : RemoveObjective(acc, id), screen, ids) = f[ids]
  BY RemoveFolds
<1>3. Without(screen, ids, r.screen)
  BY <1>1, <1>2, FoldRemoves
<1> QED BY <1>3, ClosedKept, SentHolds

LEMMA ValuesFinite ==
    ASSUME NEW f, IsFiniteSet(DOMAIN f)
    PROVE  IsFiniteSet({f[x] : x \in DOMAIN f})
<1> DEFINE V == {f[x] : x \in DOMAIN f}
           g == [x \in DOMAIN f |-> f[x]]
<1>1. g \in Surjection(DOMAIN f, V)
  BY DEF Surjection
<1> QED BY <1>1, FS_Surjection

LEMMA ActiveFinite ==
    ASSUME NEW s, BoardKept(s), NEW n \in DOMAIN s.objectives
    PROVE  IsFiniteSet(DOMAIN s.objectives[n].active)
<1>1. 0 \in Int /\ 18 \in Int
  OBVIOUS
<1>2. IsFiniteSet(0..18)
  BY <1>1, FS_Interval
<1>3. ASSUME NEW p \in DOMAIN s.objectives[n].active PROVE p \in 0..18
  <2>1. p \in Nat /\ Slot(p) # "none"
    BY <1>3, ScoreboardAssumption DEF BoardKept, BoardShape
  <2> QED BY <2>1 DEF Slot
<1> QED BY <1>2, <1>3, FS_Subset

\* An objective that goes takes the Bedrock objectives of all its displays with it.
LEMMA RemoveJavaObjectiveKeeps ==
    ASSUME BoardInv(Now), NEW name \in Objectives, RemoveJavaObjective(name)
    PROVE  BoardInv(Now)'
<1> DEFINE active == objectives[name].active
           ids == {active[p].id : p \in DOMAIN active}
           r == [Now EXCEPT
                    !.objectives = Removed(@, name),
                    !.screen = FoldSet(LAMBDA id, scr : RemoveObjective(scr, id), @, ids)]
<1>1. name \in DOMAIN objectives /\ Sends(r)
  BY DEF RemoveJavaObjective
<1>2. /\ DOMAIN r = DOMAIN Now /\ r.ids = Now.ids /\ r.teams = Now.teams
      /\ r.objectives = Removed(objectives, name)
      /\ r.screen = FoldSet(LAMBDA id, scr : RemoveObjective(scr, id), screen, ids)
      /\ Now.objectives = objectives /\ Now.screen = screen
  BY DEF Now
<1> HIDE DEF r
<1>3. BoardKept(Now) /\ BoardShape(Now) /\ BoardObjectives(Now)
  BY DEF BoardInv, BoardKept
<1>4. IsFiniteSet(ids)
  <2> DEFINE g == [p \in DOMAIN active |-> active[p].id]
  <2>1. IsFiniteSet(DOMAIN g)
    BY <1>1, <1>2, <1>3, ActiveFinite
  <2>2. ids = {g[p] : p \in DOMAIN g}
    OBVIOUS
  <2> HIDE DEF g, ids
  <2> QED BY <2>1, <2>2, ValuesFinite
<1>5. /\ DOMAIN r.objectives = DOMAIN objectives \ {name}
      /\ \A n \in DOMAIN r.objectives : r.objectives[n] = objectives[n]
  BY <1>2 DEF Removed
<1>6. \A n \in Objectives, p \in DisplayPositions :
         IsShown(Now, n, p) => (DisplayIn(Now, n, p).id \in ids <=> ~IsShown(r, n, p))
  <2>1. ASSUME NEW n \in Objectives, NEW p \in DisplayPositions, IsShown(Now, n, p)
        PROVE  DisplayIn(Now, n, p).id \in ids <=> ~IsShown(r, n, p)
    <3>1. IsShown(r, n, p) <=> n # name
      BY <1>2, <1>5, <2>1 DEF IsShown
    <3>2. CASE n = name
      <4>1. DisplayIn(Now, n, p) = active[p] /\ p \in DOMAIN active
        BY <1>2, <2>1, <3>2 DEF DisplayIn, IsShown
      <4> QED BY <3>1, <3>2, <4>1
    <3>3. CASE n # name
      <4>1. ASSUME NEW q \in DOMAIN active PROVE active[q].id # DisplayIn(Now, n, p).id
        <5>1. IsShown(Now, name, q) /\ q \in DisplayPositions
              /\ DisplayIn(Now, name, q) = active[q]
          BY <1>1, <1>2, <1>3, <4>1 DEF IsShown, DisplayIn, BoardShape
        <5> HIDE DEF active
        <5> QED BY <1>3, <2>1, <3>3, <5>1 DEF BoardObjectives
      <4> QED BY <3>1, <3>3, <4>1
    <3> QED BY <3>2, <3>3
  <2> QED BY <2>1
<1> HIDE DEF ids
<1>7. ASSUME Without(screen, ids, r.screen) PROVE Closed(Now, r, ids)
  BY <1>2, <1>3, <1>5, <1>6, <1>7 DEF Closed, BoardShape, DisplayIn
<1> QED BY <1>1, <1>2, <1>4, <1>7, CloseKeeps

\* A position that is cleared is cleared in every objective.
LEMMA ClearDisplayKeeps ==
    ASSUME BoardInv(Now), NEW position \in DisplayPositions, ClearDisplay(position)
    PROVE  BoardInv(Now)'
<1> DEFINE cleared == {n \in DOMAIN objectives : position \in DOMAIN objectives[n].active}
           ids == {objectives[n].active[position].id : n \in cleared}
           r == [Now EXCEPT
                    !.objectives = [n \in DOMAIN objectives |->
                        [objectives[n] EXCEPT !.active = Removed(@, position)]],
                    !.screen = FoldSet(LAMBDA id, scr : RemoveObjective(scr, id), @, ids)]
<1>1. Sends(r)
  BY DEF ClearDisplay
<1>2. /\ DOMAIN r = DOMAIN Now /\ r.ids = Now.ids /\ r.teams = Now.teams
      /\ r.objectives = [n \in DOMAIN objectives |->
                            [objectives[n] EXCEPT !.active = Removed(@, position)]]
      /\ r.screen = FoldSet(LAMBDA id, scr : RemoveObjective(scr, id), screen, ids)
      /\ Now.objectives = objectives /\ Now.screen = screen
  BY DEF Now
<1> HIDE DEF r
<1>3. BoardKept(Now) /\ BoardShape(Now) /\ BoardObjectives(Now)
  BY DEF BoardInv, BoardKept
<1>4. IsFiniteSet(ids)
  <2> DEFINE g == [n \in cleared |-> objectives[n].active[position].id]
  <2>1. IsFiniteSet(DOMAIN g)
    BY <1>2, <1>3, FS_Subset DEF BoardShape
  <2>2. ids = {g[p] : p \in DOMAIN g}
    OBVIOUS
  <2> HIDE DEF g, ids
  <2> QED BY <2>1, <2>2, ValuesFinite
<1>5. /\ DOMAIN r.objectives = DOMAIN objectives
      /\ \A n \in DOMAIN objectives :
            /\ DOMAIN r.objectives[n] = {"title", "scores", "active"}
            /\ r.objectives[n].title = objectives[n].title
            /\ r.objectives[n].scores = objectives[n].scores
            /\ DOMAIN r.objectives[n].active = DOMAIN objectives[n].active \ {position}
            /\ \A p \in DOMAIN r.objectives[n].active :
                  r.objectives[n].active[p] = objectives[n].active[p]
  <2>1. ASSUME NEW n \in DOMAIN objectives
        PROVE  /\ DOMAIN r.objectives[n] = {"title", "scores", "active"}
               /\ r.objectives[n].title = objectives[n].title
               /\ r.objectives[n].scores = objectives[n].scores
               /\ r.objectives[n].active = Removed(objectives[n].active, position)
    <3>1. DOMAIN objectives[n] = {"title", "scores", "active"}
      BY <1>2, <1>3, <2>1 DEF BoardShape
    <3>2. r.objectives[n] = [objectives[n] EXCEPT !.active = Removed(@, position)]
      BY <1>2, <2>1
    <3> QED BY <3>1, <3>2
  <2>2. DOMAIN r.objectives = DOMAIN objectives
    BY <1>2
  <2> QED BY <2>1, <2>2 DEF Removed
<1>6. \A n \in Objectives, p \in DisplayPositions :
         IsShown(Now, n, p) => (DisplayIn(Now, n, p).id \in ids <=> ~IsShown(r, n, p))
  <2>1. ASSUME NEW n \in Objectives, NEW p \in DisplayPositions, IsShown(Now, n, p)
        PROVE  DisplayIn(Now, n, p).id \in ids <=> ~IsShown(r, n, p)
    <3>1. IsShown(r, n, p) <=> p # position
      <4>1. n \in DOMAIN objectives /\ p \in DOMAIN objectives[n].active
        BY <1>2, <2>1 DEF IsShown
      <4>2. IsShown(r, n, p) <=> p \in DOMAIN r.objectives[n].active
        BY <1>5, <4>1 DEF IsShown
      <4> QED BY <1>5, <4>1, <4>2
    <3>2. CASE p = position
      <4>1. DisplayIn(Now, n, p) = objectives[n].active[position] /\ n \in cleared
        BY <1>2, <2>1, <3>2 DEF DisplayIn, IsShown
      <4> QED BY <3>1, <3>2, <4>1
    <3>3. CASE p # position
      <4>1. ASSUME NEW m \in cleared
            PROVE  objectives[m].active[position].id # DisplayIn(Now, n, p).id
        <5>1. IsShown(Now, m, position) /\ m \in Objectives
              /\ DisplayIn(Now, m, position) = objectives[m].active[position]
          BY <1>2, <1>3, <4>1 DEF IsShown, DisplayIn, BoardShape
        <5> QED BY <1>3, <2>1, <3>3, <5>1 DEF BoardObjectives
      <4> QED BY <3>1, <3>3, <4>1
    <3> QED BY <3>2, <3>3
  <2> QED BY <2>1
<1> HIDE DEF ids
<1>7. ASSUME Without(screen, ids, r.screen) PROVE Closed(Now, r, ids)
  <2>1. ASSUME NEW n \in DOMAIN r.objectives
        PROVE  /\ DOMAIN r.objectives[n] = {"title", "scores", "active"}
               /\ r.objectives[n].title = Now.objectives[n].title
               /\ r.objectives[n].scores = Now.objectives[n].scores
               /\ DOMAIN r.objectives[n].active \subseteq DOMAIN Now.objectives[n].active
               /\ \A p \in DOMAIN r.objectives[n].active :
                     DisplayIn(r, n, p) = DisplayIn(Now, n, p)
    BY <1>2, <1>5, <2>1, ZenonT(60) DEF DisplayIn
  <2>2. DOMAIN r.objectives \subseteq DOMAIN Now.objectives
    BY <1>2, <1>5
  <2> QED BY <1>2, <1>6, <1>7, <2>1, <2>2 DEF Closed
<1> QED BY <1>1, <1>2, <1>4, <1>7, CloseKeeps

\* r is s with one display more, that has no lines yet.
Opened(s, r, name, position) ==
    /\ DOMAIN r = DOMAIN s /\ r.teams = s.teams
    /\ DOMAIN r.ids = DOMAIN s.ids /\ r.ids.entry = s.ids.entry
    /\ r.ids.objective = s.ids.objective + 1
    /\ DOMAIN r.objectives = DOMAIN s.objectives
    /\ \A n \in DOMAIN s.objectives :
          /\ DOMAIN r.objectives[n] = {"title", "scores", "active"}
          /\ r.objectives[n].title = s.objectives[n].title
          /\ r.objectives[n].scores = s.objectives[n].scores
          /\ DOMAIN r.objectives[n].active =
                DOMAIN s.objectives[n].active \cup (IF n = name THEN {position} ELSE {})
          /\ \A p \in DOMAIN s.objectives[n].active : DisplayIn(r, n, p) = DisplayIn(s, n, p)
    /\ DisplayIn(r, name, position) =
          [id |-> s.ids.objective, slot |-> Slot(position), rendered |-> <<>>]
    /\ DOMAIN r.screen = {"known", "shown", "lines"}
    /\ r.screen.known = Assign(s.screen.known, s.ids.objective,
                               [slot |-> Slot(position), title |-> s.objectives[name].title])
    /\ r.screen.lines = s.screen.lines

LEMMA OpenedKept ==
    ASSUME NEW s, BoardInv(s), NEW name \in DOMAIN s.objectives,
           NEW position \in DisplayPositions, Slot(position) # "none",
           ~IsShown(s, name, position), NEW r, Opened(s, r, name, position)
    PROVE  /\ BoardKept(r) /\ TeamsApart(r.teams) /\ IsShown(r, name, position)
           /\ \A n \in Objectives, p \in DisplayPositions : IsShown(r, n, p) =>
                 /\ Titled(r, n, p)
                 /\ Drawn(r, n, p) \/ (n = name /\ p = position)
<1>1. BoardShape(s) /\ BoardObjectives(s) /\ BoardLines(s) /\ name \in Objectives
  BY DEF BoardInv, BoardKept, BoardShape
<1>2. /\ \A n, p : IsShown(r, n, p) /\ ~(n = name /\ p = position) => IsShown(s, n, p)
      /\ \A n, p : IsShown(s, n, p) => IsShown(r, n, p) /\ DisplayIn(r, n, p) = DisplayIn(s, n, p)
      /\ IsShown(r, name, position)
  BY DEF Opened, IsShown
<1> DEFINE new == s.ids.objective
<1>3. /\ DisplayIn(r, name, position) =
            [id |-> new, slot |-> Slot(position), rendered |-> <<>>]
      /\ DisplayIn(r, name, position).id = new
      /\ DisplayIn(r, name, position).slot = Slot(position)
      /\ DOMAIN DisplayIn(r, name, position).rendered = {}
      /\ DOMAIN DisplayIn(r, name, position) = {"id", "slot", "rendered"}
  BY DEF Opened
<1>4. /\ r.ids.entry = s.ids.entry /\ r.ids.objective = new + 1 /\ r.teams = s.teams
      /\ r.screen.lines = s.screen.lines
      /\ DOMAIN r.screen.known = DOMAIN s.screen.known \cup {new}
      /\ r.screen.known[new] = [slot |-> Slot(position), title |-> s.objectives[name].title]
      /\ \A i \in DOMAIN s.screen.known : i # new => r.screen.known[i] = s.screen.known[i]
  BY DEF Opened, Assign
<1>5. new \in Int
  BY <1>1 DEF BoardShape
<1>6. \A n \in Objectives, p \in DisplayPositions : IsShown(s, n, p) =>
         /\ DisplayIn(s, n, p).id \in Int /\ DisplayIn(s, n, p).id < new
         /\ DisplayIn(s, n, p).slot = Slot(p)
         /\ DisplayIn(s, n, p).id \in DOMAIN s.screen.known
  BY <1>1 DEF BoardObjectives
<1> HIDE DEF new
<1>7. BoardShape(r)
  <2>1. ASSUME NEW n \in DOMAIN r.objectives
        PROVE  /\ DOMAIN r.objectives[n] = {"title", "scores", "active"}
               /\ DOMAIN r.objectives[n].scores \subseteq Owners
               /\ \A o \in DOMAIN r.objectives[n].scores :
                     r.objectives[n].scores[o].value \in Int
               /\ DOMAIN r.objectives[n].active \subseteq
                     {p \in DisplayPositions : Slot(p) # "none"}
    BY <1>1, <2>1 DEF Opened, BoardShape
  <2>2. ASSUME NEW n \in DOMAIN r.objectives, NEW p \in DOMAIN r.objectives[n].active
        PROVE  DOMAIN DisplayIn(r, n, p) = {"id", "slot", "rendered"}
    <3>1. CASE n = name /\ p = position
      BY <1>3, <3>1
    <3>2. CASE ~(n = name /\ p = position)
      <4>1. IsShown(r, n, p)
        BY <2>2 DEF IsShown
      <4>2. IsShown(s, n, p) /\ DisplayIn(r, n, p) = DisplayIn(s, n, p)
        BY <1>2, <3>2, <4>1
      <4> QED BY <1>1, <4>2 DEF BoardShape, IsShown
    <3> QED BY <3>1, <3>2
  <2>3. /\ DOMAIN r = {"objectives", "teams", "ids", "screen"}
        /\ DOMAIN r.ids = {"objective", "entry"}
        /\ r.ids.objective \in Int /\ r.ids.entry \in Int
        /\ DOMAIN r.screen = {"known", "shown", "lines"}
        /\ DOMAIN r.objectives \subseteq Objectives /\ IsFiniteSet(DOMAIN r.objectives)
    BY <1>1, <1>4, <1>5 DEF Opened, BoardShape
  <2> QED BY <2>1, <2>2, <2>3 DEF BoardShape
<1>8. BoardObjectives(r)
  <2>1. ASSUME NEW n \in Objectives, NEW p \in DisplayPositions, IsShown(r, n, p)
        PROVE  /\ DisplayIn(r, n, p).id \in Int
               /\ DisplayIn(r, n, p).id < r.ids.objective
               /\ DisplayIn(r, n, p).slot = Slot(p)
               /\ DisplayIn(r, n, p).id \in DOMAIN r.screen.known
    <3>1. CASE n = name /\ p = position
      BY <1>3, <1>4, <1>5, <3>1
    <3>2. CASE ~(n = name /\ p = position)
      <4>1. IsShown(s, n, p) /\ DisplayIn(r, n, p) = DisplayIn(s, n, p)
        BY <1>2, <2>1, <3>2
      <4> QED BY <1>4, <1>5, <1>6, <4>1
    <3> QED BY <3>1, <3>2
  <2>2. ASSUME NEW n \in Objectives, NEW p \in DisplayPositions, IsShown(r, n, p),
               NEW m \in Objectives, NEW q \in DisplayPositions, IsShown(r, m, q),
               DisplayIn(r, n, p).id = DisplayIn(r, m, q).id
        PROVE  n = m /\ p = q
    <3>1. CASE n = name /\ p = position /\ m = name /\ q = position
      BY <3>1
    <3>2. CASE n = name /\ p = position /\ ~(m = name /\ q = position)
      BY <1>2, <1>3, <1>5, <1>6, <2>2, <3>2
    <3>3. CASE ~(n = name /\ p = position) /\ m = name /\ q = position
      BY <1>2, <1>3, <1>5, <1>6, <2>2, <3>3
    <3>4. CASE ~(n = name /\ p = position) /\ ~(m = name /\ q = position)
      BY <1>1, <1>2, <2>2, <3>4 DEF BoardObjectives
    <3> QED BY <3>1, <3>2, <3>3, <3>4
  <2>3. ASSUME NEW i \in DOMAIN r.screen.known
        PROVE  \E n \in Objectives, p \in DisplayPositions :
                  IsShown(r, n, p) /\ DisplayIn(r, n, p).id = i
    <3>1. CASE i = new
      BY <1>1, <1>2, <1>3, <3>1
    <3>2. CASE i # new
      <4>1. PICK n \in Objectives, p \in DisplayPositions :
               IsShown(s, n, p) /\ DisplayIn(s, n, p).id = i
        BY <1>1, <1>4, <2>3, <3>2 DEF BoardObjectives
      <4> QED BY <1>2, <4>1
    <3> QED BY <3>1, <3>2
  <2> QED BY <2>1, <2>2, <2>3 DEF BoardObjectives
<1>9. BoardLines(r)
  <2>1. ASSUME NEW n, NEW p, IsShown(r, n, p), NEW o \in DOMAIN DisplayIn(r, n, p).rendered
        PROVE  IsShown(s, n, p) /\ DisplayIn(r, n, p) = DisplayIn(s, n, p)
    BY <1>2, <1>3, <2>1
  <2>2. ASSUME NEW n \in Objectives, NEW p \in DisplayPositions, IsShown(r, n, p),
               NEW o \in DOMAIN DisplayIn(r, n, p).rendered
        PROVE  LET line == DisplayIn(r, n, p).rendered[o]
               IN  /\ line.id \in Int /\ line.id < r.ids.entry
                   /\ line.objective = DisplayIn(r, n, p).id
                   /\ line.id \in DOMAIN r.screen.lines
                   /\ r.screen.lines[line.id] = line
    <3>1. IsShown(s, n, p) /\ DisplayIn(r, n, p) = DisplayIn(s, n, p)
      BY <2>1, <2>2
    <3> QED BY <1>1, <1>4, <2>2, <3>1 DEF BoardLines
  <2>3. ASSUME NEW n \in Objectives, NEW p \in DisplayPositions, IsShown(r, n, p),
               NEW m \in Objectives, NEW q \in DisplayPositions, IsShown(r, m, q),
               NEW o \in DOMAIN DisplayIn(r, n, p).rendered,
               NEW u \in DOMAIN DisplayIn(r, m, q).rendered,
               DisplayIn(r, n, p).rendered[o].id = DisplayIn(r, m, q).rendered[u].id
        PROVE  n = m /\ p = q /\ o = u
    <3>1. /\ IsShown(s, n, p) /\ DisplayIn(r, n, p) = DisplayIn(s, n, p)
          /\ IsShown(s, m, q) /\ DisplayIn(r, m, q) = DisplayIn(s, m, q)
      BY <2>1, <2>3
    <3> QED BY <1>1, <2>3, <3>1 DEF BoardLines
  <2>4. ASSUME NEW l \in DOMAIN r.screen.lines
        PROVE  \E n \in Objectives, p \in DisplayPositions :
                  /\ IsShown(r, n, p)
                  /\ \E o \in DOMAIN DisplayIn(r, n, p).rendered :
                        DisplayIn(r, n, p).rendered[o].id = l
    <3>1. PICK n \in Objectives, p \in DisplayPositions :
             /\ IsShown(s, n, p)
             /\ \E o \in DOMAIN DisplayIn(s, n, p).rendered :
                   DisplayIn(s, n, p).rendered[o].id = l
      BY <1>1, <1>4, <2>4 DEF BoardLines
    <3> QED BY <1>2, <3>1
  <2> QED BY <2>2, <2>3, <2>4 DEF BoardLines
<1>10. ASSUME NEW n \in Objectives, NEW p \in DisplayPositions, IsShown(r, n, p)
       PROVE  Titled(r, n, p) /\ (Drawn(r, n, p) \/ (n = name /\ p = position))
  <2>1. r.objectives[n].title = s.objectives[n].title
        /\ r.objectives[n].scores = s.objectives[n].scores
    BY <1>10 DEF Opened, IsShown
  <2>2. CASE n = name /\ p = position
    BY <1>3, <1>4, <2>1, <2>2 DEF Titled
  <2>3. CASE ~(n = name /\ p = position)
    <3>1. IsShown(s, n, p) /\ DisplayIn(r, n, p) = DisplayIn(s, n, p)
      BY <1>2, <1>10, <2>3
    <3>2. Titled(s, n, p) /\ Drawn(s, n, p)
      BY <3>1 DEF BoardInv
    <3>3. r.screen.known[DisplayIn(s, n, p).id] = s.screen.known[DisplayIn(s, n, p).id]
      BY <1>4, <1>5, <1>6, <3>1
    <3>4. Titled(r, n, p)
      BY <2>1, <3>1, <3>2, <3>3 DEF Titled
    <3>5. Drawn(r, n, p)
      BY <1>4, <2>1, <3>1, <3>2 DEF Drawn
    <3> QED BY <3>4, <3>5
  <2> QED BY <2>2, <2>3
<1>11. TeamsApart(r.teams)
  BY <1>4 DEF BoardInv
<1> QED BY <1>2, <1>7, <1>8, <1>9, <1>10, <1>11 DEF BoardKept

\* An objective shown where it was already shown gets a Bedrock objective anew.
LEMMA DisplayKeeps ==
    ASSUME BoardInv(Now), NEW name \in Objectives, NEW position \in DisplayPositions,
           Display(name, position)
    PROVE  BoardInv(Now)'
<1> DEFINE made == Known(name, name)
           active == made[name].active
           cleaned == IF position \in DOMAIN active
                      THEN RemoveObjective(screen, active[position].id) ELSE screen
           display == [id |-> scoreIDs.objective, slot |-> Slot(position), rendered |-> <<>>]
           s == [Now EXCEPT
                   !.objectives = [made EXCEPT ![name].active = Assign(@, position, display)],
                   !.ids.objective = @ + 1,
                   !.screen = SetDisplayObjective(cleaned, scoreIDs.objective, Slot(position),
                                                  made[name].title)]
           k == [Now EXCEPT !.objectives = made]
           ids == IF position \in DOMAIN active THEN {active[position].id} ELSE {}
           c == [objectives |-> [made EXCEPT ![name].active = Removed(@, position)],
                 teams |-> teams, ids |-> scoreIDs, screen |-> cleaned]
           T == {<<name, position>>}
<1>1. Sends(Render(s, name, position)) /\ Slot(position) # "none"
  BY DEF Display
<1>2. /\ DOMAIN s = {"objectives", "teams", "ids", "screen"} /\ s.teams = teams
      /\ s.objectives = [made EXCEPT ![name].active = Assign(@, position, display)]
      /\ s.ids = [scoreIDs EXCEPT !.objective = @ + 1]
      /\ s.screen = SetDisplayObjective(cleaned, scoreIDs.objective, Slot(position),
                                        made[name].title)
  <2> HIDE DEF made, cleaned, display
  <2> QED BY DEF Now
<1>3. /\ DOMAIN k = {"objectives", "teams", "ids", "screen"} /\ k.teams = teams
      /\ k.objectives = made /\ k.ids = scoreIDs /\ k.screen = screen
      /\ DOMAIN Now = {"objectives", "teams", "ids", "screen"} /\ Now.teams = teams
      /\ Now.objectives = objectives /\ Now.ids = scoreIDs /\ Now.screen = screen
  <2> HIDE DEF made
  <2> QED BY DEF Now
<1>4. /\ DOMAIN c = {"objectives", "teams", "ids", "screen"} /\ c.teams = teams
      /\ c.objectives = [made EXCEPT ![name].active = Removed(@, position)]
      /\ c.ids = scoreIDs /\ c.screen = cleaned
  <2> HIDE DEF made, cleaned
  <2> QED OBVIOUS
<1> HIDE DEF s, k, c
<1>5. BoardKept(Now) /\ BoardShape(Now)
  BY DEF BoardInv, BoardKept
<1>6. /\ IsFiniteSet(DOMAIN objectives) /\ DOMAIN objectives \subseteq Objectives
      /\ \A n \in DOMAIN objectives :
            /\ DOMAIN objectives[n] = {"title", "scores", "active"}
            /\ DOMAIN objectives[n].scores \subseteq Owners
            /\ \A o \in DOMAIN objectives[n].scores : objectives[n].scores[o].value \in Int
      /\ DOMAIN scoreIDs = {"objective", "entry"}
      /\ DOMAIN screen = {"known", "shown", "lines"}
  BY <1>3, <1>5 DEF BoardShape
<1>7. IsFiniteSet(DOMAIN objectives \cup {name})
  BY <1>6, FS_AddElement
<1>8. /\ DOMAIN made = DOMAIN objectives \cup {name}
      /\ \A n \in DOMAIN objectives : made[n] = objectives[n]
      /\ name \notin DOMAIN objectives =>
            made[name] = [title |-> name, scores |-> <<>>, active |-> <<>>]
  BY DEF Known, Assign, NewObjective
<1> HIDE DEF made
<1>9. \A n \in DOMAIN made :
         /\ DOMAIN made[n] = {"title", "scores", "active"}
         /\ DOMAIN made[n].scores \subseteq Owners
         /\ \A o \in DOMAIN made[n].scores : made[n].scores[o].value \in Int
         /\ n \in DOMAIN objectives => made[n].active = objectives[n].active
         /\ n \notin DOMAIN objectives => DOMAIN made[n].active = {}
  BY <1>6, <1>8
<1>10. Reworded(Now, k)
  BY <1>3, <1>6, <1>7, <1>8, <1>9 DEF Reworded
<1>11. BoardInv(k)
  <2>1. BoardKept(k) /\ TeamsApart(k.teams)
    BY <1>3, <1>5, <1>10, RewordedKept DEF BoardInv
  <2>2. ASSUME NEW n \in Objectives, NEW p \in DisplayPositions, IsShown(k, n, p)
        PROVE  Titled(k, n, p) /\ Drawn(k, n, p)
    <3>1. IsShown(Now, n, p) /\ Titled(Now, n, p) /\ Drawn(Now, n, p)
      BY <1>5, <1>10, <2>2, RewordedKept DEF BoardInv
    <3>2. k.objectives[n] = Now.objectives[n]
      BY <1>3, <1>8, <3>1 DEF IsShown
    <3> QED BY <1>3, <1>5, <1>10, <3>1, <3>2, RewordedKept
  <2> QED BY <2>1, <2>2 DEF BoardInv
<1>12. BoardShape(k) /\ BoardObjectives(k)
  BY <1>11 DEF BoardInv, BoardKept
<1>13. /\ DOMAIN c.objectives = DOMAIN made
       /\ \A n \in DOMAIN made : n # name => c.objectives[n] = made[n]
       /\ c.objectives[name] = [made[name] EXCEPT !.active = Removed(@, position)]
  BY <1>4, <1>8
<1>14. /\ DOMAIN c.objectives[name] = {"title", "scores", "active"}
       /\ c.objectives[name].title = made[name].title
       /\ c.objectives[name].scores = made[name].scores
       /\ DOMAIN c.objectives[name].active = DOMAIN active \ {position}
       /\ \A p \in DOMAIN active \ {position} : c.objectives[name].active[p] = active[p]
  BY <1>8, <1>9, <1>13 DEF Removed
<1>15. Without(screen, ids, cleaned)
  <2> HIDE DEF active
  <2>1. CASE position \in DOMAIN active
    <3>1. cleaned = RemoveObjective(screen, active[position].id) /\ ids = {active[position].id}
      BY <2>1
    <3> QED BY <3>1 DEF RemoveObjective, Removed, Without
  <2>2. CASE position \notin DOMAIN active
    <3>1. cleaned = screen /\ ids = {}
      BY <2>2
    <3> QED BY <1>6, <3>1 DEF Without
  <2> QED BY <2>1, <2>2
<1>16. Closed(k, c, ids)
  <2>1. ASSUME NEW n \in Objectives, NEW p \in DisplayPositions, IsShown(k, n, p)
        PROVE  DisplayIn(k, n, p).id \in ids <=> ~IsShown(c, n, p)
    <3>1. n \in DOMAIN made /\ p \in DOMAIN made[n].active /\ DisplayIn(k, n, p) = made[n].active[p]
      BY <1>3, <2>1 DEF IsShown, DisplayIn
    <3>2. CASE n = name /\ p = position
      <4>1. ~IsShown(c, n, p)
        BY <1>14, <3>2 DEF IsShown
      <4> QED BY <3>1, <3>2, <4>1
    <3>3. CASE ~(n = name /\ p = position)
      <4>1. IsShown(c, n, p)
        BY <1>13, <1>14, <3>1, <3>3 DEF IsShown
      <4>2. position \in DOMAIN active => active[position].id # DisplayIn(k, n, p).id
        <5>1. SUFFICES ASSUME position \in DOMAIN active
                       PROVE  active[position].id # DisplayIn(k, n, p).id
          OBVIOUS
        <5>2. IsShown(k, name, position) /\ DisplayIn(k, name, position) = active[position]
          BY <1>3, <1>8, <5>1 DEF IsShown, DisplayIn
        <5> QED BY <1>12, <2>1, <3>3, <5>2 DEF BoardObjectives
      <4> QED BY <4>1, <4>2
    <3> QED BY <3>2, <3>3
  <2> HIDE DEF ids, cleaned
  <2>2. ASSUME NEW n \in DOMAIN c.objectives
        PROVE  /\ DOMAIN c.objectives[n] = {"title", "scores", "active"}
               /\ c.objectives[n].title = k.objectives[n].title
               /\ c.objectives[n].scores = k.objectives[n].scores
               /\ DOMAIN c.objectives[n].active \subseteq DOMAIN k.objectives[n].active
               /\ \A p \in DOMAIN c.objectives[n].active :
                     DisplayIn(c, n, p) = DisplayIn(k, n, p)
    <3>1. CASE n = name
      BY <1>3, <1>14, <3>1 DEF DisplayIn
    <3>2. CASE n # name
      BY <1>3, <1>9, <1>13, <2>2, <3>2 DEF DisplayIn
    <3> QED BY <3>1, <3>2
  <2> QED BY <1>3, <1>4, <1>13, <1>15, <2>1, <2>2 DEF Closed
<1>17. BoardInv(c)
  BY <1>11, <1>16, ClosedKept
<1>18. ~IsShown(c, name, position) /\ name \in DOMAIN c.objectives
  BY <1>8, <1>13, <1>14 DEF IsShown
<1>19. /\ DOMAIN s.objectives = DOMAIN made
       /\ \A n \in DOMAIN made : n # name => s.objectives[n] = made[n]
       /\ s.objectives[name] = [made[name] EXCEPT !.active = Assign(@, position, display)]
  <2> HIDE DEF display
  <2> QED BY <1>2, <1>8
<1>20. /\ DOMAIN s.objectives[name] = {"title", "scores", "active"}
       /\ s.objectives[name].title = made[name].title
       /\ s.objectives[name].scores = made[name].scores
       /\ DOMAIN s.objectives[name].active = DOMAIN active \cup {position}
       /\ \A p \in DOMAIN active \ {position} : s.objectives[name].active[p] = active[p]
       /\ s.objectives[name].active[position] = display
  <2> HIDE DEF display
  <2> QED BY <1>8, <1>9, <1>19 DEF Assign
<1>21. Opened(c, s, name, position)
  <2>1. ASSUME NEW n \in DOMAIN c.objectives
        PROVE  /\ DOMAIN s.objectives[n] = {"title", "scores", "active"}
               /\ s.objectives[n].title = c.objectives[n].title
               /\ s.objectives[n].scores = c.objectives[n].scores
               /\ DOMAIN s.objectives[n].active =
                     DOMAIN c.objectives[n].active \cup (IF n = name THEN {position} ELSE {})
               /\ \A p \in DOMAIN c.objectives[n].active :
                     DisplayIn(s, n, p) = DisplayIn(c, n, p)
    <3> HIDE DEF active, display
    <3>1. CASE n = name
      BY <1>14, <1>20, <3>1 DEF DisplayIn
    <3>2. CASE n # name
      BY <1>9, <1>13, <1>19, <2>1, <3>2 DEF DisplayIn
    <3> QED BY <3>1, <3>2
  <2>2. DisplayIn(s, name, position) =
           [id |-> c.ids.objective, slot |-> Slot(position), rendered |-> <<>>]
    BY <1>4, <1>20 DEF DisplayIn
  <2> HIDE DEF cleaned, display, active
  <2>3. /\ DOMAIN s.ids = DOMAIN c.ids /\ s.ids.entry = c.ids.entry
        /\ s.ids.objective = c.ids.objective + 1
    BY <1>2, <1>4, <1>6
  <2>4. DOMAIN cleaned = {"known", "shown", "lines"}
    BY <1>15 DEF Without
  <2>5. /\ DOMAIN s.screen = {"known", "shown", "lines"}
        /\ s.screen.known = Assign(cleaned.known, scoreIDs.objective,
                                   [slot |-> Slot(position), title |-> made[name].title])
        /\ s.screen.lines = cleaned.lines
    BY <1>2, <2>4 DEF SetDisplayObjective
  <2>6. DOMAIN s.objectives = DOMAIN c.objectives
    BY <1>13, <1>19
  <2> QED BY <1>2, <1>4, <1>14, <2>1, <2>2, <2>3, <2>5, <2>6 DEF Opened
<1>22. /\ BoardKept(s) /\ TeamsApart(s.teams) /\ IsShown(s, name, position)
       /\ \A n \in Objectives, p \in DisplayPositions : IsShown(s, n, p) =>
             /\ Titled(s, n, p)
             /\ Drawn(s, n, p) \/ (n = name /\ p = position)
  BY <1>1, <1>17, <1>18, <1>21, OpenedKept
<1>23. Redrawn(s, Render(s, name, position), T, FALSE)
  BY <1>22, RenderRedraws
<1>24. BoardInv(Render(s, name, position))
  <2>1. \A n \in Objectives, p \in DisplayPositions : IsShown(s, n, p) =>
           /\ Drawn(s, n, p) \/ <<n, p>> \in T
           /\ Titled(s, n, p) \/ (FALSE /\ <<n, p>> \in T)
    BY <1>22
  <2> HIDE DEF T
  <2> QED BY <1>22, <1>23, <2>1, RedrawnWhole
<1> QED BY <1>1, <1>24, SentHolds

\* The invariant holds at first and whatever packet comes.
LEMMA BoardInitial == ScoreboardInit => BoardInv(Now)
<1> SUFFICES ASSUME ScoreboardInit PROVE BoardInv(Now)
  OBVIOUS
<1>1. /\ Now.objectives = <<>> /\ Now.teams = <<>>
      /\ Now.ids = [objective |-> 1, entry |-> 1]
      /\ Now.screen = [known |-> <<>>, shown |-> <<>>, lines |-> <<>>]
      /\ DOMAIN Now = {"objectives", "teams", "ids", "screen"}
  BY DEF ScoreboardInit, Now
<1> HIDE DEF Now
<1>2. /\ DOMAIN Now.objectives = {} /\ DOMAIN Now.teams = {}
      /\ DOMAIN Now.ids = {"objective", "entry"} /\ Now.ids.objective = 1 /\ Now.ids.entry = 1
      /\ DOMAIN Now.screen = {"known", "shown", "lines"}
      /\ DOMAIN Now.screen.known = {} /\ DOMAIN Now.screen.lines = {}
  BY <1>1
<1>3. \A n, p : ~IsShown(Now, n, p)
  BY <1>2 DEF IsShown
<1>4. IsFiniteSet(DOMAIN Now.objectives)
  BY <1>2, FS_EmptySet
<1>5. BoardShape(Now)
  BY <1>1, <1>2, <1>4 DEF BoardShape
<1>6. BoardObjectives(Now)
  BY <1>2, <1>3 DEF BoardObjectives
<1>7. BoardLines(Now)
  BY <1>2, <1>3 DEF BoardLines
<1>8. TeamsApart(Now.teams)
  BY <1>2 DEF TeamsApart
<1> QED BY <1>3, <1>5, <1>6, <1>7, <1>8 DEF BoardInv, BoardKept

LEMMA BoardNext == BoardInv(Now) /\ [ScoreboardNext]_scoreVars => BoardInv(Now)'
<1> SUFFICES ASSUME BoardInv(Now), [ScoreboardNext]_scoreVars PROVE BoardInv(Now)'
  OBVIOUS
<1>1. CASE UNCHANGED scoreVars
  <2> DEFINE r == [objectives |-> objectives', teams |-> teams', ids |-> scoreIDs',
                   screen |-> screen']
  <2>1. /\ DOMAIN r = DOMAIN Now /\ r.objectives = Now.objectives /\ r.teams = Now.teams
        /\ r.ids = Now.ids /\ r.screen = Now.screen
    BY <1>1 DEF scoreVars, Now
  <2> HIDE DEF r
  <2>2. BoardInv(r)
    BY <2>1, FieldsDecide
  <2> QED BY <2>2 DEF r, Now
<1>2. ASSUME NEW n \in Objectives, NEW t \in Titles, UpdateObjective(n, t)
      PROVE  BoardInv(Now)'
  BY <1>2, UpdateObjectiveKeeps
<1>3. ASSUME NEW n \in Objectives, RemoveJavaObjective(n) PROVE BoardInv(Now)'
  BY <1>3, RemoveJavaObjectiveKeeps
<1>4. ASSUME NEW p \in DisplayPositions, ClearDisplay(p) PROVE BoardInv(Now)'
  BY <1>4, ClearDisplayKeeps
<1>5. ASSUME NEW n \in Objectives, NEW p \in DisplayPositions, Display(n, p)
      PROVE  BoardInv(Now)'
  BY <1>5, DisplayKeeps
<1>6. ASSUME NEW n \in Objectives, NEW o \in Owners, NEW v \in Values,
             NEW d \in Names \cup {NoName}, Score(n, o, v, d)
      PROVE  BoardInv(Now)'
  BY <1>6, ScoreKeeps
<1>7. ASSUME NEW o \in Owners,
             NEW names \in {{n} : n \in Objectives} \cup {DOMAIN objectives},
             ResetScore(names, o)
      PROVE  BoardInv(Now)'
  <2>1. DOMAIN objectives \subseteq Objectives
    BY DEF BoardInv, BoardKept, BoardShape, Now
  <2> QED BY <1>7, <2>1, ResetScoreKeeps
<1>8. ASSUME NEW t \in Teams, NEW a \in Affixes, NEW ps \in SUBSET Owners, CreateTeam(t, a, ps)
      PROVE  BoardInv(Now)'
  BY <1>8, TeamPacketsKeep
<1>9. ASSUME NEW t \in Teams, NEW a \in Affixes, UpdateTeam(t, a) PROVE BoardInv(Now)'
  BY <1>9, TeamPacketsKeep
<1>10. ASSUME NEW t \in Teams, NEW o \in Owners, AddToTeam(t, {o}) PROVE BoardInv(Now)'
  BY <1>10, TeamPacketsKeep
<1>11. ASSUME NEW t \in Teams, NEW o \in Owners, RemoveFromTeam(t, {o}) PROVE BoardInv(Now)'
  BY <1>11, TeamPacketsKeep
<1>12. ASSUME NEW t \in Teams, RemoveTeam(t) PROVE BoardInv(Now)'
  BY <1>12, TeamPacketsKeep
<1> QED BY <1>1, <1>2, <1>3, <1>4, <1>5, <1>6, <1>7, <1>8, <1>9, <1>10, <1>11, <1>12
        DEF ScoreboardNext

\* An owner is in one team at most, however teams are created, emptied, joined, left
\* and removed (addScoreboardTeamPlayersLocked).
THEOREM TeamsCorrect == ScoreboardSpec => []TeamsExclusive
<1>1. BoardInv(Now) => TeamsExclusive
  BY DEF BoardInv, TeamsApart, TeamsExclusive, Now
<1> QED BY <1>1, BoardInitial, BoardNext, PTL DEF ScoreboardSpec

(***************************************************************************)
(* The client's scoreboard is Java's                                       *)
(***************************************************************************)
\* The place of an owner in an objective's list, and what the list is ordered by.
Place(scores, o) == Cardinality({p \in DOMAIN scores : Before(scores, p, o)})

Scored(scores) ==
    /\ DOMAIN scores \subseteq Int /\ IsFiniteSet(DOMAIN scores)
    /\ \A o \in DOMAIN scores : scores[o].value \in Int

LEMMA BeforeOrders ==
    ASSUME NEW scores, Scored(scores), NEW o \in DOMAIN scores, NEW p \in DOMAIN scores
    PROVE  /\ ~Before(scores, o, o)
           /\ o # p => Before(scores, o, p) \/ Before(scores, p, o)
           /\ ~(Before(scores, o, p) /\ Before(scores, p, o))
           /\ \A q \in DOMAIN scores : Before(scores, q, o) /\ Before(scores, o, p)
                                       => Before(scores, q, p)
<1>1. /\ o \in Int /\ p \in Int /\ scores[o].value \in Int /\ scores[p].value \in Int
      /\ \A q \in DOMAIN scores : q \in Int /\ scores[q].value \in Int
  BY DEF Scored
<1> QED BY <1>1 DEF Before

\* The places of the owners are the numbers from 0, one each.
LEMMA PlacesNumbered ==
    ASSUME NEW scores, Scored(scores)
    PROVE  /\ Cardinality(DOMAIN scores) \in Nat
           /\ [o \in DOMAIN scores |-> Place(scores, o)]
                 \in Bijection(DOMAIN scores, 0..(Cardinality(DOMAIN scores) - 1))
<1> DEFINE D == DOMAIN scores
           n == Cardinality(D)
           ahead(o) == {p \in D : Before(scores, p, o)}
           g == [o \in D |-> Place(scores, o)]
<1>1. IsFiniteSet(D) /\ n \in Nat
  BY FS_CardinalityType DEF Scored
<1>2. \A o \in D : /\ ahead(o) \in SUBSET D /\ o \notin ahead(o)
                   /\ Place(scores, o) = Cardinality(ahead(o))
  BY BeforeOrders DEF Place
<1>3. ASSUME NEW o \in D, NEW p \in D, Before(scores, o, p)
      PROVE  ahead(o) \in SUBSET ahead(p) /\ o \in ahead(p)
  BY <1>3, BeforeOrders
<1> HIDE DEF ahead
<1>4. ASSUME NEW o \in D PROVE Place(scores, o) \in Nat /\ Place(scores, o) < n
  <2>1. IsFiniteSet(ahead(o)) /\ Cardinality(ahead(o)) \in Nat
    <3>1. IsFiniteSet(ahead(o))
      BY <1>1, <1>2, FS_Subset
    <3> QED BY <3>1, FS_CardinalityType
  <2>2. Cardinality(ahead(o)) <= n /\ Cardinality(ahead(o)) # n
    BY <1>1, <1>2, FS_Subset
  <2> HIDE DEF n, D
  <2> QED BY <1>1, <1>2, <2>1, <2>2
<1>5. ASSUME NEW o \in D, NEW p \in D, Before(scores, o, p)
      PROVE  Place(scores, o) # Place(scores, p)
  <2>1. IsFiniteSet(ahead(p))
    BY <1>1, <1>2, FS_Subset
  <2> QED BY <1>2, <1>3, <1>5, <2>1, FS_Subset
<1>6. \A o, p \in D : o # p => Place(scores, o) # Place(scores, p)
  BY <1>5, BeforeOrders
<1>7. g \in Injection(D, 0..(n - 1))
  <2> HIDE DEF n, D
  <2>1. \A o \in D : Place(scores, o) \in 0..(n - 1)
    BY <1>1, <1>4
  <2>2. g \in [D -> 0..(n - 1)]
    BY <2>1
  <2> QED BY <1>6, <2>2 DEF Injection, IsInjective
<1>8. IsFiniteSet(0..(n - 1)) /\ Cardinality(0..(n - 1)) = n
  <2> HIDE DEF n
  <2>1. 0 \in Int /\ n - 1 \in Int
    BY <1>1
  <2>2. /\ IsFiniteSet(0..(n - 1))
        /\ Cardinality(0..(n - 1)) = IF 0 > n - 1 THEN 0 ELSE (n - 1) - 0 + 1
    BY <2>1, FS_Interval
  <2> QED BY <1>1, <2>2
<1> HIDE DEF g, n
<1>9. g \in Surjection(D, 0..(n - 1))
  BY <1>7, <1>8, FS_Injection DEF n
<1>10. g \in Bijection(D, 0..(n - 1))
  BY <1>7, <1>9 DEF Bijection
<1> QED BY <1>1, <1>10 DEF g, n

\* So the first places of a list are as many as were asked for, if there are that many.
LEMMA FirstCounted ==
    ASSUME NEW scores, Scored(scores), NEW k \in Nat
    PROVE  Cardinality({o \in DOMAIN scores : Place(scores, o) < k})
              = IF k < Cardinality(DOMAIN scores) THEN k ELSE Cardinality(DOMAIN scores)
<1> DEFINE D == DOMAIN scores
           n == Cardinality(D)
           m == IF k < n THEN k ELSE n
           F == {o \in D : Place(scores, o) < k}
           g == [o \in D |-> Place(scores, o)]
           h == [o \in F |-> Place(scores, o)]
<1>1. n \in Nat /\ g \in Bijection(D, 0..(n - 1)) /\ IsFiniteSet(D)
  BY PlacesNumbered DEF Scored
<1>2. \A o \in D : Place(scores, o) \in 0..(n - 1)
  <2>1. g \in [D -> 0..(n - 1)]
    BY <1>1 DEF Bijection, Injection
  <2>2. \A o \in D : g[o] \in 0..(n - 1)
    <3> HIDE DEF g, D, n
    <3> QED BY <2>1
  <2> QED BY <2>2
<1>3. \A o, p \in D : Place(scores, o) = Place(scores, p) => o = p
  BY <1>1 DEF Bijection, Injection, IsInjective
<1>4. \A i \in 0..(n - 1) : \E o \in D : Place(scores, o) = i
  BY <1>1 DEF Bijection, Surjection
<1>5. m \in Nat /\ m <= n /\ m <= k /\ (m = k \/ m = n)
  <2> HIDE DEF n
  <2> QED BY <1>1
<1> HIDE DEF m, n
<1>6. h \in [F -> 0..(m - 1)]
  <2>1. \A o \in F : Place(scores, o) \in 0..(m - 1)
    BY <1>1, <1>2, <1>5
  <2> QED BY <2>1
<1>7. h \in Injection(F, 0..(m - 1))
  BY <1>3, <1>6 DEF Injection, IsInjective
<1>8. h \in Surjection(F, 0..(m - 1))
  <2>1. ASSUME NEW i \in 0..(m - 1) PROVE \E o \in F : Place(scores, o) = i
    <3>1. i \in 0..(n - 1) /\ i < k
      BY <1>1, <1>5
    <3> QED BY <1>4, <3>1
  <2> QED BY <1>6, <2>1 DEF Surjection
<1>9. IsFiniteSet(F) /\ ExistsBijection(F, 0..(m - 1))
  <2>1. F \in SUBSET D
    OBVIOUS
  <2> HIDE DEF F, h
  <2> QED BY <1>1, <1>7, <1>8, <2>1, FS_Subset DEF ExistsBijection, Bijection
<1>10. Cardinality(0..(m - 1)) = m
  <2>1. 0 \in Int /\ m - 1 \in Int
    BY <1>5
  <2>2. Cardinality(0..(m - 1)) = IF 0 > m - 1 THEN 0 ELSE (m - 1) - 0 + 1
    BY <2>1, FS_Interval
  <2> QED BY <1>5, <2>2
<1>11. Cardinality(F) = m
  <2> HIDE DEF F
  <2> QED BY <1>9, <1>10, FS_Bijection
<1> QED BY <1>11 DEF m, n

\* The owners a draw picks by their places are the ones a full sidebar should list.
LEMMA FirstAreListed ==
    ASSUME BoardInv(Now), NEW d \in Displays
    PROVE  Listed(d) = FirstOwners(objectives[d[1]].scores, Slot(d[2]))
<1> DEFINE scores == objectives[d[1]].scores
           D == DOMAIN scores
           n == Cardinality(D)
           F == {o \in D : Place(scores, o) < SidebarEntries}
           m == Min({SidebarEntries, n})
           fits(k) == /\ Cardinality(k) = m
                      /\ \A o \in k, p \in D \ k : Before(scores, o, p)
<1>1. Scored(scores)
  <2>1. /\ D \subseteq Owners /\ \A o \in D : scores[o].value \in Int
    BY DEF BoardInv, BoardKept, BoardShape, Displays, IsShown, Now
  <2> HIDE DEF scores
  <2> QED BY <2>1, ScoreboardAssumption, FS_Subset DEF Scored
<1>2. CASE Slot(d[2]) # "sidebar"
  BY <1>2 DEF Listed, FirstOwners
<1>3. CASE Slot(d[2]) = "sidebar"
  <2>1. Listed(d) = CHOOSE k \in SUBSET D : fits(k)
    BY <1>3 DEF Listed
  <2>2. FirstOwners(scores, Slot(d[2])) = F
    BY <1>3 DEF FirstOwners, Place
  <2> HIDE DEF scores
  <2>3. IsFiniteSet(D) /\ n \in Nat /\ SidebarEntries \in Nat
    BY <1>1, FS_CardinalityType, ScoreboardAssumption DEF Scored
  <2>4. m = IF SidebarEntries < n THEN SidebarEntries ELSE n
    <3> HIDE DEF n
    <3> QED BY <2>3 DEF Min
  <2>5. Cardinality(F) = m /\ F \in SUBSET D /\ IsFiniteSet(F)
    <3>1. F \in SUBSET D
      OBVIOUS
    <3> QED BY <1>1, <2>3, <2>4, <3>1, FirstCounted, FS_Subset
  <2>6. m <= SidebarEntries /\ m \in Nat
    <3> HIDE DEF n, m
    <3> QED BY <2>3, <2>4
  <2>7. \A o \in D : /\ Place(scores, o) \in Nat
                     /\ IsFiniteSet({p \in D : Before(scores, p, o)})
    <3>1. \A o \in D : {p \in D : Before(scores, p, o)} \in SUBSET D
      OBVIOUS
    <3> QED BY <2>3, <3>1, FS_Subset, FS_CardinalityType DEF Place
  <2>8. ASSUME NEW o \in F, NEW p \in D \ F PROVE Before(scores, o, p)
    <3>1. SUFFICES ASSUME Before(scores, p, o) PROVE FALSE
      BY <1>1, BeforeOrders
    <3> DEFINE P == {q \in D : Before(scores, q, p)}
               O == {q \in D : Before(scores, q, o)}
    <3>2. P \in SUBSET O
      BY <1>1, <3>1, BeforeOrders
    <3>3. IsFiniteSet(O) /\ Place(scores, o) = Cardinality(O) /\ Place(scores, p) = Cardinality(P)
      BY <2>7 DEF Place
    <3> HIDE DEF P, O
    <3>4. Place(scores, p) <= Place(scores, o)
      BY <3>2, <3>3, FS_Subset
    <3>5. /\ Place(scores, p) \in Nat /\ Place(scores, o) \in Nat
          /\ Place(scores, o) < SidebarEntries /\ ~(Place(scores, p) < SidebarEntries)
      BY <2>7
    <3> QED BY <2>3, <3>4, <3>5
  <2>9. fits(F)
    <3> HIDE DEF F, m
    <3> QED BY <2>5, <2>8
  <2>10. ASSUME NEW k \in SUBSET D, fits(k) PROVE k = F
    <3>1. k \subseteq F
      <4>1. SUFFICES ASSUME NEW o \in k PROVE Place(scores, o) < SidebarEntries
        OBVIOUS
      <4> DEFINE O == {q \in D : Before(scores, q, o)}
      <4>2. O \in SUBSET k /\ o \notin O
        <5>1. \A q \in D : Before(scores, q, o) => ~Before(scores, o, q)
          BY <1>1, BeforeOrders
        <5> QED BY <1>1, <2>10, <5>1, BeforeOrders
      <4>3. IsFiniteSet(k) /\ IsFiniteSet(O) /\ Place(scores, o) = Cardinality(O)
        BY <2>3, <2>7, FS_Subset DEF Place
      <4> HIDE DEF O, m
      <4>4. Cardinality(O) <= m /\ Cardinality(O) # m
        BY <2>10, <4>2, <4>3, FS_Subset
      <4>5. Cardinality(O) \in Nat
        BY <4>3, FS_CardinalityType
      <4> QED BY <2>3, <2>6, <4>3, <4>4, <4>5
    <3> HIDE DEF F, m
    <3> QED BY <2>5, <2>10, <3>1, FS_Subset
  <2> HIDE DEF fits, F
  <2>11. (CHOOSE k \in SUBSET D : fits(k)) = F
    BY <2>5, <2>9, <2>10
  <2> QED BY <2>1, <2>2, <2>11 DEF scores
<1> QED BY <1>2, <1>3

\* The lines on the screen of some displays are counted as the lists they should show.
LinesOf(S) ==
    {l \in DOMAIN screen.lines : \E d \in S :
        \E o \in DOMAIN DisplayAt(d).rendered : DisplayAt(d).rendered[o].id = l}

LEMMA ShownDrawn ==
    ASSUME BoardInv(Now), NEW d \in Displays
    PROVE  /\ IsShown(Now, d[1], d[2]) /\ d[1] \in Objectives /\ d[2] \in DisplayPositions
           /\ DisplayIn(Now, d[1], d[2]) = DisplayAt(d)
           /\ Titled(Now, d[1], d[2]) /\ Drawn(Now, d[1], d[2])
           /\ DOMAIN DisplayAt(d).rendered = Listed(d)
           /\ IsFiniteSet(Listed(d))
<1>1. IsShown(Now, d[1], d[2]) /\ d[1] \in Objectives /\ d[2] \in DisplayPositions
  BY DEF Displays
<1>2. DisplayIn(Now, d[1], d[2]) = DisplayAt(d) /\ Now.objectives = objectives
  BY DEF DisplayIn, DisplayAt, Now
<1>3. Titled(Now, d[1], d[2]) /\ Drawn(Now, d[1], d[2])
  BY <1>1 DEF BoardInv
<1>4. DOMAIN DisplayAt(d).rendered = Listed(d)
  BY <1>2, <1>3, FirstAreListed DEF Drawn
<1>5. IsFiniteSet(Listed(d))
  <2>1. Listed(d) \subseteq DOMAIN objectives[d[1]].scores
    BY FirstAreListed DEF FirstOwners
  <2>2. DOMAIN objectives[d[1]].scores \subseteq Owners
    BY <1>1, <1>2 DEF BoardInv, BoardKept, BoardShape, IsShown
  <2>3. IsFiniteSet(Owners) /\ Listed(d) \in SUBSET Owners
    BY <2>1, <2>2, ScoreboardAssumption
  <2> QED BY <2>3, FS_Subset
<1> QED BY <1>1, <1>2, <1>3, <1>4, <1>5

\* A display has as many lines as its list has owners, and shares none of them.
LEMMA LinesOfOne ==
    ASSUME BoardInv(Now), NEW d \in Displays
    PROVE  /\ IsFiniteSet(LinesOf({d})) /\ Cardinality(LinesOf({d})) = Cardinality(Listed(d))
           /\ \A S \in SUBSET Displays : d \notin S => LinesOf({d}) \cap LinesOf(S) = {}
<1> DEFINE lines == DisplayAt(d).rendered
           g == [o \in Listed(d) |-> lines[o].id]
<1>1. DOMAIN lines = Listed(d) /\ IsFiniteSet(Listed(d))
  BY ShownDrawn
<1>2. ASSUME NEW e \in Displays, NEW o \in DOMAIN lines, NEW u \in DOMAIN DisplayAt(e).rendered,
             lines[o].id = DisplayAt(e).rendered[u].id
      PROVE  d[1] = e[1] /\ d[2] = e[2] /\ o = u
  BY <1>2, ShownDrawn DEF BoardInv, BoardKept, BoardLines
<1>3. \A o \in DOMAIN lines : lines[o].id \in DOMAIN screen.lines
  <2>1. Now.screen = screen
    BY DEF Now
  <2> QED BY <2>1, ShownDrawn DEF BoardInv, BoardKept, BoardLines
<1>4. \A l : l \in LinesOf({d}) <=> \E o \in DOMAIN lines : lines[o].id = l
  BY <1>3 DEF LinesOf
<1>5. g \in Bijection(Listed(d), LinesOf({d}))
  <2>1. g \in [Listed(d) -> LinesOf({d})]
    <3>1. \A o \in Listed(d) : lines[o].id \in LinesOf({d})
      BY <1>1, <1>4
    <3> QED BY <3>1
  <2>2. \A o, u \in Listed(d) : g[o] = g[u] => o = u
    BY <1>1, <1>2
  <2>3. \A l \in LinesOf({d}) : \E o \in Listed(d) : g[o] = l
    BY <1>1, <1>4
  <2> QED BY <2>1, <2>2, <2>3 DEF Bijection, Injection, Surjection, IsInjective
<1>6. IsFiniteSet(LinesOf({d})) /\ Cardinality(LinesOf({d})) = Cardinality(Listed(d))
  <2>1. ExistsBijection(Listed(d), LinesOf({d}))
    BY <1>5 DEF ExistsBijection
  <2> QED BY <1>1, <2>1, FS_Bijection
<1>7. ASSUME NEW S \in SUBSET Displays, d \notin S, NEW l \in LinesOf({d}), l \in LinesOf(S)
      PROVE  FALSE
  <2>1. PICK o \in DOMAIN lines : lines[o].id = l
    BY <1>4
  <2>2. PICK e \in S : \E u \in DOMAIN DisplayAt(e).rendered : DisplayAt(e).rendered[u].id = l
    BY <1>7 DEF LinesOf
  <2>3. e \in Displays /\ d[1] = e[1] /\ d[2] = e[2]
    BY <1>2, <2>1, <2>2
  <2>4. d = e
    BY <2>3 DEF Displays
  <2> QED BY <1>7, <2>2, <2>4
<1> QED BY <1>6, <1>7

LEMMA LinesCounted ==
    ASSUME BoardInv(Now)
    PROVE  Cardinality(DOMAIN screen.lines)
              = FoldSet(LAMBDA d, n : n + Cardinality(Listed(d)), 0, Displays)
<1>1. IsFiniteSet(Displays)
  BY DisplaysFinite DEF BoardInv, Displays
<1>2. PICK f : /\ Folds(f, <<"count">>, 0, Displays)
               /\ FoldSet(LAMBDA d, n : n + Cardinality(Listed(d)), 0, Displays) = f[Displays]
  BY <1>1, CountFolds
<1> DEFINE T == {S \in SUBSET Displays :
                    IsFiniteSet(LinesOf(S)) /\ f[S] = Cardinality(LinesOf(S))}
<1>3. ASSUME NEW s \in SUBSET Displays, \A r \in SUBSET s : r # s => r \in T
      PROVE  s \in T
  <2>1. CASE s = {}
    <3>1. f[s] = 0
      BY <1>2, <2>1 DEF Folds
    <3>2. LinesOf(s) = {}
      BY <2>1 DEF LinesOf
    <3> QED BY <3>1, <3>2, FS_EmptySet
  <2>2. CASE s # {}
    <3> DEFINE x == Picked(s)
               rest == s \ {x}
    <3>1. x \in s /\ x \in Displays /\ rest \in SUBSET Displays /\ x \notin rest
      BY <2>2 DEF Picked
    <3>2. IsFiniteSet(LinesOf(rest)) /\ f[rest] = Cardinality(LinesOf(rest))
      BY <1>3, <3>1
    <3>3. f[s] = f[rest] + Cardinality(Listed(x))
      BY <1>2, <2>2 DEF Folds, FoldStep
    <3>4. LinesOf(s) = LinesOf({x}) \cup LinesOf(rest)
      BY <3>1 DEF LinesOf
    <3>5. /\ IsFiniteSet(LinesOf({x})) /\ Cardinality(LinesOf({x})) = Cardinality(Listed(x))
          /\ LinesOf({x}) \cap LinesOf(rest) = {}
      BY <3>1, LinesOfOne
    <3> HIDE DEF x, rest
    <3>6. /\ IsFiniteSet(LinesOf(s))
          /\ Cardinality(LinesOf(s)) =
                Cardinality(LinesOf({x})) + Cardinality(LinesOf(rest)) - Cardinality({})
      BY <3>2, <3>4, <3>5, FS_Union
    <3>7. Cardinality(LinesOf({x})) \in Nat /\ Cardinality(LinesOf(rest)) \in Nat
          /\ Cardinality({}) = 0
      BY <3>2, <3>5, FS_CardinalityType, FS_EmptySet
    <3> QED BY <3>2, <3>3, <3>5, <3>6, <3>7
  <2> QED BY <2>1, <2>2
<1> HIDE DEF T
<1>4. \A S \in SUBSET Displays : S \in T
  BY <1>1, <1>3, SetInduction
<1>5. f[Displays] = Cardinality(LinesOf(Displays))
  BY <1>4 DEF T
<1>6. LinesOf(Displays) = DOMAIN screen.lines
  <2>1. SUFFICES ASSUME NEW l \in DOMAIN screen.lines PROVE l \in LinesOf(Displays)
    BY DEF LinesOf
  <2>2. PICK n \in Objectives, p \in DisplayPositions :
           /\ IsShown(Now, n, p)
           /\ \E o \in DOMAIN DisplayIn(Now, n, p).rendered :
                 DisplayIn(Now, n, p).rendered[o].id = l
    BY DEF BoardInv, BoardKept, BoardLines, Now
  <2>3. <<n, p>> \in Displays /\ DisplayAt(<<n, p>>) = DisplayIn(Now, n, p)
    BY <2>2 DEF Displays, DisplayAt, DisplayIn, Now
  <2> QED BY <2>2, <2>3 DEF LinesOf
<1> QED BY <1>2, <1>5, <1>6

\* The affix of an owner's line is that of the one team he is in.
LEMMA AffixOfTeam ==
    ASSUME BoardInv(Now), NEW owner
    PROVE  {teams[t].affix : t \in {u \in DOMAIN teams : owner \in teams[u].players}} \ {NoAffix}
              = {TeamAffix(teams, owner)} \ {NoAffix}
<1> DEFINE mine == {u \in DOMAIN teams : owner \in teams[u].players}
           t == CHOOSE u \in mine : TRUE
<1>1. TeamAffix(teams, owner) = IF mine = {} THEN NoAffix ELSE teams[t].affix
  BY DEF TeamAffix
<1>2. \A u, w \in mine : u = w
  BY DEF BoardInv, TeamsApart, Now
<1>3. mine # {} => t \in mine
  OBVIOUS
<1> HIDE DEF mine, t
<1>4. {teams[u].affix : u \in mine} \ {NoAffix} = {TeamAffix(teams, owner)} \ {NoAffix}
  <2>1. CASE mine = {}
    BY <1>1, <2>1
  <2>2. CASE mine # {}
    <3>1. mine = {t}
      BY <1>2, <1>3, <2>2
    <3> QED BY <1>1, <2>2, <3>1
  <2> QED BY <2>1, <2>2
<1> QED BY <1>4 DEF mine

LEMMA BoardObjectivesAgree == BoardInv(Now) => ObjectivesAgree
<1> SUFFICES ASSUME BoardInv(Now) PROVE ObjectivesAgree
  OBVIOUS
<1>1. Now.screen = screen /\ Now.objectives = objectives
  BY DEF Now
<1>2. \A d \in Displays : DisplayAt(d).id \in DOMAIN screen.known
  BY <1>1, ShownDrawn DEF BoardInv, BoardKept, BoardObjectives
<1>3. ASSUME NEW i \in DOMAIN screen.known PROVE \E d \in Displays : DisplayAt(d).id = i
  <2>1. PICK n \in Objectives, p \in DisplayPositions :
           IsShown(Now, n, p) /\ DisplayIn(Now, n, p).id = i
    BY <1>1 DEF BoardInv, BoardKept, BoardObjectives
  <2>2. <<n, p>> \in Displays /\ DisplayAt(<<n, p>>) = DisplayIn(Now, n, p)
    BY <1>1, <2>1 DEF Displays, DisplayAt, DisplayIn
  <2> QED BY <2>1, <2>2
<1>4. \A d \in Displays : screen.known[DisplayAt(d).id] =
                             [slot |-> Slot(d[2]), title |-> objectives[d[1]].title]
  BY <1>1, ShownDrawn DEF Titled
<1>5. ASSUME NEW d \in Displays, NEW e \in Displays, DisplayAt(d).id = DisplayAt(e).id
      PROVE  d = e
  <2>1. d[1] = e[1] /\ d[2] = e[2]
    BY <1>5, ShownDrawn DEF BoardInv, BoardKept, BoardObjectives
  <2> QED BY <2>1 DEF Displays
<1> QED BY <1>2, <1>3, <1>4, <1>5 DEF ObjectivesAgree

LEMMA BoardLinesAgree == BoardInv(Now) => LinesAgree
<1> SUFFICES ASSUME BoardInv(Now) PROVE LinesAgree
  OBVIOUS
<1> DEFINE drawn(l) == [objective |-> l.objective, value |-> l.value, base |-> l.name.base,
                        affixes |-> {l.name.affix} \ {NoAffix}]
<1>1. Now.screen = screen /\ Now.objectives = objectives /\ Now.teams = teams
  BY DEF Now
<1>2. ASSUME NEW d \in Displays, NEW o \in Owners, o \in Listed(d)
      PROVE  /\ o \in DOMAIN DisplayAt(d).rendered
             /\ DisplayAt(d).rendered[o].id \in DOMAIN screen.lines
             /\ drawn(screen.lines[DisplayAt(d).rendered[o].id]) = LineOf(d, o)
  <2> DEFINE line == DisplayAt(d).rendered[o]
             score == objectives[d[1]].scores[o]
  <2>1. o \in DOMAIN DisplayAt(d).rendered
    BY <1>2, ShownDrawn
  <2>2. line.id \in DOMAIN screen.lines /\ screen.lines[line.id] = line
    BY <1>1, <2>1, ShownDrawn DEF BoardInv, BoardKept, BoardLines
  <2>3. line = [id |-> line.id, objective |-> DisplayAt(d).id, value |-> score.value,
                name |-> EntryName(teams, o, score)]
    BY <1>1, <2>1, ShownDrawn DEF Drawn
  <2> HIDE DEF line, score
  <2>4. /\ line.objective = DisplayAt(d).id /\ line.value = score.value
        /\ line.name.base = (IF score.name = NoName THEN o ELSE score.name)
        /\ line.name.affix = TeamAffix(teams, o)
    BY <2>3 DEF EntryName
  <2>5. LineOf(d, o) =
           [objective |-> DisplayAt(d).id, value |-> score.value,
            base |-> IF score.name = NoName THEN o ELSE score.name,
            affixes |-> {TeamAffix(teams, o)} \ {NoAffix}]
    BY AffixOfTeam DEF LineOf, score
  <2>6. drawn(line) = LineOf(d, o)
    BY <2>4, <2>5
  <2> QED BY <2>1, <2>2, <2>6 DEF line
<1> QED BY <1>2, LinesCounted DEF LinesAgree

\* After every packet the client's scoreboard is Java's: the objectives it knows are the
\* displays, and its lines the ones the scores and the teams call for, under IDs that
\* no two lines share (scoreboard.go).
THEOREM ScreenCorrect == ScoreboardSpec => []ScreenAgrees
<1>1. BoardInv(Now) => ScreenAgrees
  BY BoardObjectivesAgree, BoardLinesAgree DEF ScreenAgrees
<1> QED BY <1>1, BoardInitial, BoardNext, PTL DEF ScoreboardSpec

(***************************************************************************)
(* Blocks and block entities: the folds                                    *)
(***************************************************************************)
\* Each fold of the model's, as a function of the part folded.
ChangeFold(base, arg, S) ==
    CHOOSE f : f = [t \in SUBSET S |->
        IF t = {} THEN base
        ELSE RememberChange(f[t \ {Picked(t)}], Picked(t), arg)]

LEMMA ChangeFolds ==
    ASSUME NEW S, IsFiniteSet(S), NEW base, NEW arg
    PROVE  Folds(ChangeFold(base, arg, S), <<"change", arg>>, base, S)
<1>1. \A c, acc : FoldStep(<<"change", arg>>, c, acc) = RememberChange(acc, c, arg)
  BY DEF FoldStep
<1>2. \A f : Folds(f, <<"change", arg>>, base, S) <=>
             f = [t \in SUBSET S |->
                   IF t = {} THEN base ELSE RememberChange(f[t \ {Picked(t)}], Picked(t), arg)]
  BY <1>1 DEF Folds
<1> QED BY <1>2, FoldsExist DEF ChangeFold

PutFold(base, arg, S) ==
    CHOOSE f : f = [t \in SUBSET S |->
        IF t = {} THEN base
        ELSE Put(f[t \ {Picked(t)}], Picked(t), arg[Picked(t)].state)]

LEMMA PutFolds ==
    ASSUME NEW S, IsFiniteSet(S), NEW base, NEW arg
    PROVE  Folds(PutFold(base, arg, S), <<"put", arg>>, base, S)
<1>1. \A c, acc : FoldStep(<<"put", arg>>, c, acc) = Put(acc, c, arg[c].state)
  BY DEF FoldStep
<1>2. \A f : Folds(f, <<"put", arg>>, base, S) <=>
             f = [t \in SUBSET S |->
                   IF t = {} THEN base
                   ELSE Put(f[t \ {Picked(t)}], Picked(t), arg[Picked(t)].state)]
  BY <1>1 DEF Folds
<1> QED BY <1>2, FoldsExist DEF PutFold

ShowsFold(base, arg, S) ==
    CHOOSE f : f = [t \in SUBSET S |->
        IF t = {} THEN base
        ELSE Shows(f[t \ {Picked(t)}], Picked(t), arg)]

LEMMA ShowsFolds ==
    ASSUME NEW S, IsFiniteSet(S), NEW base, NEW arg
    PROVE  Folds(ShowsFold(base, arg, S), <<"shows", arg>>, base, S)
<1>1. \A c, acc : FoldStep(<<"shows", arg>>, c, acc) = Shows(acc, c, arg)
  BY DEF FoldStep
<1>2. \A f : Folds(f, <<"shows", arg>>, base, S) <=>
             f = [t \in SUBSET S |->
                   IF t = {} THEN base ELSE Shows(f[t \ {Picked(t)}], Picked(t), arg)]
  BY <1>1 DEF Folds
<1> QED BY <1>2, FoldsExist DEF ShowsFold

ChunkFold(base, arg, S) ==
    CHOOSE f : f = [t \in SUBSET S |->
        IF t = {} THEN base
        ELSE Shows(f[t \ {Picked(t)}], Picked(t), arg[Picked(t)].state)]

LEMMA ChunkFolds ==
    ASSUME NEW S, IsFiniteSet(S), NEW base, NEW arg
    PROVE  Folds(ChunkFold(base, arg, S), <<"chunk", arg>>, base, S)
<1>1. \A c, acc : FoldStep(<<"chunk", arg>>, c, acc) = Shows(acc, c, arg[c].state)
  BY DEF FoldStep
<1>2. \A f : Folds(f, <<"chunk", arg>>, base, S) <=>
             f = [t \in SUBSET S |->
                   IF t = {} THEN base
                   ELSE Shows(f[t \ {Picked(t)}], Picked(t), arg[Picked(t)].state)]
  BY <1>1 DEF Folds
<1> QED BY <1>2, FoldsExist DEF ChunkFold

LEMMA ResetFolds ==
    ASSUME NEW S, IsFiniteSet(S), NEW base
    PROVE  \E f : /\ Folds(f, <<"reset">>, base, S)
                  /\ FoldSet(LAMBDA c, acc : Shows(Shows(acc, c, Air), c, Spawner), base, S) = f[S]
<1> DEFINE g == CHOOSE f : f = [t \in SUBSET S |->
                   IF t = {} THEN base
                   ELSE Shows(Shows(f[t \ {Picked(t)}], Picked(t), Air), Picked(t), Spawner)]
<1>1. \A c, acc : FoldStep(<<"reset">>, c, acc) = Shows(Shows(acc, c, Air), c, Spawner)
  BY DEF FoldStep
<1>2. \A f : Folds(f, <<"reset">>, base, S) <=>
             f = [t \in SUBSET S |->
                   IF t = {} THEN base
                   ELSE Shows(Shows(f[t \ {Picked(t)}], Picked(t), Air), Picked(t), Spawner)]
  BY <1>1 DEF Folds
<1>3. Folds(g, <<"reset">>, base, S)
  BY <1>2, FoldsExist
<1>4. FoldSet(LAMBDA c, acc : Shows(Shows(acc, c, Air), c, Spawner), base, S) = g[S]
  BY DEF FoldSet, MapThenFoldSet, Picked
<1> QED BY <1>3, <1>4

MobFold(base, arg, S) ==
    CHOOSE f : f = [t \in SUBSET S |->
        IF t = {} THEN base
        ELSE ShowsMob(f[t \ {Picked(t)}], Picked(t), arg[Picked(t)].mob)]

LEMMA MobFolds ==
    ASSUME NEW S, IsFiniteSet(S), NEW base, NEW arg
    PROVE  Folds(MobFold(base, arg, S), <<"mob", arg>>, base, S)
<1>1. \A c, acc : FoldStep(<<"mob", arg>>, c, acc) = ShowsMob(acc, c, arg[c].mob)
  BY DEF FoldStep
<1>2. \A f : Folds(f, <<"mob", arg>>, base, S) <=>
             f = [t \in SUBSET S |->
                   IF t = {} THEN base
                   ELSE ShowsMob(f[t \ {Picked(t)}], Picked(t), arg[Picked(t)].mob)]
  BY <1>1 DEF Folds
<1> QED BY <1>2, FoldsExist DEF MobFold

(***************************************************************************)
(* The cache                                                               *)
(***************************************************************************)
Entry == [cell : Cells, state : States]

\* The cache has one entry for a position and no more of them than it may.
CacheKept(cache) ==
    /\ cache \in Seq(Entry) /\ Len(cache) <= CacheSize
    /\ \A i, j \in DOMAIN cache : cache[i].cell = cache[j].cell => i = j

\* Its entries of a position come from another cache, or have a state.
From(cache, old, cell) ==
    \A i \in DOMAIN cache : cache[i].cell = cell => \E j \in DOMAIN old : cache[i] = old[j]

Caches(cache, cell, state) ==
    \A i \in DOMAIN cache : cache[i].cell = cell => cache[i].state = state

\* A list of some entries of a list: as many, and each once.
LEMMA EntriesPicked ==
    ASSUME NEW E, NEW cache \in Seq(E), NEW places \in SUBSET DOMAIN cache
    PROVE  /\ IsFiniteSet(places) /\ Cardinality(places) \in Nat
           /\ EntriesAt(cache, places) \in Seq(E)
           /\ Len(EntriesAt(cache, places)) = Cardinality(places)
           /\ DOMAIN EntriesAt(cache, places) = 1..Cardinality(places)
           /\ \A n \in 1..Cardinality(places) : \E i \in places :
                 Rank(places, i) = n - 1 /\ EntriesAt(cache, places)[n] = cache[i]
           /\ \A i \in places : \E n \in 1..Cardinality(places) :
                 EntriesAt(cache, places)[n] = cache[i]
<1> DEFINE n == Cardinality(places)
           g == [i \in places |-> Rank(places, i)]
<1>1. IsFiniteSet(places) /\ places \subseteq Int
  <2>1. IsFiniteSet(1..Len(cache))
    <3>1. 1 \in Int /\ Len(cache) \in Int
      OBVIOUS
    <3> QED BY <3>1, FS_Interval
  <2>2. DOMAIN cache = 1..Len(cache)
    OBVIOUS
  <2> QED BY <2>1, <2>2, FS_Subset
<1>2. /\ n \in Nat
      /\ \A o \in places : Rank(places, o) \in Nat /\ Rank(places, o) < n
      /\ \A o, u \in places : o # u => Rank(places, o) # Rank(places, u)
  BY <1>1, RanksDiffer
<1> HIDE DEF n
<1>3. g \in Injection(places, 0..(n - 1))
  <2>1. \A o \in places : Rank(places, o) \in 0..(n - 1)
    BY <1>2
  <2> QED BY <1>2, <2>1 DEF Injection, IsInjective
<1>4. IsFiniteSet(0..(n - 1)) /\ Cardinality(0..(n - 1)) = n
  <2>1. 0 \in Int /\ n - 1 \in Int
    BY <1>2
  <2>2. /\ IsFiniteSet(0..(n - 1))
        /\ Cardinality(0..(n - 1)) = IF 0 > n - 1 THEN 0 ELSE (n - 1) - 0 + 1
    BY <2>1, FS_Interval
  <2> QED BY <1>2, <2>2
<1>5. g \in Surjection(places, 0..(n - 1))
  <2> HIDE DEF g
  <2> QED BY <1>3, <1>4, FS_Injection DEF n
<1>6. \A k \in 0..(n - 1) : \E i \in places : Rank(places, i) = k
  BY <1>5 DEF Surjection
<1>7. EntriesAt(cache, places) =
         [k \in 1..n |-> cache[CHOOSE i \in places : Rank(places, i) = k - 1]]
  BY DEF EntriesAt, Rank, n
<1>8. ASSUME NEW k \in 1..n
      PROVE  \E i \in places : Rank(places, i) = k - 1 /\ EntriesAt(cache, places)[k] = cache[i]
  <2>1. k - 1 \in 0..(n - 1)
    BY <1>2
  <2>2. \E i \in places : Rank(places, i) = k - 1
    BY <1>6, <2>1
  <2> DEFINE i == CHOOSE j \in places : Rank(places, j) = k - 1
  <2>3. i \in places /\ Rank(places, i) = k - 1
    BY <2>2
  <2>4. EntriesAt(cache, places)[k] = cache[i]
    BY <1>7
  <2> QED BY <2>3, <2>4
<1>9. ASSUME NEW i \in places
      PROVE  \E k \in 1..n : EntriesAt(cache, places)[k] = cache[i]
  <2>1. Rank(places, i) + 1 \in 1..n /\ (Rank(places, i) + 1) - 1 = Rank(places, i)
    BY <1>2
  <2>2. PICK j \in places : Rank(places, j) = Rank(places, i)
                            /\ EntriesAt(cache, places)[Rank(places, i) + 1] = cache[j]
    BY <1>8, <2>1
  <2>3. j = i
    BY <1>2, <2>2
  <2> QED BY <2>1, <2>2, <2>3
<1>10. /\ EntriesAt(cache, places) \in Seq(E)
       /\ Len(EntriesAt(cache, places)) = n /\ DOMAIN EntriesAt(cache, places) = 1..n
  <2>1. \A k \in 1..n : EntriesAt(cache, places)[k] \in E
    <3>1. \A i \in places : cache[i] \in E
      OBVIOUS
    <3> QED BY <1>8, <3>1
  <2>2. EntriesAt(cache, places) = [k \in 1..n |-> EntriesAt(cache, places)[k]]
    BY <1>7
  <2>3. EntriesAt(cache, places) \in [1..n -> E]
    BY <2>1, <2>2
  <2> QED BY <1>2, <2>3, LenProperties, SeqDef
<1> QED BY <1>1, <1>2, <1>8, <1>9, <1>10 DEF n

\* So no position gets two entries in it if none had.
LEMMA EntriesApart ==
    ASSUME NEW cache \in Seq(Entry), NEW places \in SUBSET DOMAIN cache,
           \A i, j \in DOMAIN cache : cache[i].cell = cache[j].cell => i = j
    PROVE  \A m, n \in DOMAIN EntriesAt(cache, places) :
              EntriesAt(cache, places)[m].cell = EntriesAt(cache, places)[n].cell => m = n
<1> SUFFICES ASSUME NEW m \in DOMAIN EntriesAt(cache, places),
                    NEW n \in DOMAIN EntriesAt(cache, places),
                    EntriesAt(cache, places)[m].cell = EntriesAt(cache, places)[n].cell
             PROVE  m = n
  OBVIOUS
<1>1. /\ Cardinality(places) \in Nat
      /\ m \in 1..Cardinality(places) /\ n \in 1..Cardinality(places)
  BY EntriesPicked
<1>2. PICK i \in places : Rank(places, i) = m - 1 /\ EntriesAt(cache, places)[m] = cache[i]
  BY <1>1, EntriesPicked
<1>3. PICK j \in places : Rank(places, j) = n - 1 /\ EntriesAt(cache, places)[n] = cache[j]
  BY <1>1, EntriesPicked
<1>4. i = j
  BY <1>2, <1>3
<1> QED BY <1>1, <1>2, <1>3, <1>4

\* What is left without some positions.
LEMMA OthersKept ==
    ASSUME NEW cache, CacheKept(cache), NEW cells
    PROVE  /\ CacheKept(OtherEntries(cache, cells))
           /\ \A n \in DOMAIN OtherEntries(cache, cells) :
                 /\ OtherEntries(cache, cells)[n].cell \notin cells
                 /\ \E i \in DOMAIN cache : OtherEntries(cache, cells)[n] = cache[i]
<1> DEFINE places == DOMAIN cache \ PlacesOf(cache, cells)
           rest == OtherEntries(cache, cells)
<1>1. /\ cache \in Seq(Entry) /\ places \in SUBSET DOMAIN cache
      /\ \A i, j \in DOMAIN cache : cache[i].cell = cache[j].cell => i = j
  BY DEF CacheKept
<1>2. \A i \in places : cache[i].cell \notin cells
  BY DEF PlacesOf
<1>3. rest = EntriesAt(cache, places)
  BY DEF OtherEntries
<1> HIDE DEF places, rest
<1>4. Cardinality(places) <= Len(cache)
  <2>1. DOMAIN cache = 1..Len(cache) /\ Len(cache) \in Nat
    BY <1>1
  <2>2. IsFiniteSet(1..Len(cache)) /\ Cardinality(1..Len(cache)) = Len(cache)
    <3>1. 1 \in Int /\ Len(cache) \in Int
      BY <2>1
    <3>2. /\ IsFiniteSet(1..Len(cache))
          /\ Cardinality(1..Len(cache)) = IF 1 > Len(cache) THEN 0 ELSE Len(cache) - 1 + 1
      BY <3>1, FS_Interval
    <3> QED BY <2>1, <3>2
  <2> QED BY <1>1, <2>1, <2>2, FS_Subset
<1>5. /\ rest \in Seq(Entry) /\ Len(rest) = Cardinality(places) /\ Cardinality(places) \in Nat
      /\ DOMAIN rest = 1..Cardinality(places)
      /\ \A n \in 1..Cardinality(places) : \E i \in places : rest[n] = cache[i]
  BY <1>1, <1>3, EntriesPicked
<1>6. Len(rest) <= CacheSize
  <2>1. Len(cache) <= CacheSize /\ Len(cache) \in Nat
    BY <1>1 DEF CacheKept
  <2> QED BY <1>4, <1>5, <2>1, BlocksAssumption
<1>7. \A m, n \in DOMAIN rest : rest[m].cell = rest[n].cell => m = n
  BY <1>1, <1>3, EntriesApart
<1>8. ASSUME NEW n \in DOMAIN rest
      PROVE  rest[n].cell \notin cells /\ \E i \in DOMAIN cache : rest[n] = cache[i]
  BY <1>1, <1>2, <1>5
<1> QED BY <1>5, <1>6, <1>7, <1>8 DEF CacheKept, rest

LEMMA PutKeeps ==
    ASSUME NEW cache, CacheKept(cache), NEW cell \in Cells, NEW state \in States
    PROVE  /\ CacheKept(Put(cache, cell, state))
           /\ Caches(Put(cache, cell, state), cell, state)
           /\ \A c \in Cells : c # cell => From(Put(cache, cell, state), cache, c)
<1> DEFINE rest == OtherEntries(cache, {cell})
           entry == [cell |-> cell, state |-> state]
           longer == Append(rest, entry)
           put == Put(cache, cell, state)
<1>1. CacheKept(rest) /\ entry \in Entry
  BY OthersKept DEF Entry
<1>2. \A n \in DOMAIN rest : rest[n].cell # cell /\ \E i \in DOMAIN cache : rest[n] = cache[i]
  <2> DEFINE cells == {cell}
  <2>1. cell \in cells /\ rest = OtherEntries(cache, cells)
    OBVIOUS
  <2> HIDE DEF cells, rest
  <2>2. \A n \in DOMAIN rest :
           rest[n].cell \notin cells /\ \E i \in DOMAIN cache : rest[n] = cache[i]
    BY <2>1, OthersKept
  <2> QED BY <2>1, <2>2
<1>3. put = IF Len(longer) > CacheSize THEN Tail(longer) ELSE longer
  BY DEF Put
<1>4. entry.cell = cell /\ entry.state = state
  OBVIOUS
<1> HIDE DEF rest, entry, put
<1>5. rest \in Seq(Entry) /\ Len(rest) <= CacheSize /\ CacheSize \in Nat \ {0}
  BY <1>1, BlocksAssumption DEF CacheKept
<1>6. /\ longer \in Seq(Entry) /\ Len(longer) = Len(rest) + 1 /\ Len(longer) \in Nat
      /\ DOMAIN longer = 1..(Len(rest) + 1) /\ DOMAIN rest = 1..Len(rest) /\ Len(rest) \in Nat
      /\ \A n \in DOMAIN rest : longer[n] = rest[n]
      /\ longer[Len(rest) + 1] = entry
  BY <1>1, <1>5
<1> HIDE DEF longer
<1>7. \A n \in DOMAIN longer : n \in DOMAIN rest \/ n = Len(rest) + 1
  BY <1>6
<1>8. \A m, n \in DOMAIN longer : longer[m].cell = longer[n].cell => m = n
  <2>1. \A m, n \in DOMAIN rest : rest[m].cell = rest[n].cell => m = n
    BY <1>1 DEF CacheKept
  <2> QED BY <1>2, <1>4, <1>6, <1>7, <2>1
<1>9. \A n \in DOMAIN longer :
         \/ longer[n] = entry
         \/ longer[n].cell # cell /\ \E i \in DOMAIN cache : longer[n] = cache[i]
  BY <1>2, <1>6, <1>7
<1>10. CASE Len(longer) > CacheSize
  <2>1. put = Tail(longer)
    BY <1>3, <1>10
  <2>2. /\ put \in Seq(Entry) /\ Len(put) = Len(longer) - 1
        /\ DOMAIN put = 1..(Len(longer) - 1)
        /\ \A n \in DOMAIN put : n + 1 \in DOMAIN longer /\ put[n] = longer[n + 1]
    <3>1. longer # <<>> /\ DOMAIN longer = 1..Len(longer)
      BY <1>6
    <3> QED BY <1>6, <2>1, <3>1
  <2>3. Len(put) <= CacheSize
    BY <1>5, <1>6, <2>2
  <2>4. \A m, n \in DOMAIN put : put[m].cell = put[n].cell => m = n
    <3>1. \A m, n \in DOMAIN put : put[m].cell = put[n].cell => m + 1 = n + 1
      BY <1>8, <2>2
    <3> QED BY <1>6, <2>2, <3>1
  <2>5. CacheKept(put)
    BY <2>2, <2>3, <2>4 DEF CacheKept
  <2>6. \A n \in DOMAIN put :
           \/ put[n] = entry
           \/ put[n].cell # cell /\ \E i \in DOMAIN cache : put[n] = cache[i]
    BY <1>9, <2>2
  <2> QED BY <1>4, <2>5, <2>6 DEF Caches, From, put
<1>11. CASE ~(Len(longer) > CacheSize)
  <2>1. put = longer
    BY <1>3, <1>11
  <2>2. CacheKept(put)
    BY <1>5, <1>6, <1>8, <1>11, <2>1 DEF CacheKept
  <2> QED BY <1>4, <1>9, <2>1, <2>2 DEF Caches, From, put
<1> QED BY <1>10, <1>11

\* An entry that is found moves to the back, and none is lost.
LEMMA TouchKeeps ==
    ASSUME NEW cache, CacheKept(cache), NEW cell
    PROVE  /\ CacheKept(Touch(cache, cell))
           /\ \A c : From(Touch(cache, cell), cache, c)
<1> DEFINE mine == PlacesOf(cache, {cell})
           others == DOMAIN cache \ mine
           front == EntriesAt(cache, others)
           back == EntriesAt(cache, mine)
           touched == Touch(cache, cell)
<1>1. /\ cache \in Seq(Entry) /\ mine \in SUBSET DOMAIN cache /\ others \in SUBSET DOMAIN cache
      /\ Len(cache) <= CacheSize /\ others \cup mine = DOMAIN cache /\ others \cap mine = {}
      /\ \A i, j \in DOMAIN cache : cache[i].cell = cache[j].cell => i = j
      /\ \A i \in others, j \in mine : i # j
  BY DEF CacheKept, PlacesOf
<1>2. touched = front \o back
  BY DEF Touch, OtherEntries
<1> HIDE DEF mine, others
<1>3. /\ front \in Seq(Entry) /\ Len(front) = Cardinality(others)
      /\ DOMAIN front = 1..Cardinality(others) /\ Cardinality(others) \in Nat
      /\ IsFiniteSet(others)
      /\ \A n \in 1..Cardinality(others) : \E i \in others : front[n] = cache[i]
  <2>1. cache \in Seq(Entry) /\ others \in SUBSET DOMAIN cache
    BY <1>1
  <2> QED BY <2>1, EntriesPicked
<1>4. /\ back \in Seq(Entry) /\ Len(back) = Cardinality(mine)
      /\ DOMAIN back = 1..Cardinality(mine) /\ Cardinality(mine) \in Nat
      /\ IsFiniteSet(mine)
      /\ \A n \in 1..Cardinality(mine) : \E i \in mine : back[n] = cache[i]
  BY <1>1, EntriesPicked
<1>5. /\ \A m, n \in DOMAIN front : front[m].cell = front[n].cell => m = n
      /\ \A m, n \in DOMAIN back : back[m].cell = back[n].cell => m = n
  BY <1>1, EntriesApart
<1>6. Cardinality(others) + Cardinality(mine) = Len(cache)
  <2>1. Cardinality(others \cup mine) = Cardinality(others) + Cardinality(mine) - Cardinality({})
    <3>1. IsFiniteSet(others) /\ IsFiniteSet(mine) /\ others \cap mine = {}
      BY <1>1, <1>3, <1>4, Zenon
    <3>2. Cardinality(others \cup mine)
              = Cardinality(others) + Cardinality(mine) - Cardinality(others \cap mine)
      BY <3>1, FS_Union, Zenon
    <3> QED BY <3>1, <3>2, Zenon
  <2>2. Cardinality({}) = 0
    BY FS_EmptySet
  <2>3. DOMAIN cache = 1..Len(cache) /\ Len(cache) \in Nat
    BY <1>1
  <2>4. Cardinality(1..Len(cache)) = Len(cache)
    <3>1. 1 \in Int /\ Len(cache) \in Int
      BY <2>3
    <3>2. Cardinality(1..Len(cache)) = IF 1 > Len(cache) THEN 0 ELSE Len(cache) - 1 + 1
      BY <3>1, FS_Interval
    <3> QED BY <2>3, <3>2
  <2>5. Cardinality(others \cup mine) = Len(cache)
    BY <1>1, <2>3, <2>4
  <2> QED BY <1>3, <1>4, <2>1, <2>2, <2>5
<1> HIDE DEF front, back, touched
<1>7. /\ touched \in Seq(Entry) /\ Len(touched) = Len(front) + Len(back)
      /\ DOMAIN touched = 1..(Len(front) + Len(back))
      /\ \A n \in DOMAIN touched :
            touched[n] = IF n <= Len(front) THEN front[n] ELSE back[n - Len(front)]
  <2>1. front \in Seq(Entry) /\ back \in Seq(Entry) /\ touched = front \o back
    BY <1>2, <1>3, <1>4
  <2>2. Len(front) \in Nat /\ Len(back) \in Nat
    BY <1>3, <1>4
  <2>3. /\ touched \in Seq(Entry) /\ Len(touched) = Len(front) + Len(back)
        /\ \A n \in 1..(Len(front) + Len(back)) :
              touched[n] = IF n <= Len(front) THEN front[n] ELSE back[n - Len(front)]
    BY <2>1, ConcatProperties
  <2>4. DOMAIN touched = 1..Len(touched)
    BY <2>3
  <2> QED BY <2>2, <2>3, <2>4
<1>8. ASSUME NEW n \in DOMAIN touched
      PROVE  \/ /\ n <= Len(front) /\ n \in DOMAIN front /\ touched[n] = front[n]
                /\ \E i \in others : touched[n] = cache[i]
             \/ /\ ~(n <= Len(front)) /\ n - Len(front) \in DOMAIN back
                /\ touched[n] = back[n - Len(front)]
                /\ \E i \in mine : touched[n] = cache[i]
  <2>1. n \in 1..(Len(front) + Len(back)) /\ Len(front) \in Nat /\ Len(back) \in Nat
    BY <1>3, <1>4, <1>7
  <2>2. CASE n <= Len(front)
    <3>1. n \in 1..Cardinality(others)
      BY <1>3, <2>1, <2>2
    <3> QED BY <1>3, <1>7, <2>2, <3>1
  <2>3. CASE ~(n <= Len(front))
    <3>1. n - Len(front) \in 1..Cardinality(mine)
      BY <1>4, <2>1, <2>3
    <3> QED BY <1>4, <1>7, <2>3, <3>1
  <2> QED BY <2>2, <2>3
<1>9. ASSUME NEW m \in DOMAIN touched, NEW n \in DOMAIN touched,
             touched[m].cell = touched[n].cell
      PROVE  m = n
  <2>1. m \in Int /\ n \in Int /\ Len(front) \in Int
    BY <1>3, <1>7
  <2>2. CASE m <= Len(front) /\ n <= Len(front)
    BY <1>5, <1>8, <1>9, <2>2
  <2>3. CASE ~(m <= Len(front)) /\ ~(n <= Len(front))
    <3>1. m - Len(front) = n - Len(front)
      BY <1>5, <1>8, <1>9, <2>3
    <3> QED BY <2>1, <3>1
  <2>4. CASE m <= Len(front) /\ ~(n <= Len(front))
    <3>1. PICK i \in others : touched[m] = cache[i]
      BY <1>8, <2>4
    <3>2. PICK j \in mine : touched[n] = cache[j]
      BY <1>8, <2>4
    <3>3. i = j
      BY <1>1, <1>9, <3>1, <3>2
    <3> QED BY <1>1, <3>3
  <2>5. CASE ~(m <= Len(front)) /\ n <= Len(front)
    <3>1. PICK i \in others : touched[n] = cache[i]
      BY <1>8, <2>5
    <3>2. PICK j \in mine : touched[m] = cache[j]
      BY <1>8, <2>5
    <3>3. i = j
      BY <1>1, <1>9, <3>1, <3>2
    <3> QED BY <1>1, <3>3
  <2> QED BY <2>2, <2>3, <2>4, <2>5
<1>10. Len(touched) <= CacheSize
  BY <1>1, <1>3, <1>4, <1>6, <1>7
<1>11. \A n \in DOMAIN touched : \E i \in DOMAIN cache : touched[n] = cache[i]
  BY <1>1, <1>8
<1> QED BY <1>7, <1>9, <1>10, <1>11 DEF CacheKept, From, touched

\* What the cache finds is one of its states of the position.
LEMMA FoundIn ==
    ASSUME NEW cache, CacheKept(cache), NEW cell, NEW state,
           Caches(cache, cell, state)
    PROVE  StateIn(cache, cell) \in {state, Unknown}
<1>1. \A e : e \in Cached(cache, cell) <=>
              \E i \in DOMAIN cache : e = cache[i] /\ cache[i].cell = cell
  BY DEF Cached, ToSet
<1>2. \A e \in Cached(cache, cell) : e.state = state
  BY <1>1 DEF Caches
<1> QED BY <1>2 DEF StateIn

LEMMA RemoveChunkKeeps ==
    ASSUME NEW cache, CacheKept(cache), NEW chunk
    PROVE  /\ CacheKept(RemoveChunk(cache, chunk))
           /\ \A c : From(RemoveChunk(cache, chunk), cache, c)
<1>1. /\ CacheKept(RemoveChunk(cache, chunk))
      /\ \A n \in DOMAIN RemoveChunk(cache, chunk) :
            \E i \in DOMAIN cache : RemoveChunk(cache, chunk)[n] = cache[i]
  BY OthersKept DEF RemoveChunk
<1> QED BY <1>1 DEF From

LEMMA FromGives ==
    ASSUME NEW a, NEW b, NEW cell, From(a, b, cell)
    PROVE  /\ \A state : Caches(b, cell, state) => Caches(a, cell, state)
           /\ \A d : From(b, d, cell) => From(a, d, cell)
BY DEF From, Caches

(***************************************************************************)
(* The context of block entities                                           *)
(***************************************************************************)
\* What can be forgotten chunk by chunk.
ContextKept(ctx) ==
    /\ DOMAIN ctx = {"cache", "states", "chunks"}
    /\ CacheKept(ctx.cache)
    /\ \A x \in DOMAIN ctx.chunks : x \in Chunks /\ ctx.chunks[x] \subseteq CellsOf(x)
    /\ DOMAIN ctx.states = UNION {ctx.chunks[x] : x \in DOMAIN ctx.chunks}

\* What is remembered of the blocks with a block entity that the server has sent.
CurrentAt(ctx, w, c) ==
    /\ Caches(ctx.cache, c, w[c].state)
    /\ c \in DOMAIN ctx.states => ctx.states[c] \in {w[c].state, Unknown}

Current(ctx, w, sent) ==
    \A c \in Cells : ChunkOf[c] \in sent /\ HasEntity(w, c) => CurrentAt(ctx, w, c)

\* The context after the change of some blocks to one state.
Changed(ctx, r, S, state) ==
    /\ DOMAIN r = {"cache", "states", "chunks"} /\ CacheKept(r.cache)
    /\ r.chunks = ctx.chunks /\ DOMAIN r.states = DOMAIN ctx.states
    /\ \A c \in S :
          /\ Caches(r.cache, c, state)
          /\ c \in DOMAIN r.states =>
                r.states[c] = IF state \in Registered THEN state ELSE Unknown
    /\ \A c \in Cells \ S :
          /\ From(r.cache, ctx.cache, c)
          /\ c \in DOMAIN r.states => r.states[c] = ctx.states[c]

LEMMA ChangeOne ==
    ASSUME NEW ctx, NEW state \in States, NEW S \in SUBSET Cells, NEW cell \in S, NEW r,
           Changed(ctx, r, S \ {cell}, state)
    PROVE  Changed(ctx, RememberChange(r, cell, state), S, state)
<1> DEFINE q == RememberChange(r, cell, state)
           cache == Put(r.cache, cell, state)
<1>1. /\ DOMAIN r = {"cache", "states", "chunks"} /\ CacheKept(r.cache) /\ cell \in Cells
      /\ r.chunks = ctx.chunks /\ DOMAIN r.states = DOMAIN ctx.states
  BY DEF Changed
<1>2. /\ DOMAIN q = {"cache", "states", "chunks"} /\ q.cache = cache /\ q.chunks = r.chunks
      /\ DOMAIN q.states = DOMAIN r.states
      /\ cell \in DOMAIN q.states =>
            q.states[cell] = IF state \in Registered THEN state ELSE Unknown
      /\ \A c \in DOMAIN q.states : c # cell => q.states[c] = r.states[c]
  BY <1>1 DEF RememberChange
<1>3. /\ CacheKept(cache) /\ Caches(cache, cell, state)
      /\ \A c \in Cells : c # cell => From(cache, r.cache, c)
  BY <1>1, PutKeeps
<1> HIDE DEF q, cache
<1>4. ASSUME NEW c \in S
      PROVE  /\ Caches(cache, c, state)
             /\ c \in DOMAIN q.states =>
                   q.states[c] = IF state \in Registered THEN state ELSE Unknown
  <2>1. CASE c = cell
    BY <1>2, <1>3, <2>1
  <2>2. CASE c # cell
    <3>1. Caches(r.cache, c, state) /\ From(cache, r.cache, c)
      BY <1>3, <2>2 DEF Changed
    <3>2. Caches(cache, c, state)
      BY <3>1, FromGives
    <3> QED BY <1>2, <2>2, <3>2 DEF Changed
  <2> QED BY <2>1, <2>2
<1>5. ASSUME NEW c \in Cells \ S
      PROVE  /\ From(cache, ctx.cache, c)
             /\ c \in DOMAIN q.states => q.states[c] = ctx.states[c]
  <2>1. From(cache, r.cache, c) /\ From(r.cache, ctx.cache, c) /\ c # cell
    BY <1>3 DEF Changed
  <2>2. From(cache, ctx.cache, c)
    BY <2>1, FromGives
  <2> QED BY <1>2, <2>1, <2>2 DEF Changed
<1>6. Changed(ctx, q, S, state)
  BY <1>1, <1>2, <1>3, <1>4, <1>5 DEF Changed
<1> QED BY <1>6 DEF q

LEMMA FoldChanges ==
    ASSUME NEW ctx, ContextKept(ctx), NEW state \in States,
           NEW S \in SUBSET Cells, NEW f, Folds(f, <<"change", state>>, ctx, S)
    PROVE  Changed(ctx, f[S], S, state)
<1> DEFINE T == {s \in SUBSET S : Changed(ctx, f[s], s, state)}
<1>1. IsFiniteSet(S)
  BY BlocksAssumption, FS_Subset
<1>2. ASSUME NEW s \in SUBSET S, \A r \in SUBSET s : r # s => r \in T
      PROVE  s \in T
  <2>1. CASE s = {}
    <3>1. f[s] = ctx
      BY <2>1 DEF Folds
    <3>2. Changed(ctx, ctx, s, state)
      BY <2>1 DEF Changed, ContextKept, From
    <3> QED BY <3>1, <3>2
  <2>2. CASE s # {}
    <3> DEFINE x == Picked(s)
    <3>1. x \in s /\ s \ {x} \in T
      BY <1>2, <2>2 DEF Picked
    <3>2. f[s] = RememberChange(f[s \ {x}], x, state)
      BY <2>2 DEF Folds, FoldStep
    <3>3. Changed(ctx, f[s \ {x}], s \ {x}, state) /\ s \in SUBSET Cells
      BY <3>1
    <3> HIDE DEF x
    <3> QED BY <3>1, <3>2, <3>3, ChangeOne
  <2> QED BY <2>1, <2>2
<1> HIDE DEF T
<1>3. S \in T
  BY <1>1, <1>2, SetInduction
<1> QED BY <1>3 DEF T

\* The cache after a chunk's known block entities are put in it.
PutAll(old, cache, S, w) ==
    /\ CacheKept(cache)
    /\ \A c \in S : Caches(cache, c, w[c].state)
    /\ \A c \in Cells \ S : From(cache, old, c)

LEMMA FoldPuts ==
    ASSUME NEW old, CacheKept(old), NEW w \in [Cells -> Content],
           NEW S \in SUBSET Cells, NEW f, Folds(f, <<"put", w>>, old, S)
    PROVE  PutAll(old, f[S], S, w)
<1> DEFINE T == {s \in SUBSET S : PutAll(old, f[s], s, w)}
<1>1. IsFiniteSet(S)
  BY BlocksAssumption, FS_Subset
<1>2. ASSUME NEW s \in SUBSET S, \A r \in SUBSET s : r # s => r \in T
      PROVE  s \in T
  <2>1. CASE s = {}
    <3>1. f[s] = old
      BY <2>1 DEF Folds
    <3>2. PutAll(old, old, s, w)
      BY <2>1 DEF PutAll, From
    <3> QED BY <3>1, <3>2
  <2>2. CASE s # {}
    <3> DEFINE x == Picked(s)
               r == s \ {x}
    <3>1. x \in s /\ x \in Cells /\ r \in T /\ r \subseteq Cells
      BY <1>2, <2>2 DEF Picked
    <3>2. f[s] = Put(f[r], x, w[x].state)
      BY <2>2 DEF Folds, FoldStep
    <3>3. PutAll(old, f[r], r, w)
      BY <3>1
    <3>4. w[x].state \in States
      BY <3>1 DEF Content
    <3>5. /\ CacheKept(f[s]) /\ Caches(f[s], x, w[x].state)
          /\ \A c \in Cells : c # x => From(f[s], f[r], c)
      <4>1. CacheKept(f[r])
        BY <3>3 DEF PutAll
      <4> HIDE DEF x, r
      <4> QED BY <3>1, <3>2, <3>4, <4>1, PutKeeps
    <3>6. ASSUME NEW c \in s PROVE Caches(f[s], c, w[c].state)
      <4>1. CASE c = x
        BY <3>5, <4>1
      <4>2. CASE c # x
        <5>1. Caches(f[r], c, w[c].state) /\ From(f[s], f[r], c)
          BY <3>3, <3>5, <4>2 DEF PutAll
        <5> QED BY <5>1, FromGives
      <4> QED BY <4>1, <4>2
    <3>7. ASSUME NEW c \in Cells \ s PROVE From(f[s], old, c)
      <4>1. From(f[r], old, c) /\ From(f[s], f[r], c)
        BY <3>1, <3>3, <3>5 DEF PutAll
      <4> QED BY <4>1, FromGives
    <3> QED BY <3>5, <3>6, <3>7 DEF PutAll
  <2> QED BY <2>1, <2>2
<1> HIDE DEF T
<1>3. S \in T
  BY <1>1, <1>2, SetInduction
<1> QED BY <1>3 DEF T

(***************************************************************************)
(* The client                                                              *)
(***************************************************************************)
\* The client q after one block was shown.
ShownOnce(seen, q, cell, block) ==
    /\ DOMAIN q = {"cells", "mobs"}
    /\ DOMAIN q.cells = DOMAIN seen.cells \cup {cell}
    /\ q.cells[cell] = block
    /\ \A c \in DOMAIN seen.cells : c # cell => q.cells[c] = seen.cells[c]
    /\ DOMAIN q.mobs = IF block = Spawner THEN DOMAIN seen.mobs ELSE DOMAIN seen.mobs \ {cell}
    /\ \A c \in DOMAIN q.mobs : q.mobs[c] = seen.mobs[c]

LEMMA ShowsGives ==
    ASSUME NEW seen, DOMAIN seen = {"cells", "mobs"}, NEW cell, NEW state
    PROVE  ShownOnce(seen, Shows(seen, cell, state), cell, Bedrock(state))
<1> DEFINE block == Bedrock(state)
           q == Shows(seen, cell, state)
<1>1. q = [cells |-> Extend(seen.cells, [c \in {cell} |-> block]),
           mobs |-> IF block = Spawner THEN seen.mobs ELSE Drop(seen.mobs, {cell})]
  BY DEF Shows
<1> HIDE DEF block, q
<1>2. /\ DOMAIN q.cells = DOMAIN seen.cells \cup {cell} /\ q.cells[cell] = block
      /\ \A c \in DOMAIN seen.cells : c # cell => q.cells[c] = seen.cells[c]
  BY <1>1 DEF Extend
<1>3. /\ DOMAIN q.mobs = IF block = Spawner THEN DOMAIN seen.mobs ELSE DOMAIN seen.mobs \ {cell}
      /\ \A c \in DOMAIN q.mobs : q.mobs[c] = seen.mobs[c]
  BY <1>1 DEF Drop
<1>4. DOMAIN q = {"cells", "mobs"}
  BY <1>1
<1>5. ShownOnce(seen, q, cell, block)
  BY <1>2, <1>3, <1>4 DEF ShownOnce
<1> QED BY <1>5 DEF block, q

\* The client after some blocks are shown, each in a state.
Painted(seen, r, S, to) ==
    /\ DOMAIN r = {"cells", "mobs"}
    /\ DOMAIN r.cells = DOMAIN seen.cells \cup S
    /\ \A c \in S : r.cells[c] = Bedrock(to[c])
    /\ \A c \in DOMAIN seen.cells \ S : r.cells[c] = seen.cells[c]
    /\ \A c \in DOMAIN r.mobs :
          /\ c \in DOMAIN seen.mobs /\ r.mobs[c] = seen.mobs[c]
          /\ c \in S => Bedrock(to[c]) = Spawner
    /\ \A c \in DOMAIN seen.mobs : (c \in S => Bedrock(to[c]) = Spawner) => c \in DOMAIN r.mobs

LEMMA PaintOne ==
    ASSUME NEW seen, NEW S, NEW to, NEW cell \in S, NEW r, Painted(seen, r, S \ {cell}, to)
    PROVE  Painted(seen, Shows(r, cell, to[cell]), S, to)
<1> DEFINE q == Shows(r, cell, to[cell])
<1>1. DOMAIN r = {"cells", "mobs"}
  BY DEF Painted
<1>2. /\ DOMAIN q = {"cells", "mobs"}
      /\ DOMAIN q.cells = DOMAIN r.cells \cup {cell}
      /\ q.cells[cell] = Bedrock(to[cell])
      /\ \A c \in DOMAIN r.cells : c # cell => q.cells[c] = r.cells[c]
      /\ DOMAIN q.mobs = IF Bedrock(to[cell]) = Spawner THEN DOMAIN r.mobs
                         ELSE DOMAIN r.mobs \ {cell}
      /\ \A c \in DOMAIN q.mobs : q.mobs[c] = r.mobs[c]
  <2>1. ShownOnce(r, q, cell, Bedrock(to[cell]))
    BY <1>1, ShowsGives
  <2> QED BY <2>1 DEF ShownOnce
<1> HIDE DEF q
<1>3. /\ DOMAIN q.cells = DOMAIN seen.cells \cup S
      /\ \A c \in S : q.cells[c] = Bedrock(to[c])
      /\ \A c \in DOMAIN seen.cells \ S : q.cells[c] = seen.cells[c]
  BY <1>2 DEF Painted
<1>4. ASSUME NEW c \in DOMAIN q.mobs
      PROVE  /\ c \in DOMAIN seen.mobs /\ q.mobs[c] = seen.mobs[c]
             /\ c \in S => Bedrock(to[c]) = Spawner
  BY <1>2 DEF Painted
<1>5. ASSUME NEW c \in DOMAIN seen.mobs, c \in S => Bedrock(to[c]) = Spawner
      PROVE  c \in DOMAIN q.mobs
  BY <1>2, <1>5 DEF Painted
<1>6. Painted(seen, q, S, to)
  BY <1>2, <1>3, <1>4, <1>5 DEF Painted
<1> QED BY <1>6 DEF q

LEMMA PaintNone ==
    ASSUME NEW seen, DOMAIN seen = {"cells", "mobs"}, NEW to
    PROVE  Painted(seen, seen, {}, to)
BY DEF Painted

LEMMA FoldShows ==
    ASSUME NEW seen, DOMAIN seen = {"cells", "mobs"}, NEW S \in SUBSET Cells, NEW state,
           NEW f, Folds(f, <<"shows", state>>, seen, S)
    PROVE  Painted(seen, f[S], S, [c \in Cells |-> state])
<1> DEFINE to == [c \in Cells |-> state]
           T == {s \in SUBSET S : Painted(seen, f[s], s, to)}
<1>1. IsFiniteSet(S)
  BY BlocksAssumption, FS_Subset
<1>2. ASSUME NEW s \in SUBSET S, \A r \in SUBSET s : r # s => r \in T
      PROVE  s \in T
  <2>1. CASE s = {}
    <3>1. f[s] = seen
      BY <2>1 DEF Folds
    <3> QED BY <2>1, <3>1, PaintNone
  <2>2. CASE s # {}
    <3> DEFINE x == Picked(s)
               r == s \ {x}
    <3>1. x \in s /\ x \in Cells /\ r \in T
      BY <1>2, <2>2 DEF Picked
    <3>2. f[s] = Shows(f[r], x, state)
      BY <2>2 DEF Folds, FoldStep
    <3>3. to[x] = state /\ Painted(seen, f[s \ {x}], s \ {x}, to)
      BY <3>1
    <3>4. f[s] = Shows(f[s \ {x}], x, to[x])
      BY <3>2, <3>3
    <3> HIDE DEF x, r, to
    <3>5. Painted(seen, Shows(f[s \ {x}], x, to[x]), s, to)
      BY <3>1, <3>3, PaintOne
    <3> QED BY <3>4, <3>5
  <2> QED BY <2>1, <2>2
<1> HIDE DEF T
<1>3. S \in T
  BY <1>1, <1>2, SetInduction
<1> QED BY <1>3 DEF T

LEMMA FoldChunk ==
    ASSUME NEW seen, DOMAIN seen = {"cells", "mobs"}, NEW S \in SUBSET Cells, NEW w,
           NEW f, Folds(f, <<"chunk", w>>, seen, S)
    PROVE  Painted(seen, f[S], S, [c \in Cells |-> w[c].state])
<1> DEFINE to == [c \in Cells |-> w[c].state]
           T == {s \in SUBSET S : Painted(seen, f[s], s, to)}
<1>1. IsFiniteSet(S)
  BY BlocksAssumption, FS_Subset
<1>2. ASSUME NEW s \in SUBSET S, \A r \in SUBSET s : r # s => r \in T
      PROVE  s \in T
  <2>1. CASE s = {}
    <3>1. f[s] = seen
      BY <2>1 DEF Folds
    <3> QED BY <2>1, <3>1, PaintNone
  <2>2. CASE s # {}
    <3> DEFINE x == Picked(s)
               r == s \ {x}
    <3>1. x \in s /\ x \in Cells /\ r \in T
      BY <1>2, <2>2 DEF Picked
    <3>2. f[s] = Shows(f[r], x, w[x].state)
      BY <2>2 DEF Folds, FoldStep
    <3>3. to[x] = w[x].state /\ Painted(seen, f[s \ {x}], s \ {x}, to)
      BY <3>1
    <3>4. f[s] = Shows(f[s \ {x}], x, to[x])
      BY <3>2, <3>3
    <3> HIDE DEF x, r, to
    <3>5. Painted(seen, Shows(f[s \ {x}], x, to[x]), s, to)
      BY <3>1, <3>3, PaintOne
    <3> QED BY <3>4, <3>5
  <2> QED BY <2>1, <2>2
<1> HIDE DEF T
<1>3. S \in T
  BY <1>1, <1>2, SetInduction
<1> QED BY <1>3 DEF T

\* Air and a spawner are what they are for the client too.
LEMMA BedrockOwn ==
    /\ Bedrock(Air) = Air /\ Bedrock(Spawner) = Spawner /\ Air # Spawner
    /\ \A state : Bedrock(state) = Spawner => state = Spawner
BY BlocksAssumption DEF Bedrock

\* The client after some spawners were taken away and put again.
Emptied(seen, r, S) ==
    /\ DOMAIN r = {"cells", "mobs"}
    /\ DOMAIN r.cells = DOMAIN seen.cells \cup S
    /\ \A c \in S : r.cells[c] = Spawner
    /\ \A c \in DOMAIN seen.cells \ S : r.cells[c] = seen.cells[c]
    /\ DOMAIN r.mobs = DOMAIN seen.mobs \ S
    /\ \A c \in DOMAIN r.mobs : r.mobs[c] = seen.mobs[c]

LEMMA EmptyOne ==
    ASSUME NEW seen, NEW S, NEW cell \in S, NEW r, Emptied(seen, r, S \ {cell})
    PROVE  Emptied(seen, Shows(Shows(r, cell, Air), cell, Spawner), S)
<1> DEFINE p == Shows(r, cell, Air)
           q == Shows(p, cell, Spawner)
<1>1. DOMAIN r = {"cells", "mobs"}
  BY DEF Emptied
<1>2. /\ DOMAIN p = {"cells", "mobs"}
      /\ DOMAIN p.cells = DOMAIN r.cells \cup {cell}
      /\ \A c \in DOMAIN r.cells : c # cell => p.cells[c] = r.cells[c]
      /\ DOMAIN p.mobs = DOMAIN r.mobs \ {cell}
      /\ \A c \in DOMAIN p.mobs : p.mobs[c] = r.mobs[c]
  <2>1. ShownOnce(r, p, cell, Air)
    BY <1>1, ShowsGives, BedrockOwn
  <2> HIDE DEF p
  <2> QED BY <2>1, BedrockOwn DEF ShownOnce
<1> HIDE DEF p
<1>3. /\ DOMAIN q = {"cells", "mobs"}
      /\ DOMAIN q.cells = DOMAIN p.cells \cup {cell}
      /\ q.cells[cell] = Spawner
      /\ \A c \in DOMAIN p.cells : c # cell => q.cells[c] = p.cells[c]
      /\ DOMAIN q.mobs = DOMAIN p.mobs
      /\ \A c \in DOMAIN q.mobs : q.mobs[c] = p.mobs[c]
  <2>1. ShownOnce(p, q, cell, Spawner)
    BY <1>2, ShowsGives, BedrockOwn
  <2> HIDE DEF q
  <2> QED BY <2>1 DEF ShownOnce
<1> HIDE DEF q
<1>4. Emptied(seen, q, S)
  BY <1>2, <1>3 DEF Emptied
<1> QED BY <1>4 DEF p, q

LEMMA FoldResets ==
    ASSUME NEW seen, DOMAIN seen = {"cells", "mobs"}, NEW S \in SUBSET Cells,
           NEW f, Folds(f, <<"reset">>, seen, S)
    PROVE  Emptied(seen, f[S], S)
<1> DEFINE T == {s \in SUBSET S : Emptied(seen, f[s], s)}
<1>1. IsFiniteSet(S)
  BY BlocksAssumption, FS_Subset
<1>2. ASSUME NEW s \in SUBSET S, \A r \in SUBSET s : r # s => r \in T
      PROVE  s \in T
  <2>1. CASE s = {}
    <3>1. f[s] = seen
      BY <2>1 DEF Folds
    <3> QED BY <2>1, <3>1 DEF Emptied
  <2>2. CASE s # {}
    <3> DEFINE x == Picked(s)
    <3>1. x \in s /\ s \ {x} \in T
      BY <1>2, <2>2 DEF Picked
    <3>2. f[s] = Shows(Shows(f[s \ {x}], x, Air), x, Spawner)
      BY <2>2 DEF Folds, FoldStep
    <3>3. Emptied(seen, f[s \ {x}], s \ {x})
      BY <3>1
    <3> HIDE DEF x
    <3>4. Emptied(seen, Shows(Shows(f[s \ {x}], x, Air), x, Spawner), s)
      BY <3>1, <3>3, EmptyOne
    <3> QED BY <3>2, <3>4
  <2> QED BY <2>1, <2>2
<1> HIDE DEF T
<1>3. S \in T
  BY <1>1, <1>2, SetInduction
<1> QED BY <1>3 DEF T

\* And after it was told what some spawners hold.
Filled(seen, r, S, w) ==
    /\ DOMAIN r = {"cells", "mobs"} /\ r.cells = seen.cells
    /\ \A c : c \in DOMAIN r.mobs <=> c \in DOMAIN seen.mobs \/ (c \in S /\ w[c].mob # NoMob)
    /\ \A c \in DOMAIN r.mobs :
          r.mobs[c] = IF c \in S /\ w[c].mob # NoMob THEN w[c].mob ELSE seen.mobs[c]

LEMMA MobOne ==
    ASSUME NEW seen, DOMAIN seen = {"cells", "mobs"}, NEW cell, NEW mob
    PROVE  /\ DOMAIN ShowsMob(seen, cell, mob) = {"cells", "mobs"}
           /\ ShowsMob(seen, cell, mob).cells = seen.cells
           /\ \A c : c \in DOMAIN ShowsMob(seen, cell, mob).mobs <=>
                        c \in DOMAIN seen.mobs \/ (c = cell /\ mob # NoMob)
           /\ \A c \in DOMAIN ShowsMob(seen, cell, mob).mobs :
                 ShowsMob(seen, cell, mob).mobs[c] =
                    IF c = cell /\ mob # NoMob THEN mob ELSE seen.mobs[c]
<1>1. CASE mob = NoMob
  BY <1>1 DEF ShowsMob
<1>2. CASE mob # NoMob
  <2>1. ShowsMob(seen, cell, mob) = [seen EXCEPT !.mobs = Extend(seen.mobs, [c \in {cell} |-> mob])]
    BY <1>2 DEF ShowsMob
  <2> QED BY <1>2, <2>1 DEF Extend
<1> QED BY <1>1, <1>2

LEMMA FoldMobs ==
    ASSUME NEW seen, DOMAIN seen = {"cells", "mobs"}, NEW S \in SUBSET Cells, NEW w,
           NEW f, Folds(f, <<"mob", w>>, seen, S)
    PROVE  Filled(seen, f[S], S, w)
<1> DEFINE T == {s \in SUBSET S : Filled(seen, f[s], s, w)}
<1>1. IsFiniteSet(S)
  BY BlocksAssumption, FS_Subset
<1>2. ASSUME NEW s \in SUBSET S, \A r \in SUBSET s : r # s => r \in T
      PROVE  s \in T
  <2>1. CASE s = {}
    <3>1. f[s] = seen
      BY <2>1 DEF Folds
    <3> QED BY <2>1, <3>1 DEF Filled
  <2>2. CASE s # {}
    <3> DEFINE x == Picked(s)
               r == f[s \ {x}]
    <3>1. x \in s /\ s \ {x} \in T
      BY <1>2, <2>2 DEF Picked
    <3>2. f[s] = ShowsMob(r, x, w[x].mob)
      BY <2>2 DEF Folds, FoldStep
    <3>3. Filled(seen, r, s \ {x}, w)
      BY <3>1
    <3> HIDE DEF x, r
    <3>4. /\ DOMAIN f[s] = {"cells", "mobs"} /\ f[s].cells = r.cells
          /\ \A c : c \in DOMAIN f[s].mobs <=>
                       c \in DOMAIN r.mobs \/ (c = x /\ w[x].mob # NoMob)
          /\ \A c \in DOMAIN f[s].mobs :
                f[s].mobs[c] = IF c = x /\ w[x].mob # NoMob THEN w[x].mob ELSE r.mobs[c]
      <4>1. DOMAIN r = {"cells", "mobs"}
        BY <3>3 DEF Filled
      <4> QED BY <3>2, <4>1, MobOne
    <3>5. Filled(seen, f[s], s, w)
      BY <3>1, <3>3, <3>4 DEF Filled
    <3> QED BY <3>5
  <2> QED BY <2>1, <2>2
<1> HIDE DEF T
<1>3. S \in T
  BY <1>1, <1>2, SetInduction
<1> QED BY <1>3 DEF T

(***************************************************************************)
(* The client's blocks are the server's                                    *)
(***************************************************************************)
\* What the client has of a cell is what the server has there.
ShownAs(seen, w, c) ==
    /\ c \in DOMAIN seen.cells
    /\ seen.cells[c] = Bedrock(w[c].state)
    /\ w[c].state = Spawner =>
          IF w[c].mob = NoMob THEN c \notin DOMAIN seen.mobs
          ELSE c \in DOMAIN seen.mobs /\ seen.mobs[c] = w[c].mob

\* Besides, a content the client remembers is that of a spawner it has: a spawner
\* that is placed where another block was starts empty for it.
ClientKept(seen, w, sent) ==
    /\ DOMAIN seen = {"cells", "mobs"}
    /\ \A c \in DOMAIN seen.mobs : c \in DOMAIN seen.cells /\ seen.cells[c] = Spawner
    /\ \A c \in Cells : ChunkOf[c] \in sent => ShownAs(seen, w, c)

ClientInv == world \in [Cells -> Content] /\ ClientKept(Client, world, sentChunks)

LEMMA SeenKept ==
    ASSUME NEW seen, NEW w, NEW sent, ClientKept(seen, w, sent),
           clientCells' = seen.cells, clientMobs' = seen.mobs, w = world', sent = sentChunks'
    PROVE  ClientKept(Client, world, sentChunks)'
<1>1. /\ DOMAIN Client' = {"cells", "mobs"} /\ Client'.cells = seen.cells
      /\ Client'.mobs = seen.mobs
  BY DEF Client
<1> HIDE DEF Client
<1> QED BY <1>1 DEF ClientKept, ShownAs

LEMMA ClientInitial == BlocksInit => ClientInv
<1> SUFFICES ASSUME BlocksInit PROVE ClientInv
  OBVIOUS
<1>1. world \in [Cells -> Content]
  BY BlocksAssumption DEF BlocksInit, Content
<1>2. sentChunks = {} /\ DOMAIN clientMobs = {}
  BY DEF BlocksInit
<1> QED BY <1>1, <1>2 DEF ClientInv, ClientKept, Client

LEMMA ChangeUnseenClient ==
    ASSUME ClientInv, NEW cell \in Cells, NEW block \in Content, ChangeUnseen(cell, block)
    PROVE  ClientInv'
<1>1. /\ world' = [world EXCEPT ![cell] = block] /\ sentChunks' = sentChunks
      /\ clientCells' = clientCells /\ clientMobs' = clientMobs /\ ChunkOf[cell] \notin sentChunks
  BY DEF ChangeUnseen, clientWorld
<1>2. world' \in [Cells -> Content]
  BY <1>1 DEF ClientInv
<1>3. Client.cells = clientCells /\ Client.mobs = clientMobs
  BY DEF Client
<1>4. ClientKept(Client, world', sentChunks)
  BY <1>1 DEF ClientInv, ClientKept, ShownAs
<1> QED BY <1>1, <1>2, <1>3, <1>4, SeenKept DEF ClientInv

LEMMA ChangeBlocksClient ==
    ASSUME ClientInv, NEW cells \in SUBSET Cells, NEW state \in States, ChangeBlocks(cells, state)
    PROVE  ClientInv'
<1>1. IsFiniteSet(cells)
  BY BlocksAssumption, FS_Subset
<1> DEFINE f == ShowsFold(Client, state, cells)
           r == f[cells]
           to == [c \in Cells |-> state]
<1>2. /\ Folds(f, <<"shows", state>>, Client, cells)
      /\ FoldSet(LAMBDA c, acc : Shows(acc, c, state), Client, cells) = r
  <2>1. Folds(f, <<"shows", state>>, Client, cells)
    BY <1>1, ShowsFolds
  <2>2. FoldSet(LAMBDA c, acc : Shows(acc, c, state), Client, cells) = r
    BY DEF FoldSet, MapThenFoldSet, Picked, ShowsFold
  <2> QED BY <2>1, <2>2
<1>3. /\ world' = [c \in Cells |-> IF c \in cells THEN [state |-> state, mob |-> NoMob]
                                   ELSE world[c]]
      /\ clientCells' = r.cells /\ clientMobs' = r.mobs /\ sentChunks' = sentChunks
      /\ \A c \in cells : ChunkOf[c] \in sentChunks /\ world[c].state # state
  BY <1>2 DEF ChangeBlocks, Seen
<1>4. DOMAIN Client = {"cells", "mobs"}
  BY DEF Client
<1>5. Painted(Client, r, cells, to)
  BY <1>2, <1>4, FoldShows
<1>6. ClientKept(Client, world, sentChunks) /\ world \in [Cells -> Content]
  BY DEF ClientInv
<1> HIDE DEF r, f, Client
<1>7. world' \in [Cells -> Content]
  <2>1. [state |-> state, mob |-> NoMob] \in Content
    BY DEF Content
  <2> QED BY <1>3, <1>6, <2>1
<1>8. \A c \in cells : to[c] = state
  OBVIOUS
<1>9. \A c \in Cells :
         world'[c] = IF c \in cells THEN [state |-> state, mob |-> NoMob] ELSE world[c]
  BY <1>3
<1> HIDE DEF to
<1>10. ASSUME NEW c \in DOMAIN r.mobs PROVE c \in DOMAIN r.cells /\ r.cells[c] = Spawner
  <2>1. c \in DOMAIN Client.mobs /\ c \in DOMAIN Client.cells /\ Client.cells[c] = Spawner
    BY <1>5, <1>6 DEF Painted, ClientKept
  <2>2. CASE c \in cells
    BY <1>5, <2>2 DEF Painted
  <2>3. CASE c \notin cells
    BY <1>5, <2>1, <2>3 DEF Painted
  <2> QED BY <2>2, <2>3
<1>11. ASSUME NEW c \in Cells, ChunkOf[c] \in sentChunks PROVE ShownAs(r, world', c)
  <2>1. ShownAs(Client, world, c)
    BY <1>6, <1>11 DEF ClientKept
  <2>2. CASE c \in cells
    <3>1. world'[c].state = state /\ world'[c].mob = NoMob
      BY <1>9, <2>2
    <3>2. c \in DOMAIN r.cells /\ r.cells[c] = Bedrock(state)
      BY <1>5, <1>8, <2>2 DEF Painted
    <3>3. ASSUME state = Spawner PROVE c \notin DOMAIN r.mobs
      <4>1. SUFFICES ASSUME c \in DOMAIN r.mobs PROVE FALSE
        OBVIOUS
      <4>2. c \in DOMAIN Client.mobs
        BY <1>5, <4>1 DEF Painted
      <4>3. Client.cells[c] = Spawner
        BY <1>6, <4>2 DEF ClientKept
      <4>4. world[c].state = Spawner
        BY <2>1, <4>3, BedrockOwn DEF ShownAs
      <4> QED BY <1>3, <2>2, <3>3, <4>4
    <3> QED BY <3>1, <3>2, <3>3 DEF ShownAs
  <2>3. CASE c \notin cells
    <3>1. world'[c] = world[c]
      BY <1>9, <2>3
    <3>2. /\ c \in DOMAIN r.cells /\ r.cells[c] = Client.cells[c]
          /\ c \in DOMAIN r.mobs <=> c \in DOMAIN Client.mobs
          /\ c \in DOMAIN r.mobs => r.mobs[c] = Client.mobs[c]
      BY <1>5, <2>1, <2>3 DEF Painted, ShownAs
    <3> QED BY <2>1, <3>1, <3>2 DEF ShownAs
  <2> QED BY <2>2, <2>3
<1>12. ClientKept(r, world', sentChunks)
  BY <1>5, <1>10, <1>11 DEF ClientKept, Painted
<1> QED BY <1>3, <1>7, <1>12, SeenKept DEF ClientInv

\* The spawners that hold nothing are put again, and lose what they held.
LEMMA ResetsGive ==
    ASSUME NEW seen, DOMAIN seen = {"cells", "mobs"}, NEW w, NEW cells \in SUBSET Cells
    PROVE  Emptied(seen, ResetEmptySpawners(seen, w, cells),
                   {c \in cells : w[c].state = Spawner /\ w[c].mob = NoMob})
<1> DEFINE S == {c \in cells : w[c].state = Spawner /\ w[c].mob = NoMob}
<1>1. S \in SUBSET Cells
  OBVIOUS
<1> HIDE DEF S
<1>2. IsFiniteSet(S)
  BY <1>1, BlocksAssumption, FS_Subset
<1>3. PICK f : /\ Folds(f, <<"reset">>, seen, S)
               /\ FoldSet(LAMBDA c, acc : Shows(Shows(acc, c, Air), c, Spawner), seen, S) = f[S]
  BY <1>2, ResetFolds
<1>4. Emptied(seen, f[S], S)
  BY <1>1, <1>3, FoldResets
<1> QED BY <1>3, <1>4 DEF ResetEmptySpawners, S

LEMMA SendBlockEntityClient ==
    ASSUME ClientInv, NEW cell \in Cells, NEW mob \in Mobs \cup {NoMob}, SendBlockEntity(cell, mob)
    PROVE  ClientInv'
<1> DEFINE empty == {c \in {cell} : world'[c].state = Spawner /\ world'[c].mob = NoMob}
           p == ResetEmptySpawners(Client, world', {cell})
           r == ShowsMob(p, cell, mob)
<1>1. /\ world' = [world EXCEPT ![cell].mob = mob] /\ ChunkOf[cell] \in sentChunks
      /\ clientCells' = r.cells /\ clientMobs' = r.mobs /\ sentChunks' = sentChunks
      /\ world[cell].state # Spawner => mob = NoMob
  BY DEF SendBlockEntity, Seen
<1>2. ClientKept(Client, world, sentChunks) /\ world \in [Cells -> Content]
      /\ DOMAIN Client = {"cells", "mobs"}
  BY DEF ClientInv, ClientKept
<1>3. Emptied(Client, p, empty)
  <2>1. {cell} \in SUBSET Cells
    OBVIOUS
  <2> QED BY <1>2, <2>1, ResetsGive
<1>4. /\ \A c \in Cells : world'[c].state = world[c].state
      /\ \A c \in Cells : c # cell => world'[c].mob = world[c].mob
      /\ world'[cell].mob = mob /\ world' \in [Cells -> Content]
  BY <1>1, <1>2 DEF Content
<1>5. \A c : c \in empty <=> c = cell /\ world[cell].state = Spawner /\ mob = NoMob
  BY <1>4
<1> HIDE DEF empty, p, Client
<1>6. DOMAIN p = {"cells", "mobs"}
  BY <1>3 DEF Emptied
<1>7. /\ DOMAIN r = {"cells", "mobs"} /\ r.cells = p.cells
      /\ \A c : c \in DOMAIN r.mobs <=> c \in DOMAIN p.mobs \/ (c = cell /\ mob # NoMob)
      /\ \A c \in DOMAIN r.mobs :
            r.mobs[c] = IF c = cell /\ mob # NoMob THEN mob ELSE p.mobs[c]
  BY <1>6, MobOne
<1> HIDE DEF r
<1>8. ShownAs(Client, world, cell)
  BY <1>1, <1>2 DEF ClientKept
<1>9. /\ DOMAIN r.cells = DOMAIN Client.cells
      /\ \A c \in DOMAIN Client.cells : r.cells[c] = Client.cells[c]
  <2>1. /\ cell \in DOMAIN Client.cells
        /\ world[cell].state = Spawner => Client.cells[cell] = Spawner
    BY <1>8, BedrockOwn DEF ShownAs
  <2> QED BY <1>3, <1>5, <1>7, <2>1 DEF Emptied
<1>10. ASSUME NEW c \in DOMAIN r.mobs PROVE c \in DOMAIN r.cells /\ r.cells[c] = Spawner
  <2>1. CASE c = cell /\ mob # NoMob
    BY <1>1, <1>8, <1>9, <2>1, BedrockOwn DEF ShownAs
  <2>2. CASE ~(c = cell /\ mob # NoMob)
    <3>1. c \in DOMAIN Client.mobs
      BY <1>3, <1>7, <2>2 DEF Emptied
    <3> QED BY <1>2, <1>9, <3>1 DEF ClientKept
  <2> QED BY <2>1, <2>2
<1>11. ASSUME NEW c \in Cells, ChunkOf[c] \in sentChunks PROVE ShownAs(r, world', c)
  <2>1. ShownAs(Client, world, c)
    BY <1>2, <1>11 DEF ClientKept
  <2>2. c \in DOMAIN r.cells /\ r.cells[c] = Bedrock(world'[c].state)
    BY <1>4, <1>9, <2>1 DEF ShownAs
  <2>3. CASE c = cell
    <3>1. world[c].state = Spawner /\ mob = NoMob => c \notin DOMAIN r.mobs
      BY <1>3, <1>5, <1>7, <2>3 DEF Emptied
    <3>2. mob # NoMob => c \in DOMAIN r.mobs /\ r.mobs[c] = mob
      BY <1>7, <2>3
    <3> QED BY <1>4, <2>2, <2>3, <3>1, <3>2 DEF ShownAs
  <2>4. CASE c # cell
    <3>1. /\ c \in DOMAIN r.mobs <=> c \in DOMAIN Client.mobs
          /\ c \in DOMAIN r.mobs => r.mobs[c] = Client.mobs[c]
      BY <1>3, <1>5, <1>7, <2>4 DEF Emptied
    <3> QED BY <1>4, <2>1, <2>2, <2>4, <3>1 DEF ShownAs
  <2> QED BY <2>3, <2>4
<1>12. ClientKept(r, world', sentChunks)
  BY <1>7, <1>10, <1>11 DEF ClientKept
<1> QED BY <1>1, <1>4, <1>12, SeenKept DEF ClientInv

LEMMA SendChunkClient ==
    ASSUME ClientInv, NEW chunk \in Chunks, SendChunk(chunk)
    PROVE  ClientInv'
<1> DEFINE S == CellsOf(chunk)
           empty == {c \in S : world[c].state = Spawner /\ world[c].mob = NoMob}
           p == ResetEmptySpawners(Client, world, S)
           f == ChunkFold(p, world, S)
           q == f[S]
           g == MobFold(q, world, S)
           r == g[S]
           to == [c \in Cells |-> world[c].state]
<1>1. S \in SUBSET Cells /\ IsFiniteSet(S) /\ (\A c \in Cells : c \in S <=> ChunkOf[c] = chunk)
  <2>1. S \in SUBSET Cells /\ (\A c \in Cells : c \in S <=> ChunkOf[c] = chunk)
    BY DEF CellsOf
  <2> HIDE DEF S
  <2> QED BY <2>1, BlocksAssumption, FS_Subset
<1> HIDE DEF S
<1>2. /\ Folds(f, <<"chunk", world>>, p, S)
      /\ FoldSet(LAMBDA c, acc : Shows(acc, c, world[c].state), p, S) = q
  <2>1. Folds(f, <<"chunk", world>>, p, S)
    <3> HIDE DEF p
    <3> QED BY <1>1, ChunkFolds
  <2>2. FoldSet(LAMBDA c, acc : Shows(acc, c, world[c].state), p, S) = q
    BY DEF FoldSet, MapThenFoldSet, Picked, ChunkFold
  <2> QED BY <2>1, <2>2
<1>3. /\ Folds(g, <<"mob", world>>, q, S)
      /\ FoldSet(LAMBDA c, acc : ShowsMob(acc, c, world[c].mob), q, S) = r
  <2>1. Folds(g, <<"mob", world>>, q, S)
    <3> HIDE DEF q
    <3> QED BY <1>1, MobFolds
  <2>2. FoldSet(LAMBDA c, acc : ShowsMob(acc, c, world[c].mob), q, S) = r
    BY DEF FoldSet, MapThenFoldSet, Picked, MobFold
  <2> QED BY <2>1, <2>2
<1>4. /\ world' = world /\ sentChunks' = sentChunks \cup {chunk}
      /\ clientCells' = r.cells /\ clientMobs' = r.mobs
  BY <1>2, <1>3 DEF SendChunk, Seen, S
<1>5. ClientKept(Client, world, sentChunks) /\ world \in [Cells -> Content]
      /\ DOMAIN Client = {"cells", "mobs"}
  BY DEF ClientInv, ClientKept
<1>6. Emptied(Client, p, empty)
  BY <1>1, <1>5, ResetsGive
<1> HIDE DEF p, Client
<1>7. DOMAIN p = {"cells", "mobs"}
  BY <1>6 DEF Emptied
<1> HIDE DEF f
<1>8. Painted(p, q, S, to)
  BY <1>1, <1>2, <1>7, FoldChunk
<1> HIDE DEF q, g
<1>9. DOMAIN q = {"cells", "mobs"}
  BY <1>8 DEF Painted
<1>10. Filled(q, r, S, world)
  BY <1>1, <1>3, <1>9, FoldMobs
<1> HIDE DEF r
<1>11. \A c \in S : to[c] = world[c].state /\ c \in Cells
  BY <1>1
<1>12. \A c : c \in empty <=> c \in S /\ world[c].state = Spawner /\ world[c].mob = NoMob
  OBVIOUS
<1> HIDE DEF empty, to
<1>13. /\ DOMAIN r.cells = DOMAIN p.cells \cup S
       /\ \A c \in S : r.cells[c] = Bedrock(world[c].state)
       /\ \A c \in DOMAIN p.cells \ S : r.cells[c] = p.cells[c]
  BY <1>8, <1>10, <1>11 DEF Painted, Filled
<1>14. ASSUME NEW c, c \notin S
       PROVE  /\ c \in DOMAIN r.cells <=> c \in DOMAIN Client.cells
              /\ c \in DOMAIN r.cells => r.cells[c] = Client.cells[c]
              /\ c \in DOMAIN r.mobs <=> c \in DOMAIN Client.mobs
              /\ c \in DOMAIN r.mobs => r.mobs[c] = Client.mobs[c]
  <2>1. c \notin empty
    BY <1>12, <1>14
  <2>2. /\ c \in DOMAIN p.cells <=> c \in DOMAIN Client.cells
        /\ c \in DOMAIN p.cells => p.cells[c] = Client.cells[c]
        /\ c \in DOMAIN p.mobs <=> c \in DOMAIN Client.mobs
        /\ c \in DOMAIN p.mobs => p.mobs[c] = Client.mobs[c]
    BY <1>6, <2>1 DEF Emptied
  <2>3. /\ c \in DOMAIN q.mobs <=> c \in DOMAIN p.mobs
        /\ c \in DOMAIN q.mobs => q.mobs[c] = p.mobs[c]
    BY <1>8, <1>14 DEF Painted
  <2>4. /\ c \in DOMAIN r.mobs <=> c \in DOMAIN q.mobs
        /\ c \in DOMAIN r.mobs => r.mobs[c] = q.mobs[c]
    BY <1>10, <1>14 DEF Filled
  <2> QED BY <1>13, <1>14, <2>2, <2>3, <2>4
<1>15. ASSUME NEW c \in S
       PROVE  /\ ShownAs(r, world, c)
              /\ c \in DOMAIN r.mobs => r.cells[c] = Spawner
  <2>1. c \in DOMAIN r.cells /\ r.cells[c] = Bedrock(world[c].state)
    BY <1>13
  <2>2. CASE world[c].mob # NoMob
    <3>1. world[c].state = Spawner
      BY <1>5, <1>11, <2>2 DEF Content
    <3>2. c \in DOMAIN r.mobs /\ r.mobs[c] = world[c].mob
      BY <1>10, <2>2 DEF Filled
    <3> QED BY <2>1, <2>2, <3>1, <3>2, BedrockOwn DEF ShownAs
  <2>3. CASE world[c].mob = NoMob
    <3>1. c \in DOMAIN r.mobs => c \in DOMAIN q.mobs
      BY <1>10, <2>3 DEF Filled
    <3>2. c \in DOMAIN q.mobs => c \in DOMAIN p.mobs /\ Bedrock(world[c].state) = Spawner
      BY <1>8, <1>11 DEF Painted
    <3>3. CASE world[c].state = Spawner
      <4>1. c \notin DOMAIN p.mobs
        BY <1>6, <1>12, <2>3, <3>3 DEF Emptied
      <4>2. c \notin DOMAIN r.mobs
        BY <3>1, <3>2, <4>1
      <4> QED BY <2>1, <2>3, <4>2 DEF ShownAs
    <3>4. CASE world[c].state # Spawner
      BY <2>1, <3>1, <3>2, <3>4 DEF ShownAs
    <3> QED BY <3>3, <3>4
  <2> QED BY <2>2, <2>3
<1>16. ASSUME NEW c \in DOMAIN r.mobs PROVE c \in DOMAIN r.cells /\ r.cells[c] = Spawner
  <2>1. CASE c \in S
    BY <1>13, <1>15, <2>1
  <2>2. CASE c \notin S
    BY <1>5, <1>14, <2>2 DEF ClientKept
  <2> QED BY <2>1, <2>2
<1>17. ASSUME NEW c \in Cells, ChunkOf[c] \in sentChunks \cup {chunk} PROVE ShownAs(r, world, c)
  <2>1. CASE c \in S
    BY <1>15, <2>1
  <2>2. CASE c \notin S
    <3>1. ShownAs(Client, world, c)
      BY <1>1, <1>5, <1>17, <2>2 DEF ClientKept
    <3> QED BY <1>14, <2>2, <3>1 DEF ShownAs
  <2> QED BY <2>1, <2>2
<1>18. ClientKept(r, world', sentChunks')
  BY <1>4, <1>10, <1>16, <1>17 DEF ClientKept, Filled
<1> QED BY <1>4, <1>5, <1>18, SeenKept DEF ClientInv

LEMMA UnloadChunkClient ==
    ASSUME ClientInv, NEW chunk \in Chunks, UnloadChunk(chunk)
    PROVE  ClientInv'
<1> DEFINE S == CellsOf(chunk)
           r == [cells |-> Drop(clientCells, S), mobs |-> Drop(clientMobs, S)]
<1>1. /\ world' = world /\ sentChunks' = sentChunks \ {chunk}
      /\ clientCells' = r.cells /\ clientMobs' = r.mobs
  BY DEF UnloadChunk
<1>2. ClientKept(Client, world, sentChunks) /\ world \in [Cells -> Content]
      /\ Client.cells = clientCells /\ Client.mobs = clientMobs
  BY DEF ClientInv, Client
<1>3. \A c \in Cells : c \in S <=> ChunkOf[c] = chunk
  BY DEF CellsOf
<1> HIDE DEF S
<1>4. /\ DOMAIN r = {"cells", "mobs"}
      /\ DOMAIN r.cells = DOMAIN clientCells \ S /\ DOMAIN r.mobs = DOMAIN clientMobs \ S
      /\ \A c \in DOMAIN r.cells : r.cells[c] = clientCells[c]
      /\ \A c \in DOMAIN r.mobs : r.mobs[c] = clientMobs[c]
  BY DEF Drop
<1> HIDE DEF r
<1>5. \A c \in DOMAIN r.mobs : c \in DOMAIN r.cells /\ r.cells[c] = Spawner
  BY <1>2, <1>4 DEF ClientKept
<1>6. ASSUME NEW c \in Cells, ChunkOf[c] \in sentChunks \ {chunk} PROVE ShownAs(r, world, c)
  <2>1. c \notin S /\ ShownAs(Client, world, c)
    BY <1>2, <1>3, <1>6 DEF ClientKept
  <2> QED BY <1>2, <1>4, <2>1 DEF ShownAs
<1>7. ClientKept(r, world', sentChunks')
  BY <1>1, <1>4, <1>5, <1>6 DEF ClientKept
<1> QED BY <1>1, <1>2, <1>7, SeenKept DEF ClientInv

LEMMA RespawnPlayerClient ==
    ASSUME ClientInv, NEW w \in [Cells -> Content], NEW newDimension \in BOOLEAN,
           RespawnPlayer(w, newDimension)
    PROVE  ClientInv'
<1> DEFINE r == [cells |-> clientCells', mobs |-> clientMobs']
<1>1. /\ world' = w /\ sentChunks' = {}
      /\ clientCells' = (IF newDimension THEN <<>> ELSE clientCells)
      /\ clientMobs' = (IF newDimension THEN <<>> ELSE clientMobs)
  BY DEF RespawnPlayer
<1>2. \A c \in DOMAIN clientMobs : c \in DOMAIN clientCells /\ clientCells[c] = Spawner
  BY DEF ClientInv, ClientKept, Client
<1>3. DOMAIN r = {"cells", "mobs"} /\ clientCells' = r.cells /\ clientMobs' = r.mobs
  OBVIOUS
<1>4. \A c \in DOMAIN r.mobs : c \in DOMAIN r.cells /\ r.cells[c] = Spawner
  BY <1>1, <1>2
<1> HIDE DEF r
<1>5. ClientKept(r, world', sentChunks')
  BY <1>1, <1>3, <1>4 DEF ClientKept
<1> QED BY <1>1, <1>3, <1>5, SeenKept DEF ClientInv

LEMMA ClientNext == ClientInv /\ [BlocksNext]_blockVars => ClientInv'
<1> SUFFICES ASSUME ClientInv, [BlocksNext]_blockVars PROVE ClientInv'
  OBVIOUS
<1>1. CASE UNCHANGED blockVars
  BY <1>1 DEF blockVars, clientWorld, ClientInv, Client, ClientKept, ShownAs
<1>2. ASSUME NEW c \in Cells, NEW b \in Content, ChangeUnseen(c, b) PROVE ClientInv'
  BY <1>2, ChangeUnseenClient
<1>3. ASSUME NEW cs \in SUBSET Cells, NEW s \in States, ChangeBlocks(cs, s) PROVE ClientInv'
  BY <1>3, ChangeBlocksClient
<1>4. ASSUME NEW c \in Cells, NEW m \in Mobs \cup {NoMob}, SendBlockEntity(c, m) PROVE ClientInv'
  BY <1>4, SendBlockEntityClient
<1>5. ASSUME NEW x \in Chunks, SendChunk(x) PROVE ClientInv'
  BY <1>5, SendChunkClient
<1>6. ASSUME NEW x \in Chunks, UnloadChunk(x) PROVE ClientInv'
  BY <1>6, UnloadChunkClient
<1>7. ASSUME NEW b \in Content, NEW newDimension \in BOOLEAN,
             RespawnPlayer(IF newDimension THEN [c \in Cells |-> b] ELSE world, newDimension)
      PROVE  ClientInv'
  <2> DEFINE w == IF newDimension THEN [c \in Cells |-> b] ELSE world
  <2>1. w \in [Cells -> Content]
    BY DEF ClientInv
  <2> HIDE DEF w
  <2>2. RespawnPlayer(w, newDimension)
    BY <1>7 DEF w
  <2> QED BY <2>1, <2>2, RespawnPlayerClient
<1> QED BY <1>1, <1>2, <1>3, <1>4, <1>5, <1>6, <1>7 DEF BlocksNext

\* The client has the server's blocks wherever the server has sent them, and its
\* spawners hold what the server's hold: a block that changes, an update of a spawner, a
\* chunk sent again, an unload and a respawn leave no stale content behind, however they
\* are combined (resetJavaMobSpawnerBlock, translateJavaPacket).
THEOREM ClientWorldCorrect == BlocksSpec => []ClientWorldAgrees
<1>1. ClientInv => ClientWorldAgrees
  BY DEF ClientInv, ClientKept, Client, ShownAs, ClientWorldAgrees
<1> QED BY <1>1, ClientInitial, ClientNext, PTL DEF BlocksSpec

(***************************************************************************)
(* The context stays indexed by chunk                                      *)
(***************************************************************************)
LEMMA ContextSent ==
    ASSUME NEW ctx, ContextKept(ctx), Keeps(ctx)
    PROVE  ContextKept(Context)'
<1>1. /\ DOMAIN Context' = {"cache", "states", "chunks"} /\ Context'.cache = ctx.cache
      /\ Context'.states = ctx.states /\ Context'.chunks = ctx.chunks
  BY DEF Context, Keeps
<1> HIDE DEF Context
<1> QED BY <1>1 DEF ContextKept, CacheKept

LEMMA ChangedKept ==
    ASSUME NEW ctx, ContextKept(ctx), NEW r, NEW S, NEW state, Changed(ctx, r, S, state)
    PROVE  ContextKept(r)
BY DEF ContextKept, Changed

\* A chunk's block entities are remembered in place of those it had.
RememberedChunk(ctx, r, chunk, w, cells) ==
    /\ DOMAIN r = {"cache", "states", "chunks"}
    /\ PutAll(ctx.cache, r.cache, {c \in cells : w[c].state \in Registered}, w)
    /\ DOMAIN r.chunks = DOMAIN ctx.chunks \cup {chunk}
    /\ r.chunks[chunk] = cells
    /\ \A x \in DOMAIN ctx.chunks \ {chunk} : r.chunks[x] = ctx.chunks[x]
    /\ \A c : c \in DOMAIN r.states <=>
          \/ c \in cells
          \/ c \in DOMAIN ctx.states /\ ~(chunk \in DOMAIN ctx.chunks /\ c \in ctx.chunks[chunk])
    /\ \A c \in cells : r.states[c] = IF w[c].state \in Registered THEN w[c].state ELSE Unknown
    /\ \A c \in DOMAIN r.states \ cells : r.states[c] = ctx.states[c]

LEMMA RememberChunkGives ==
    ASSUME NEW ctx, ContextKept(ctx), NEW chunk \in Chunks, NEW w \in [Cells -> Content]
    PROVE  RememberedChunk(ctx, RememberChunk(ctx, chunk, w), chunk, w,
                           {c \in CellsOf(chunk) : HasEntity(w, c)})
<1> DEFINE cells == {c \in CellsOf(chunk) : HasEntity(w, c)}
           known == {c \in cells : w[c].state \in Registered}
           old == IF chunk \in DOMAIN ctx.chunks THEN ctx.chunks[chunk] ELSE {}
           f == PutFold(ctx.cache, w, known)
           more == [c \in cells |-> IF c \in known THEN w[c].state ELSE Unknown]
           r == RememberChunk(ctx, chunk, w)
<1>1. known \in SUBSET Cells /\ IsFiniteSet(known)
  <2>1. known \in SUBSET Cells
    BY DEF CellsOf
  <2> HIDE DEF known
  <2> QED BY <2>1, BlocksAssumption, FS_Subset
<1>2. /\ Folds(f, <<"put", w>>, ctx.cache, known)
      /\ FoldSet(LAMBDA c, acc : Put(acc, c, w[c].state), ctx.cache, known) = f[known]
  <2>1. Folds(f, <<"put", w>>, ctx.cache, known)
    <3> HIDE DEF known
    <3> QED BY <1>1, PutFolds
  <2>2. FoldSet(LAMBDA c, acc : Put(acc, c, w[c].state), ctx.cache, known) = f[known]
    BY DEF FoldSet, MapThenFoldSet, Picked, PutFold
  <2> QED BY <2>1, <2>2
<1>3. r = [cache |-> f[known], states |-> Extend(Drop(ctx.states, old), more),
           chunks |-> Extend(ctx.chunks, [x \in {chunk} |-> cells])]
  BY <1>2 DEF RememberChunk
<1>4. \A c : c \in known <=> c \in cells /\ w[c].state \in Registered
  OBVIOUS
<1>5. /\ DOMAIN more = cells
      /\ \A c \in cells : more[c] = IF w[c].state \in Registered THEN w[c].state ELSE Unknown
  BY <1>4
<1>6. \A c : c \in old <=> chunk \in DOMAIN ctx.chunks /\ c \in ctx.chunks[chunk]
  OBVIOUS
<1>7. PutAll(ctx.cache, f[known], known, w)
  <2>1. CacheKept(ctx.cache)
    BY DEF ContextKept
  <2> HIDE DEF known, f
  <2> QED BY <1>1, <1>2, <2>1, FoldPuts
<1> HIDE DEF r, f, more, old
<1>8. /\ DOMAIN r = {"cache", "states", "chunks"} /\ r.cache = f[known]
      /\ r.states = Extend(Drop(ctx.states, old), more)
      /\ r.chunks = Extend(ctx.chunks, [x \in {chunk} |-> cells])
  <2> HIDE DEF cells, known
  <2> QED BY <1>3
<1>9. PutAll(ctx.cache, r.cache, {c \in cells : w[c].state \in Registered}, w)
  BY <1>7, <1>8
<1> HIDE DEF cells, known
<1>10. /\ DOMAIN r.chunks = DOMAIN ctx.chunks \cup {chunk}
       /\ r.chunks[chunk] = cells
       /\ \A x \in DOMAIN ctx.chunks \ {chunk} : r.chunks[x] = ctx.chunks[x]
  BY <1>8 DEF Extend
<1>11. /\ \A c : c \in DOMAIN r.states <=> c \in cells \/ (c \in DOMAIN ctx.states /\ c \notin old)
       /\ \A c \in cells : r.states[c] = more[c]
       /\ \A c \in DOMAIN r.states \ cells : r.states[c] = ctx.states[c]
  <2> DEFINE rest == Drop(ctx.states, old)
  <2>1. DOMAIN rest = DOMAIN ctx.states \ old /\ \A c \in DOMAIN rest : rest[c] = ctx.states[c]
    BY DEF Drop
  <2>2. r.states = Extend(rest, more)
    BY <1>8
  <2> HIDE DEF rest
  <2>3. /\ DOMAIN r.states = DOMAIN rest \cup DOMAIN more
        /\ \A c \in DOMAIN r.states :
              r.states[c] = IF c \in DOMAIN more THEN more[c] ELSE rest[c]
    BY <2>2 DEF Extend
  <2> QED BY <1>5, <2>1, <2>3
<1>12. RememberedChunk(ctx, r, chunk, w, cells)
  <2>1. \A c : c \in DOMAIN r.states <=>
           \/ c \in cells
           \/ c \in DOMAIN ctx.states /\ ~(chunk \in DOMAIN ctx.chunks /\ c \in ctx.chunks[chunk])
    BY <1>6, <1>11
  <2>2. \A c \in cells : r.states[c] = IF w[c].state \in Registered THEN w[c].state ELSE Unknown
    BY <1>5, <1>11
  <2> QED BY <1>8, <1>9, <1>10, <1>11, <2>1, <2>2 DEF RememberedChunk
<1> QED BY <1>12 DEF r, cells

LEMMA RememberedChunkKept ==
    ASSUME NEW ctx, ContextKept(ctx), NEW chunk \in Chunks, NEW w \in [Cells -> Content],
           NEW r, RememberedChunk(ctx, r, chunk, w, {c \in CellsOf(chunk) : HasEntity(w, c)})
    PROVE  ContextKept(r)
<1> DEFINE cells == {c \in CellsOf(chunk) : HasEntity(w, c)}
<1>1. cells \subseteq CellsOf(chunk) /\ RememberedChunk(ctx, r, chunk, w, cells)
  OBVIOUS
<1> HIDE DEF cells
<1>2. CacheKept(r.cache) /\ DOMAIN r = {"cache", "states", "chunks"}
  BY <1>1 DEF RememberedChunk, PutAll
<1>3. \A x \in DOMAIN r.chunks : x \in Chunks /\ r.chunks[x] \subseteq CellsOf(x)
  BY <1>1 DEF RememberedChunk, ContextKept
<1>4. \A x, y : \A c : c \in CellsOf(x) /\ c \in CellsOf(y) => x = y
  BY DEF CellsOf
<1>5. DOMAIN ctx.states = UNION {ctx.chunks[x] : x \in DOMAIN ctx.chunks}
      /\ \A x \in DOMAIN ctx.chunks : ctx.chunks[x] \subseteq CellsOf(x)
  BY DEF ContextKept
<1>6. \A c : c \in DOMAIN ctx.states <=> \E x \in DOMAIN ctx.chunks : c \in ctx.chunks[x]
  BY <1>5
<1>7. ASSUME NEW c
      PROVE  c \in DOMAIN r.states <=> \E x \in DOMAIN r.chunks : c \in r.chunks[x]
  <2>1. ASSUME c \in DOMAIN r.states PROVE \E x \in DOMAIN r.chunks : c \in r.chunks[x]
    <3>1. CASE c \in cells
      BY <1>1, <3>1 DEF RememberedChunk
    <3>2. CASE c \notin cells
      <4>1. c \in DOMAIN ctx.states /\ ~(chunk \in DOMAIN ctx.chunks /\ c \in ctx.chunks[chunk])
        BY <1>1, <2>1, <3>2 DEF RememberedChunk
      <4>2. PICK x \in DOMAIN ctx.chunks : c \in ctx.chunks[x]
        BY <1>6, <4>1
      <4>3. x # chunk
        BY <4>1, <4>2
      <4> QED BY <1>1, <4>2, <4>3 DEF RememberedChunk
    <3> QED BY <3>1, <3>2
  <2>2. ASSUME NEW x \in DOMAIN r.chunks, c \in r.chunks[x] PROVE c \in DOMAIN r.states
    <3>1. CASE x = chunk
      BY <1>1, <2>2, <3>1 DEF RememberedChunk
    <3>2. CASE x # chunk
      <4>1. x \in DOMAIN ctx.chunks /\ c \in ctx.chunks[x]
        BY <1>1, <2>2, <3>2 DEF RememberedChunk
      <4>2. ~(chunk \in DOMAIN ctx.chunks /\ c \in ctx.chunks[chunk])
        BY <1>4, <1>5, <3>2, <4>1
      <4> QED BY <1>1, <1>6, <4>1, <4>2 DEF RememberedChunk
    <3> QED BY <3>1, <3>2
  <2> QED BY <2>1, <2>2
<1>8. DOMAIN r.states = UNION {r.chunks[x] : x \in DOMAIN r.chunks}
  BY <1>7
<1> QED BY <1>2, <1>3, <1>8 DEF ContextKept

\* A position that has a block entity is remembered with what the cache knows of it.
RememberedAt(ctx, r, cell) ==
    /\ DOMAIN r = {"cache", "states", "chunks"} /\ r.cache = Touch(ctx.cache, cell)
    /\ DOMAIN r.states = DOMAIN ctx.states \cup {cell}
    /\ \A c \in DOMAIN r.states : c # cell => r.states[c] = ctx.states[c]
    /\ \/ r.states[cell] = StateIn(ctx.cache, cell)
       \/ cell \in DOMAIN ctx.states /\ r.states[cell] = ctx.states[cell]
    /\ DOMAIN r.chunks = DOMAIN ctx.chunks \cup {ChunkOf[cell]}
    /\ \A x \in DOMAIN ctx.chunks : x # ChunkOf[cell] => r.chunks[x] = ctx.chunks[x]
    /\ r.chunks[ChunkOf[cell]] =
          (IF ChunkOf[cell] \in DOMAIN ctx.chunks THEN ctx.chunks[ChunkOf[cell]] ELSE {})
          \cup {cell}

LEMMA RememberPositionGives ==
    ASSUME NEW ctx, NEW cell
    PROVE  RememberedAt(ctx, RememberPosition(ctx, cell), cell)
<1> DEFINE state == StateIn(ctx.cache, cell)
           chunk == ChunkOf[cell]
           old == IF chunk \in DOMAIN ctx.chunks THEN ctx.chunks[chunk] ELSE {}
           touched == Touch(ctx.cache, cell)
           states == IF cell \in DOMAIN ctx.states /\ state = Unknown THEN ctx.states
                     ELSE Extend(ctx.states, [c \in {cell} |-> state])
           chunks == Extend(ctx.chunks, [x \in {chunk} |-> old \cup {cell}])
           r == RememberPosition(ctx, cell)
<1>1. r = [cache |-> touched, states |-> states, chunks |-> chunks]
  BY DEF RememberPosition
<1>2. /\ DOMAIN states = DOMAIN ctx.states \cup {cell}
      /\ \A c \in DOMAIN states : c # cell => states[c] = ctx.states[c]
      /\ states[cell] = state \/ (cell \in DOMAIN ctx.states /\ states[cell] = ctx.states[cell])
  <2> HIDE DEF state
  <2> QED BY DEF Extend
<1>3. /\ DOMAIN chunks = DOMAIN ctx.chunks \cup {chunk}
      /\ \A x \in DOMAIN ctx.chunks : x # chunk => chunks[x] = ctx.chunks[x]
      /\ chunks[chunk] = old \cup {cell}
  <2> HIDE DEF old, chunk
  <2> QED BY DEF Extend
<1> HIDE DEF r, states, chunks
<1>4. /\ DOMAIN r = {"cache", "states", "chunks"} /\ r.cache = touched
      /\ r.states = states /\ r.chunks = chunks
  BY <1>1
<1>5. RememberedAt(ctx, r, cell)
  BY <1>2, <1>3, <1>4 DEF RememberedAt
<1> QED BY <1>5 DEF r

LEMMA RememberedAtKept ==
    ASSUME NEW ctx, ContextKept(ctx), NEW cell \in Cells, NEW r, RememberedAt(ctx, r, cell)
    PROVE  ContextKept(r)
<1>1. CacheKept(r.cache) /\ DOMAIN r = {"cache", "states", "chunks"}
  BY TouchKeeps DEF RememberedAt, ContextKept
<1>2. cell \in CellsOf(ChunkOf[cell]) /\ ChunkOf[cell] \in Chunks
  BY BlocksAssumption DEF CellsOf
<1>3. \A x \in DOMAIN r.chunks : x \in Chunks /\ r.chunks[x] \subseteq CellsOf(x)
  BY <1>2 DEF RememberedAt, ContextKept
<1>4. DOMAIN ctx.states = UNION {ctx.chunks[x] : x \in DOMAIN ctx.chunks}
  BY DEF ContextKept
<1>5. \A c : c \in DOMAIN ctx.states <=> \E x \in DOMAIN ctx.chunks : c \in ctx.chunks[x]
  BY <1>4
<1>6. ASSUME NEW c
      PROVE  c \in DOMAIN r.states <=> \E x \in DOMAIN r.chunks : c \in r.chunks[x]
  <2>1. ASSUME c \in DOMAIN r.states PROVE \E x \in DOMAIN r.chunks : c \in r.chunks[x]
    <3>1. CASE c = cell
      BY <3>1 DEF RememberedAt
    <3>2. CASE c # cell
      <4>1. PICK x \in DOMAIN ctx.chunks : c \in ctx.chunks[x]
        BY <1>5, <2>1, <3>2 DEF RememberedAt
      <4> QED BY <4>1 DEF RememberedAt
    <3> QED BY <3>1, <3>2
  <2>2. ASSUME NEW x \in DOMAIN r.chunks, c \in r.chunks[x] PROVE c \in DOMAIN r.states
    BY <1>5, <2>2 DEF RememberedAt
  <2> QED BY <2>1, <2>2
<1>7. DOMAIN r.states = UNION {r.chunks[x] : x \in DOMAIN r.chunks}
  BY <1>6
<1> QED BY <1>1, <1>3, <1>7 DEF ContextKept

\* What a chunk's unload leaves: nothing of the chunk, the rest as it was.
Forgotten(ctx, r, chunk) ==
    /\ DOMAIN r = {"cache", "states", "chunks"} /\ r.cache = RemoveChunk(ctx.cache, chunk)
    /\ DOMAIN r.chunks = DOMAIN ctx.chunks
    /\ \A x \in DOMAIN ctx.chunks : r.chunks[x] = IF x = chunk THEN {} ELSE ctx.chunks[x]
    /\ \A c : c \in DOMAIN r.states <=>
          c \in DOMAIN ctx.states /\ ~(chunk \in DOMAIN ctx.chunks /\ c \in ctx.chunks[chunk])
    /\ \A c \in DOMAIN r.states : r.states[c] = ctx.states[c]

LEMMA ForgetChunkGives ==
    ASSUME NEW ctx, NEW chunk
    PROVE  Forgotten(ctx, ForgetChunk(ctx, chunk), chunk)
<1> DEFINE old == IF chunk \in DOMAIN ctx.chunks THEN ctx.chunks[chunk] ELSE {}
           cache == RemoveChunk(ctx.cache, chunk)
           states == Drop(ctx.states, old)
           chunks == [x \in DOMAIN ctx.chunks |-> IF x = chunk THEN {} ELSE ctx.chunks[x]]
           r == ForgetChunk(ctx, chunk)
<1>1. r = [cache |-> cache, states |-> states, chunks |-> chunks]
  BY DEF ForgetChunk
<1>2. \A c : c \in old <=> chunk \in DOMAIN ctx.chunks /\ c \in ctx.chunks[chunk]
  OBVIOUS
<1> HIDE DEF old
<1>3. /\ DOMAIN states = DOMAIN ctx.states \ old
      /\ \A c \in DOMAIN states : states[c] = ctx.states[c]
  BY DEF Drop
<1> HIDE DEF r, states, cache
<1>4. /\ DOMAIN r = {"cache", "states", "chunks"} /\ r.cache = cache
      /\ r.states = states /\ r.chunks = chunks
  BY <1>1
<1>5. /\ DOMAIN r.chunks = DOMAIN ctx.chunks
      /\ \A x \in DOMAIN ctx.chunks : r.chunks[x] = IF x = chunk THEN {} ELSE ctx.chunks[x]
  BY <1>4
<1>6. Forgotten(ctx, r, chunk)
  BY <1>2, <1>3, <1>4, <1>5 DEF Forgotten, cache
<1> QED BY <1>6 DEF r

LEMMA ForgottenKept ==
    ASSUME NEW ctx, ContextKept(ctx), NEW chunk, NEW r, Forgotten(ctx, r, chunk)
    PROVE  ContextKept(r)
<1>1. CacheKept(r.cache) /\ DOMAIN r = {"cache", "states", "chunks"}
  BY RemoveChunkKeeps DEF Forgotten, ContextKept
<1>2. \A x \in DOMAIN r.chunks : x \in Chunks /\ r.chunks[x] \subseteq CellsOf(x)
  BY DEF Forgotten, ContextKept
<1>3. \A x, y : \A c : c \in CellsOf(x) /\ c \in CellsOf(y) => x = y
  BY DEF CellsOf
<1>4. DOMAIN ctx.states = UNION {ctx.chunks[x] : x \in DOMAIN ctx.chunks}
      /\ \A x \in DOMAIN ctx.chunks : ctx.chunks[x] \subseteq CellsOf(x)
  BY DEF ContextKept
<1>5. \A c : c \in DOMAIN ctx.states <=> \E x \in DOMAIN ctx.chunks : c \in ctx.chunks[x]
  BY <1>4
<1>6. ASSUME NEW c
      PROVE  c \in DOMAIN r.states <=> \E x \in DOMAIN r.chunks : c \in r.chunks[x]
  <2>1. ASSUME c \in DOMAIN r.states PROVE \E x \in DOMAIN r.chunks : c \in r.chunks[x]
    <3>1. c \in DOMAIN ctx.states /\ ~(chunk \in DOMAIN ctx.chunks /\ c \in ctx.chunks[chunk])
      BY <2>1 DEF Forgotten
    <3>2. PICK x \in DOMAIN ctx.chunks : c \in ctx.chunks[x]
      BY <1>5, <3>1
    <3>3. x # chunk
      BY <3>1, <3>2
    <3> QED BY <3>2, <3>3 DEF Forgotten
  <2>2. ASSUME NEW x \in DOMAIN r.chunks, c \in r.chunks[x] PROVE c \in DOMAIN r.states
    <3>1. x \in DOMAIN ctx.chunks /\ x # chunk /\ c \in ctx.chunks[x]
      BY <2>2 DEF Forgotten
    <3>2. ~(chunk \in DOMAIN ctx.chunks /\ c \in ctx.chunks[chunk])
      BY <1>3, <1>4, <3>1
    <3> QED BY <1>5, <3>1, <3>2 DEF Forgotten
  <2> QED BY <2>1, <2>2
<1>7. DOMAIN r.states = UNION {r.chunks[x] : x \in DOMAIN r.chunks}
  BY <1>6
<1> QED BY <1>1, <1>2, <1>7 DEF ContextKept

(***************************************************************************)
(* What each packet does to the context                                    *)
(***************************************************************************)
LEMMA ContextInitial == BlocksInit => ContextKept(Context) /\ Current(Context, world, sentChunks)
<1> SUFFICES ASSUME BlocksInit
             PROVE  ContextKept(Context) /\ Current(Context, world, sentChunks)
  OBVIOUS
<1>1. /\ DOMAIN Context = {"cache", "states", "chunks"} /\ Context.cache = <<>>
      /\ Context.states = <<>> /\ Context.chunks = <<>> /\ sentChunks = {}
  BY DEF BlocksInit, Context
<1> HIDE DEF Context
<1>2. CacheKept(<<>>)
  BY BlocksAssumption DEF CacheKept
<1>3. DOMAIN Context.states = {} /\ DOMAIN Context.chunks = {}
  BY <1>1
<1> QED BY <1>1, <1>2, <1>3 DEF ContextKept, Current

LEMMA ContextSame ==
    ASSUME UNCHANGED context
    PROVE  Context' = Context
BY DEF context, Context

LEMMA ContextNow ==
    ASSUME NEW ctx, DOMAIN ctx = {"cache", "states", "chunks"}, Keeps(ctx), NEW w, NEW sent,
           w = world', sent = sentChunks', Current(ctx, w, sent)
    PROVE  Current(Context, world, sentChunks)'
<1>1. /\ Context'.cache = ctx.cache /\ Context'.states = ctx.states
      /\ Context'.chunks = ctx.chunks
  BY DEF Context, Keeps
<1> HIDE DEF Context
<1> QED BY <1>1 DEF Current, CurrentAt, HasEntity

\* The blocks that change are remembered in the context, whatever it held.
LEMMA ChangeBlocksContext ==
    ASSUME ContextKept(Context), NEW cells \in SUBSET Cells, NEW state \in States,
           ChangeBlocks(cells, state)
    PROVE  \E r : Keeps(r) /\ Changed(Context, r, cells, state)
<1>1. IsFiniteSet(cells)
  BY BlocksAssumption, FS_Subset
<1> DEFINE f == ChangeFold(Context, state, cells)
<1>2. Folds(f, <<"change", state>>, Context, cells)
  BY <1>1, ChangeFolds
<1>3. FoldSet(LAMBDA c, acc : RememberChange(acc, c, state), Context, cells) = f[cells]
  BY DEF FoldSet, MapThenFoldSet, Picked, ChangeFold
<1>4. Keeps(f[cells])
  BY <1>3 DEF ChangeBlocks
<1> HIDE DEF f
<1>5. Changed(Context, f[cells], cells, state)
  BY <1>2, FoldChanges
<1> QED BY <1>4, <1>5

LEMMA ContextNext ==
    ClientInv /\ ContextKept(Context) /\ [BlocksNext]_blockVars => ContextKept(Context)'
<1> SUFFICES ASSUME ClientInv, ContextKept(Context), [BlocksNext]_blockVars
             PROVE  ContextKept(Context)'
  OBVIOUS
<1>1. ASSUME UNCHANGED context PROVE ContextKept(Context)'
  <2>1. Context' = Context
    BY <1>1, ContextSame
  <2> HIDE DEF Context
  <2> QED BY <2>1 DEF ContextKept, CacheKept
<1>2. CASE UNCHANGED blockVars
  BY <1>1, <1>2 DEF blockVars
<1>3. ASSUME NEW c \in Cells, NEW b \in Content, ChangeUnseen(c, b) PROVE ContextKept(Context)'
  BY <1>1, <1>3 DEF ChangeUnseen
<1>4. ASSUME NEW cs \in SUBSET Cells, NEW s \in States, ChangeBlocks(cs, s)
      PROVE  ContextKept(Context)'
  <2>1. PICK r : Keeps(r) /\ Changed(Context, r, cs, s)
    BY <1>4, ChangeBlocksContext
  <2> QED BY <2>1, ChangedKept, ContextSent
<1>5. ASSUME NEW c \in Cells, NEW m \in Mobs \cup {NoMob}, SendBlockEntity(c, m)
      PROVE  ContextKept(Context)'
  <2> DEFINE r == RememberPosition(Context, c)
  <2>1. Keeps(r) /\ RememberedAt(Context, r, c)
    BY <1>5, RememberPositionGives DEF SendBlockEntity
  <2> HIDE DEF r
  <2> QED BY <2>1, RememberedAtKept, ContextSent
<1>6. ASSUME NEW x \in Chunks, SendChunk(x) PROVE ContextKept(Context)'
  <2> DEFINE r == RememberChunk(Context, x, world)
             cells == {c \in CellsOf(x) : HasEntity(world, c)}
  <2>1. Keeps(r) /\ RememberedChunk(Context, r, x, world, cells) /\ world \in [Cells -> Content]
    BY <1>6, RememberChunkGives DEF SendChunk, ClientInv
  <2> HIDE DEF r
  <2>2. ContextKept(r)
    BY <2>1, RememberedChunkKept
  <2> QED BY <2>1, <2>2, ContextSent
<1>7. ASSUME NEW x \in Chunks, UnloadChunk(x) PROVE ContextKept(Context)'
  <2> DEFINE r == ForgetChunk(Context, x)
  <2>1. Keeps(r) /\ Forgotten(Context, r, x)
    BY <1>7, ForgetChunkGives DEF UnloadChunk
  <2> HIDE DEF r
  <2> QED BY <2>1, ForgottenKept, ContextSent
<1>8. ASSUME NEW b \in Content, NEW newDimension \in BOOLEAN,
             RespawnPlayer(IF newDimension THEN [c \in Cells |-> b] ELSE world, newDimension)
      PROVE  ContextKept(Context)'
  BY <1>1, <1>8 DEF RespawnPlayer
<1> QED BY <1>2, <1>3, <1>4, <1>5, <1>6, <1>7, <1>8 DEF BlocksNext

(***************************************************************************)
(* What the context remembers is current                                   *)
(***************************************************************************)
CurrentInv ==
    /\ ClientInv /\ ContextKept(Context)
    /\ Current(Context, world, sentChunks)

LEMMA ChangedCurrent ==
    ASSUME NEW ctx, NEW r, NEW S \in SUBSET Cells, NEW state, Changed(ctx, r, S, state),
           NEW w, NEW v, NEW sent, Current(ctx, w, sent),
           \A c \in S : v[c].state = state,
           \A c \in Cells \ S : v[c] = w[c]
    PROVE  Current(r, v, sent)
<1> SUFFICES ASSUME NEW c \in Cells, ChunkOf[c] \in sent, HasEntity(v, c)
             PROVE  CurrentAt(r, v, c)
  BY DEF Current
<1>1. CASE c \in S
  BY <1>1 DEF Changed, CurrentAt
<1>2. CASE c \notin S
  <2>1. CurrentAt(ctx, w, c) /\ v[c] = w[c]
    BY <1>2 DEF Current, HasEntity
  <2>2. From(r.cache, ctx.cache, c) /\ DOMAIN r.states = DOMAIN ctx.states
        /\ (c \in DOMAIN r.states => r.states[c] = ctx.states[c])
    BY <1>2 DEF Changed
  <2>3. Caches(r.cache, c, w[c].state)
    BY <2>1, <2>2, FromGives DEF CurrentAt
  <2> QED BY <2>1, <2>2, <2>3 DEF CurrentAt
<1> QED BY <1>1, <1>2

LEMMA RememberedAtCurrent ==
    ASSUME NEW ctx, ContextKept(ctx), NEW cell \in Cells, NEW r, RememberedAt(ctx, r, cell),
           NEW w, NEW sent, Current(ctx, w, sent), ChunkOf[cell] \in sent, HasEntity(w, cell)
    PROVE  /\ Current(r, w, sent)
           /\ r.states[cell] \in {w[cell].state, Unknown}
<1>1. CacheKept(ctx.cache) /\ DOMAIN r.states = DOMAIN ctx.states \cup {cell}
      /\ \A c : From(r.cache, ctx.cache, c)
  BY TouchKeeps DEF ContextKept, RememberedAt
<1>2. r.states[cell] \in {w[cell].state, Unknown}
  <2>1. Caches(ctx.cache, cell, w[cell].state)
        /\ (cell \in DOMAIN ctx.states => ctx.states[cell] \in {w[cell].state, Unknown})
    BY DEF Current, CurrentAt
  <2>2. StateIn(ctx.cache, cell) \in {w[cell].state, Unknown}
    BY <1>1, <2>1, FoundIn
  <2> QED BY <2>1, <2>2 DEF RememberedAt
<1>3. ASSUME NEW c \in Cells, ChunkOf[c] \in sent, HasEntity(w, c)
      PROVE  CurrentAt(r, w, c)
  <2>1. CurrentAt(ctx, w, c)
    BY <1>3 DEF Current
  <2>2. Caches(r.cache, c, w[c].state)
    BY <1>1, <2>1, FromGives DEF CurrentAt
  <2>3. CASE c = cell
    BY <1>2, <2>2, <2>3 DEF CurrentAt
  <2>4. CASE c # cell
    BY <1>1, <2>1, <2>2, <2>4 DEF CurrentAt, RememberedAt
  <2> QED BY <2>3, <2>4
<1> QED BY <1>2, <1>3 DEF Current

LEMMA RememberedChunkCurrent ==
    ASSUME EntityStates \subseteq Registered,
           NEW ctx, NEW chunk, NEW w, NEW sent, Current(ctx, w, sent), NEW r,
           RememberedChunk(ctx, r, chunk, w, {c \in CellsOf(chunk) : HasEntity(w, c)})
    PROVE  Current(r, w, sent \cup {chunk})
<1> DEFINE cells == {c \in CellsOf(chunk) : HasEntity(w, c)}
           known == {c \in cells : w[c].state \in Registered}
<1> SUFFICES ASSUME NEW c \in Cells, ChunkOf[c] \in sent \cup {chunk}, HasEntity(w, c)
             PROVE  CurrentAt(r, w, c)
  BY DEF Current
<1>1. /\ PutAll(ctx.cache, r.cache, known, w)
      /\ \A d : d \in DOMAIN r.states <=>
            \/ d \in cells
            \/ d \in DOMAIN ctx.states /\ ~(chunk \in DOMAIN ctx.chunks /\ d \in ctx.chunks[chunk])
      /\ \A d \in cells : r.states[d] = IF w[d].state \in Registered THEN w[d].state ELSE Unknown
      /\ \A d \in DOMAIN r.states \ cells : r.states[d] = ctx.states[d]
  BY DEF RememberedChunk
<1>2. c \in cells <=> ChunkOf[c] = chunk
  BY DEF CellsOf
<1>3. c \in cells => c \in known
  BY DEF HasEntity
<1>4. \A d : d \in known => d \in cells
  OBVIOUS
<1> HIDE DEF cells, known
<1>5. CASE c \in cells
  <2>1. Caches(r.cache, c, w[c].state)
    BY <1>1, <1>3, <1>5 DEF PutAll
  <2>2. r.states[c] \in {w[c].state, Unknown}
    BY <1>1, <1>5
  <2> QED BY <2>1, <2>2 DEF CurrentAt
<1>6. CASE c \notin cells
  <2>1. CurrentAt(ctx, w, c)
    BY <1>2, <1>6 DEF Current
  <2>2. From(r.cache, ctx.cache, c)
    BY <1>1, <1>4, <1>6 DEF PutAll
  <2>3. Caches(r.cache, c, w[c].state)
    BY <2>1, <2>2, FromGives DEF CurrentAt
  <2> QED BY <1>1, <1>6, <2>1, <2>3 DEF CurrentAt
<1> QED BY <1>5, <1>6

LEMMA ForgottenCurrent ==
    ASSUME NEW ctx, ContextKept(ctx), NEW chunk, NEW w, NEW sent, Current(ctx, w, sent),
           NEW r, Forgotten(ctx, r, chunk)
    PROVE  Current(r, w, sent)
<1> SUFFICES ASSUME NEW c \in Cells, ChunkOf[c] \in sent, HasEntity(w, c)
             PROVE  CurrentAt(r, w, c)
  BY DEF Current
<1>1. CurrentAt(ctx, w, c)
  BY DEF Current
<1>2. From(r.cache, ctx.cache, c)
  BY RemoveChunkKeeps DEF Forgotten, ContextKept
<1>3. Caches(r.cache, c, w[c].state)
  BY <1>1, <1>2, FromGives DEF CurrentAt
<1> QED BY <1>1, <1>3 DEF CurrentAt, Forgotten

LEMMA SentLess ==
    ASSUME NEW ctx, NEW w, NEW v, NEW sent, NEW fewer, Current(ctx, w, sent), fewer \subseteq sent,
           \A c \in Cells : ChunkOf[c] \in fewer => v[c].state = w[c].state
    PROVE  Current(ctx, v, fewer)
BY DEF Current, CurrentAt, HasEntity

LEMMA CurrentNext ==
    ASSUME EntityStates \subseteq Registered, CurrentInv, [BlocksNext]_blockVars
    PROVE  CurrentInv'
<1>1. ClientInv' /\ ContextKept(Context)'
  BY ClientNext, ContextNext DEF CurrentInv
<1>2. /\ ContextKept(Context) /\ Current(Context, world, sentChunks)
      /\ world \in [Cells -> Content]
  BY DEF CurrentInv, ClientInv
<1>3. ASSUME UNCHANGED context, sentChunks' \subseteq sentChunks,
             \A c \in Cells : ChunkOf[c] \in sentChunks' => world'[c] = world[c]
      PROVE  Current(Context, world, sentChunks)'
  <2>1. Context' = Context
    BY <1>3, ContextSame
  <2>2. Current(Context, world', sentChunks')
    BY <1>2, <1>3, SentLess
  <2> HIDE DEF Context
  <2> QED BY <2>1, <2>2
<1>4. ASSUME UNCHANGED blockVars PROVE Current(Context, world, sentChunks)'
  BY <1>3, <1>4 DEF blockVars
<1>5. ASSUME NEW c \in Cells, NEW b \in Content, ChangeUnseen(c, b)
      PROVE  Current(Context, world, sentChunks)'
  BY <1>2, <1>3, <1>5 DEF ChangeUnseen
<1>6. ASSUME NEW cs \in SUBSET Cells, NEW s \in States, ChangeBlocks(cs, s)
      PROVE  Current(Context, world, sentChunks)'
  <2>1. PICK r : Keeps(r) /\ Changed(Context, r, cs, s)
    BY <1>2, <1>6, ChangeBlocksContext
  <2>2. /\ sentChunks' = sentChunks /\ \A c \in cs : world'[c].state = s
        /\ \A c \in Cells \ cs : world'[c] = world[c]
    BY <1>6 DEF ChangeBlocks
  <2>3. Current(r, world', sentChunks')
    BY <1>2, <2>1, <2>2, ChangedCurrent
  <2>4. DOMAIN r = {"cache", "states", "chunks"}
    BY <2>1 DEF Changed
  <2> QED BY <2>1, <2>3, <2>4, ContextNow
<1>7. ASSUME NEW c \in Cells, NEW m \in Mobs \cup {NoMob}, SendBlockEntity(c, m)
      PROVE  Current(Context, world, sentChunks)'
  <2> DEFINE r == RememberPosition(Context, c)
  <2>1. Keeps(r) /\ RememberedAt(Context, r, c)
    BY <1>7, RememberPositionGives DEF SendBlockEntity
  <2> HIDE DEF r
  <2>2. /\ sentChunks' = sentChunks /\ ChunkOf[c] \in sentChunks /\ HasEntity(world, c)
        /\ world' = [world EXCEPT ![c].mob = m]
    BY <1>7 DEF SendBlockEntity
  <2>3. \A d \in Cells : world'[d].state = world[d].state
    BY <1>2, <2>2 DEF Content
  <2>4. Current(r, world, sentChunks)
    BY <1>2, <2>1, <2>2, RememberedAtCurrent
  <2>5. Current(r, world', sentChunks')
    BY <2>2, <2>3, <2>4, SentLess
  <2>6. DOMAIN r = {"cache", "states", "chunks"}
    BY <2>1 DEF RememberedAt
  <2> QED BY <2>1, <2>5, <2>6, ContextNow
<1>8. ASSUME NEW x \in Chunks, SendChunk(x) PROVE Current(Context, world, sentChunks)'
  <2> DEFINE r == RememberChunk(Context, x, world)
  <2>1. /\ Keeps(r)
        /\ RememberedChunk(Context, r, x, world, {c \in CellsOf(x) : HasEntity(world, c)})
    BY <1>2, <1>8, RememberChunkGives DEF SendChunk
  <2> HIDE DEF r
  <2>2. sentChunks' = sentChunks \cup {x} /\ world' = world
    BY <1>8 DEF SendChunk
  <2>3. Current(r, world', sentChunks')
    BY <1>2, <2>1, <2>2, RememberedChunkCurrent
  <2>4. DOMAIN r = {"cache", "states", "chunks"}
    BY <2>1 DEF RememberedChunk
  <2> QED BY <2>1, <2>3, <2>4, ContextNow
<1>9. ASSUME NEW x \in Chunks, UnloadChunk(x) PROVE Current(Context, world, sentChunks)'
  <2> DEFINE r == ForgetChunk(Context, x)
  <2>1. Keeps(r) /\ Forgotten(Context, r, x)
    BY <1>9, ForgetChunkGives DEF UnloadChunk
  <2> HIDE DEF r
  <2>2. sentChunks' = sentChunks \ {x} /\ world' = world
    BY <1>9 DEF UnloadChunk
  <2>3. Current(r, world, sentChunks)
    BY <1>2, <2>1, ForgottenCurrent
  <2>4. Current(r, world', sentChunks')
    BY <2>2, <2>3, SentLess
  <2>5. DOMAIN r = {"cache", "states", "chunks"}
    BY <2>1 DEF Forgotten
  <2> QED BY <2>1, <2>4, <2>5, ContextNow
<1>10. ASSUME NEW b \in Content, NEW newDimension \in BOOLEAN,
              RespawnPlayer(IF newDimension THEN [c \in Cells |-> b] ELSE world, newDimension)
       PROVE  Current(Context, world, sentChunks)'
  BY <1>3, <1>10 DEF RespawnPlayer
<1>11. Current(Context, world, sentChunks)'
  BY <1>4, <1>5, <1>6, <1>7, <1>8, <1>9, <1>10 DEF BlocksNext
<1> QED BY <1>1, <1>11 DEF CurrentInv

LEMMA KeptIndexed ==
    ASSUME ContextKept(Context)
    PROVE  ContextIndexed
<1>1. /\ Context.cache = blockStates /\ Context.states = blockEntityStates
      /\ Context.chunks = blockEntityChunks
  BY DEF Context
<1> QED BY <1>1 DEF ContextIndexed, ContextKept, CacheKept

LEMMA CurrentShows ==
    ASSUME CurrentInv
    PROVE  ContextAgrees
<1>1. ContextKept(Context) /\ Current(Context, world, sentChunks)
  BY DEF CurrentInv
<1>2. StateCurrent
  <2> SUFFICES ASSUME NEW c \in Cells, ChunkOf[c] \in sentChunks, HasEntity(world, c)
               PROVE  StateUsed(RememberPosition(Context, c), c) \in {world[c].state, Unknown}
    BY DEF StateCurrent
  <2> DEFINE r == RememberPosition(Context, c)
  <2>1. RememberedAt(Context, r, c)
    BY RememberPositionGives
  <2> HIDE DEF r
  <2>2. Current(r, world, sentChunks) /\ r.states[c] \in {world[c].state, Unknown}
    BY <1>1, <2>1, RememberedAtCurrent
  <2>3. CacheKept(r.cache)
    BY <1>1, <2>1, TouchKeeps DEF RememberedAt, ContextKept
  <2>4. Caches(r.cache, c, world[c].state)
    BY <2>2 DEF Current, CurrentAt
  <2>5. StateIn(r.cache, c) \in {world[c].state, Unknown}
    BY <2>3, <2>4, FoundIn
  <2>6. StateUsed(r, c) \in {world[c].state, Unknown}
    BY <2>2, <2>5 DEF StateUsed
  <2> QED BY <2>6 DEF r
<1>3. ContextIndexed
  BY <1>1, KeptIndexed
<1> QED BY <1>2, <1>3 DEF ContextAgrees

\* The context can be forgotten chunk by chunk, whatever changes, updates, chunks, unloads
\* and respawns came before: nothing is remembered that no chunk's set has, the cache has one
\* entry for a position and is bounded (put, get, removeChunk, forgetBlockEntityChunk).
THEOREM IndexCorrect == BlocksSpec => []ContextIndexed
<1> DEFINE Inv == ClientInv /\ ContextKept(Context)
<1>1. BlocksInit => Inv
  BY ClientInitial, ContextInitial
<1>2. Inv /\ [BlocksNext]_blockVars => Inv'
  BY ClientNext, ContextNext
<1>3. Inv => ContextIndexed
  BY KeptIndexed
<1> QED BY <1>1, <1>2, <1>3, PTL DEF BlocksSpec

\* The states the bridge makes block-entity tags with are current, and can be forgotten
\* chunk by chunk: no change, eviction from the LRU cache, reload, unload or respawn leaves
\* it the state of a block that is gone (rememberBlockStateChange,
\* rememberChunkBlockEntityStates, rememberBlockEntityPosition, forgetBlockEntityChunk).
\* The registry has every state of a block with a block entity.
THEOREM ContextCorrect ==
    ASSUME EntityStates \subseteq Registered
    PROVE  BlocksSpec => []ContextAgrees
<1>1. BlocksInit => CurrentInv
  BY ClientInitial, ContextInitial DEF CurrentInv
<1>2. CurrentInv /\ [BlocksNext]_blockVars => CurrentInv'
  BY CurrentNext
<1>3. CurrentInv => ContextAgrees
  BY CurrentShows
<1> QED BY <1>1, <1>2, <1>3, PTL DEF BlocksSpec

(***************************************************************************)
(* The flags of an actor: the tables                                       *)
(***************************************************************************)
\* Some mask of the table has the flag.
Masked(t, i, f) == \E m \in SpecificMasks : t \in m[1] /\ i = m[2] /\ f \in m[3]

\* Some row of the table writes it.
Writes(rows, t, i, f) == \E r \in rows : t \in r[1] /\ i = r[2] /\ f = r[3]

LEMMA WritesIs ==
    ASSUME NEW rows, NEW t \in Types, NEW i \in 0..21
    PROVE  \A f : f \in Written(rows)[t][i] <=> Writes(rows, t, i, f)
<1>1. Written(rows)[t][i] = {row[3] : row \in RowsOf(rows, t, i)}
  BY DEF Written
<1> QED BY <1>1 DEF Writes, RowsOf

LEMMA MaskIs ==
    ASSUME NEW t \in Types, NEW i \in 0..21
    PROVE  \A f : f \in SpecialMask[t][i] <=> IF i = 15 THEN f = "NoAI" ELSE Masked(t, i, f)
<1>1. SpecialMask[t][i] =
         IF i = 15 THEN {"NoAI"}
         ELSE UNION {row[3] : row \in {r \in SpecificMasks : t \in r[1] /\ i = r[2]}}
  BY DEF SpecialMask
<1> HIDE DEF SpecialMask
<1> QED BY <1>1 DEF Masked

\* Every row has a mask.
LEMMA PoseMasked ==
    ASSUME NEW t, NEW i, NEW f, Writes(PoseRows, t, i, f)
    PROVE  Masked(t, i, f)
BY DEF Writes, PoseRows, Masked, SpecificMasks

LEMMA MatrixMasked ==
    ASSUME NEW t, NEW i, NEW f, Writes(MatrixRows, t, i, f)
    PROVE  Masked(t, i, f)
BY DEF Writes, MatrixRows, Masked, SpecificMasks

LEMMA SpecialMasked ==
    ASSUME NEW t, t # "armor_stand", NEW i, NEW f, Writes(SpecialRows, t, i, f)
    PROVE  IF i = 15 THEN f = "NoAI" ELSE Masked(t, i, f)
BY DEF Writes, SpecialRows, Masked, SpecificMasks

LEMMA OtherMasked ==
    ASSUME NEW t, NEW i, NEW f,
           Writes(HorseRows \cup CamelRows \cup SnifferRows \cup PotionRows, t, i, f)
    PROVE  Masked(t, i, f)
BY DEF Writes, HorseRows, CamelRows, SnifferRows, PotionRows, Masked, SpecificMasks, Potions

\* Every mask but one has a row.
LEMMA MaskedWritten ==
    ASSUME NEW t, t # "armor_stand", NEW i, NEW f, Masked(t, i, f), f # "Lingering"
    PROVE  Writes(SpecificRows, t, i, f)
BY DEF Writes, SpecificRows, SpecialRows, MatrixRows, PoseRows, HorseRows, CamelRows,
       SnifferRows, PotionRows, Masked, SpecificMasks

\* What the entries of a type write and what their masks own, entry by entry: a flag of a
\* mask that no entry of the type writes is one of a few.
GenericTable(t, i) ==
    /\ GenericWritten[t][i] \subseteq GenericMask(i)
    /\ \A f \in GenericMask(i) \ GenericWritten[t][i] :
          i = 8 /\ t \in Potions \cup {"tnt"} /\ f \in {"UsingItem", "DamageNearbyMobs", "Emerging"}
    /\ "Lingering" \notin GenericWritten[t][i]
    /\ "Invisible" \in GenericWritten[t][i] => i = 0
    /\ t \in Potions \cup {"tnt"} =>
          /\ "UsingItem" \notin GenericWritten[t][i] /\ "Emerging" \notin GenericWritten[t][i]
          /\ "DamageNearbyMobs" \in GenericWritten[t][i] => i = 6

LEMMA GenericTables ==
    ASSUME NEW t \in Types, NEW i \in 0..21
    PROVE  GenericTable(t, i)
<1>1. \A f : f \in GenericWritten[t][i] <=> Writes(GenericRows, t, i, f)
  BY WritesIs DEF GenericWritten
<1> DEFINE mask == GenericMask(i)
           written == GenericWritten[t][i]
<1>2. ASSUME NEW f, Writes(GenericRows, t, i, f)
      PROVE  f \in mask
  BY <1>2 DEF Writes, GenericRows, GenericMask
<1>3. ASSUME NEW f, f \in mask
      PROVE  \/ Writes(GenericRows, t, i, f)
             \/ /\ i = 8 /\ t \in Potions \cup {"tnt"}
                /\ f \in {"UsingItem", "DamageNearbyMobs", "Emerging"}
  BY <1>3 DEF Writes, GenericRows, GenericMask
<1>4. ~Writes(GenericRows, t, i, "Lingering")
  BY DEF Writes, GenericRows
<1>5. Writes(GenericRows, t, i, "Invisible") => i = 0
  BY DEF Writes, GenericRows
<1>6. t \in Potions \cup {"tnt"} =>
        /\ ~Writes(GenericRows, t, i, "UsingItem") /\ ~Writes(GenericRows, t, i, "Emerging")
        /\ Writes(GenericRows, t, i, "DamageNearbyMobs") => i = 6
  BY DEF Writes, GenericRows
<1> QED BY <1>1, <1>2, <1>3, <1>4, <1>5, <1>6 DEF GenericTable

SpecificTable(t, i) ==
    /\ SpecificWritten[t][i] \subseteq SpecialMask[t][i]
    /\ \A f \in SpecialMask[t][i] \ SpecificWritten[t][i] :
          f = "Lingering" /\ t # "lingering_potion"
    /\ "Lingering" \in SpecificWritten[t][i] => t = "lingering_potion"
    /\ "Invisible" \notin SpecialMask[t][i]
    /\ t \in Potions \cup {"tnt"} =>
          \A f \in {"UsingItem", "DamageNearbyMobs", "Emerging"} : f \notin SpecialMask[t][i]
    /\ SpecificWritten[t][i] \cap GenericWritten[t][i] = {}

LEMMA SpecificTables ==
    ASSUME NEW t \in Types, t # "armor_stand", NEW i \in 0..21
    PROVE  SpecificTable(t, i)
<1> DEFINE mask == SpecialMask[t][i]
           written == SpecificWritten[t][i]
<1>1. /\ \A f : f \in written <=> Writes(SpecificRows, t, i, f)
      /\ \A f : f \in mask <=> IF i = 15 THEN f = "NoAI" ELSE Masked(t, i, f)
  BY WritesIs, MaskIs DEF SpecificWritten
<1>2. ASSUME NEW f, Writes(SpecificRows, t, i, f) PROVE f \in mask
  <2>1. \/ Writes(SpecialRows, t, i, f) \/ Writes(MatrixRows, t, i, f) \/ Writes(PoseRows, t, i, f)
        \/ Writes(HorseRows \cup CamelRows \cup SnifferRows \cup PotionRows, t, i, f)
    BY <1>2 DEF Writes, SpecificRows
  <2>2. Masked(t, i, f) => i # 15
    BY DEF Masked, SpecificMasks
  <2> QED BY <1>1, <2>1, <2>2, SpecialMasked, MatrixMasked, PoseMasked, OtherMasked
<1>3. ASSUME NEW f, f \in mask, ~Writes(SpecificRows, t, i, f)
      PROVE  f = "Lingering" /\ t # "lingering_potion"
  <2>1. i # 15
    <3>1. <<Types, 15, "NoAI", "bit", 1>> \in SpecificRows
      BY DEF SpecificRows, SpecialRows
    <3>2. Writes(SpecificRows, t, 15, "NoAI")
      BY <3>1 DEF Writes
    <3> QED BY <1>1, <1>3, <3>2
  <2>2. Masked(t, i, f) /\ f = "Lingering"
    BY <1>1, <1>3, <2>1, MaskedWritten
  <2>3. i = 8
    BY <2>2 DEF Masked, SpecificMasks
  <2>4. <<{"lingering_potion"}, 8, "Lingering", "always", 0>> \in SpecificRows
    BY DEF SpecificRows, PotionRows
  <2>5. Writes(SpecificRows, "lingering_potion", 8, "Lingering")
    BY <2>4 DEF Writes
  <2> QED BY <1>3, <2>2, <2>3, <2>5
<1>4. Writes(SpecificRows, t, i, "Lingering") => t = "lingering_potion"
  BY DEF Writes, SpecificRows, SpecialRows, MatrixRows, PoseRows, HorseRows, CamelRows,
         SnifferRows, PotionRows
<1>5. "Invisible" \notin mask
  BY <1>1 DEF Masked, SpecificMasks
<1>6. t \in Potions \cup {"tnt"} =>
         \A f \in {"UsingItem", "DamageNearbyMobs", "Emerging"} : f \notin mask
  BY <1>1 DEF Masked, SpecificMasks, Potions
<1>7. ASSUME NEW f, f \in written, f \in GenericWritten[t][i] PROVE FALSE
  <2>1. Writes(SpecificRows, t, i, f)
    BY <1>1, <1>7
  <2>2. Writes(GenericRows, t, i, f)
    BY <1>7, WritesIs DEF GenericWritten
  <2>3. \/ i \in {0, 4, 5}
        \/ i = 6 /\ f \in {"Sleeping", "Swimming", "DamageNearbyMobs"}
        \/ i = 8 /\ f \in {"UsingItem", "DamageNearbyMobs", "Emerging"}
    BY <2>2 DEF Writes, GenericRows
  <2>4. Masked(t, i, f)
    BY <1>1, <1>2, <2>1, <2>3
  <2> QED BY <2>3, <2>4 DEF Masked, SpecificMasks
<1> HIDE DEF mask, written
<1>8. written \subseteq mask /\ \A f \in mask \ written : f = "Lingering" /\ t # "lingering_potion"
  BY <1>1, <1>2, <1>3
<1>9. "Lingering" \in written => t = "lingering_potion"
  BY <1>1, <1>4
<1>10. written \cap GenericWritten[t][i] = {}
  BY <1>7
<1> QED BY <1>5, <1>6, <1>8, <1>9, <1>10 DEF SpecificTable, mask, written

\* What a value sets is among what its entry writes.
LEMMA SetWritten ==
    ASSUME NEW t \in Types, NEW i \in 0..21, NEW v \in JavaValues(t, i)
    PROVE  /\ GenericSet[t][i][v] \subseteq GenericWritten[t][i]
           /\ SpecificSet[t][i][v] \subseteq SpecificWritten[t][i]
<1>1. ASSUME NEW rows PROVE Set(rows)[t][i][v] \subseteq Written(rows)[t][i]
  <2>1. Set(rows)[t][i][v] = {row[3] : row \in {r \in RowsOf(rows, t, i) : Holds(r, v)}}
    BY DEF Set
  <2>2. Written(rows)[t][i] = {row[3] : row \in RowsOf(rows, t, i)}
    BY DEF Written
  <2> QED BY <2>1, <2>2
<1> QED BY <1>1 DEF GenericSet, SpecificSet, GenericWritten, SpecificWritten

\* An object stands: its pose sets no flag.
LEMMA ObjectsStand ==
    ASSUME NEW t \in Types, t \in Potions \cup {"tnt"}, NEW v \in JavaValues(t, 6)
    PROVE  "DamageNearbyMobs" \notin GenericSet[t][6][v]
<1>1. t \in Objects
  BY DEF Objects, Potions, Throwable
<1>2. v = 0
  BY <1>1 DEF JavaValues
<1>3. GenericSet[t][6][v] = {row[3] : row \in {r \in RowsOf(GenericRows, t, 6) : Holds(r, v)}}
  BY DEF GenericSet, Set
<1>4. ASSUME NEW r \in RowsOf(GenericRows, t, 6), r[3] = "DamageNearbyMobs" PROVE ~Holds(r, v)
  <2>1. r = <<Types, 6, "DamageNearbyMobs", "eq", 4>>
    BY <1>4 DEF RowsOf, GenericRows
  <2> QED BY <1>2, <2>1 DEF Holds
<1> QED BY <1>3, <1>4

(***************************************************************************)
(* The entry of a packet that says last                                    *)
(***************************************************************************)
LEMMA LastOne ==
    ASSUME NEW W \in SUBSET (0..21), W # {}
    PROVE  \E m \in W : \A k \in W : k <= m
<1> DEFINE T == {s \in SUBSET W : s # {} => \E m \in s : \A k \in s : k <= m}
<1>1. IsFiniteSet(W)
  <2>1. 0 \in Int /\ 21 \in Int
    OBVIOUS
  <2>2. IsFiniteSet(0..21)
    BY <2>1, FS_Interval
  <2> QED BY <2>2, FS_Subset
<1>2. ASSUME NEW s \in SUBSET W, \A r \in SUBSET s : r # s => r \in T
      PROVE  s \in T
  <2> SUFFICES ASSUME s # {} PROVE \E m \in s : \A k \in s : k <= m
    OBVIOUS
  <2>1. PICK x : x \in s
    OBVIOUS
  <2>2. \A k \in s : k \in Int
    OBVIOUS
  <2>3. CASE s \ {x} = {}
    BY <2>1, <2>2, <2>3
  <2>4. CASE s \ {x} # {}
    <3>1. s \ {x} \in T
      BY <1>2, <2>1
    <3>2. PICK m \in s \ {x} : \A k \in s \ {x} : k <= m
      BY <2>4, <3>1
    <3>3. x <= m \/ m <= x
      BY <2>1, <2>2
    <3> QED BY <2>1, <2>2, <3>2, <3>3
  <2> QED BY <2>3, <2>4
<1> HIDE DEF T
<1>3. W \in T
  BY <1>1, <1>2, SetInduction
<1> QED BY <1>3 DEF T

LEMMA LastSays ==
    ASSUME NEW written, NEW set, NEW p, DOMAIN p \subseteq 0..21,
           \A i \in DOMAIN p : set[i][p[i]] \subseteq written[i], NEW f
    PROVE  /\ f \in Projection(written, set, p) => \E i \in DOMAIN p : f \in written[i]
           /\ (\E i \in DOMAIN p : f \in written[i]) =>
                 \E i \in DOMAIN p : /\ f \in written[i]
                                     /\ f \in Projection(written, set, p) <=> f \in set[i][p[i]]
<1> DEFINE W == {i \in DOMAIN p : f \in written[i]}
           projected == Projection(written, set, p)
<1>1. f \in projected <=>
        \E i \in DOMAIN p : /\ f \in set[i][p[i]]
                            /\ \A j \in DOMAIN p : j > i => f \notin written[j]
  BY DEF Projection
<1> HIDE DEF projected
<1>2. f \in projected => \E i \in DOMAIN p : f \in written[i]
  BY <1>1
<1>3. ASSUME W # {}
      PROVE  \E i \in DOMAIN p : f \in written[i] /\ (f \in projected <=> f \in set[i][p[i]])
  <2>1. W \in SUBSET (0..21) /\ W # {}
    BY <1>3
  <2>2. PICK m \in W : \A k \in W : k <= m
    <3> HIDE DEF W
    <3> QED BY <2>1, LastOne
  <2>3. m \in DOMAIN p /\ f \in written[m] /\ \A k \in DOMAIN p : k \in Int
    OBVIOUS
  <2>4. \A j \in DOMAIN p : j > m => f \notin written[j]
    BY <2>2, <2>3
  <2>5. ASSUME f \in projected PROVE f \in set[m][p[m]]
    <3>1. PICK i \in DOMAIN p : /\ f \in set[i][p[i]]
                                /\ \A j \in DOMAIN p : j > i => f \notin written[j]
      BY <1>1, <2>5
    <3>2. i \in W
      BY <3>1
    <3>3. i <= m /\ ~(m > i)
      BY <2>2, <2>3, <3>1, <3>2
    <3>4. i = m
      BY <2>3, <3>3
    <3> QED BY <3>1, <3>4
  <2>6. f \in set[m][p[m]] => f \in projected
    BY <1>1, <2>3, <2>4
  <2> QED BY <2>3, <2>5, <2>6
<1> QED BY <1>2, <1>3 DEF projected

(***************************************************************************)
(* What a packet makes of the flags                                        *)
(***************************************************************************)
PacketOf(t, p) ==
    /\ DOMAIN p \subseteq 0..21
    /\ \A i \in DOMAIN p : p[i] \in JavaValues(t, i)

GenericOwned(t, p, f) == \E i \in DOMAIN p : f \in GenericWritten[t][i]
SpecificOwned(t, p, f) == \E i \in DOMAIN p : f \in SpecificWritten[t][i]
Flags == FlagsOne \cup FlagsTwo

LEMMA PacketTables ==
    ASSUME NEW t \in Types, t # "armor_stand", NEW p, PacketOf(t, p)
    PROVE  \A i \in DOMAIN p :
              /\ GenericTable(t, i) /\ SpecificTable(t, i)
              /\ GenericSet[t][i][p[i]] \subseteq GenericWritten[t][i]
              /\ SpecificSet[t][i][p[i]] \subseteq SpecificWritten[t][i]
BY GenericTables, SpecificTables, SetWritten DEF PacketOf

\* A flag that generic entries own is what the last of them says; another is kept, but
\* for those the byte 8 of a living entity would own.
LEMMA GenericGives ==
    ASSUME type \in Types, type # "armor_stand", NEW p, PacketOf(type, p), NEW f
    PROVE  /\ GenericOwned(type, p, f) /\ ~(type \in Throwable /\ f = "Invisible") =>
                 \E i \in DOMAIN p : /\ f \in GenericWritten[type][i]
                                     /\ f \in AfterGeneric(p) <=> f \in GenericSet[type][i][p[i]]
           /\ ~GenericOwned(type, p, f) =>
                 /\ f \in AfterGeneric(p) => f \in flags
                 /\ f \in flags =>
                       \/ f \in AfterGeneric(p)
                       \/ /\ type \in Potions \cup {"tnt"}
                          /\ f \in {"UsingItem", "DamageNearbyMobs", "Emerging"}
           /\ type \in Throwable /\ hidden /\ f = "Invisible" =>
                 (f \in flags => f \in AfterGeneric(p))
<1> DEFINE mask == OwnedMask(type, hidden, p)
           projected == Projection(GenericWritten[type], GenericSet[type], p)
           merged == \E i \in DOMAIN p : GenericWritten[type][i] # {}
           kept == AfterGeneric(p)
<1>1. f \in kept <=>
         IF merged THEN (f \in flags /\ f \notin mask) \/ (f \in projected /\ f \in mask)
         ELSE f \in flags
  BY DEF AfterGeneric
<1>2. f \in mask <=> /\ \E i \in DOMAIN p : f \in GenericMask(i)
                     /\ ~(type \in Throwable /\ hidden /\ f = "Invisible")
  BY DEF OwnedMask
<1>3. \A i \in DOMAIN p : /\ GenericTable(type, i)
                          /\ GenericSet[type][i][p[i]] \subseteq GenericWritten[type][i]
  BY PacketTables
<1>4. /\ f \in projected => \E i \in DOMAIN p : f \in GenericWritten[type][i]
      /\ (\E i \in DOMAIN p : f \in GenericWritten[type][i]) =>
            \E i \in DOMAIN p : /\ f \in GenericWritten[type][i]
                                /\ f \in projected <=> f \in GenericSet[type][i][p[i]]
  <2> DEFINE gw == GenericWritten[type]
             gs == GenericSet[type]
  <2>1. DOMAIN p \subseteq 0..21 /\ \A i \in DOMAIN p : gs[i][p[i]] \subseteq gw[i]
    BY <1>3 DEF PacketOf
  <2> HIDE DEF gw, gs
  <2>2. /\ f \in Projection(gw, gs, p) => \E i \in DOMAIN p : f \in gw[i]
        /\ (\E i \in DOMAIN p : f \in gw[i]) =>
              \E i \in DOMAIN p : f \in gw[i] /\ (f \in Projection(gw, gs, p) <=> f \in gs[i][p[i]])
    BY <2>1, LastSays
  <2> QED BY <2>2 DEF gw, gs
<1> HIDE DEF mask, projected, kept
<1>5. ASSUME GenericOwned(type, p, f), ~(type \in Throwable /\ f = "Invisible")
      PROVE  \E i \in DOMAIN p : /\ f \in GenericWritten[type][i]
                                 /\ f \in kept <=> f \in GenericSet[type][i][p[i]]
  <2>1. merged /\ f \in mask
    BY <1>2, <1>3, <1>5 DEF GenericOwned, GenericTable
  <2> QED BY <1>1, <1>4, <1>5, <2>1 DEF GenericOwned
<1>6. ASSUME ~GenericOwned(type, p, f), f \in kept PROVE f \in flags
  BY <1>1, <1>4, <1>6 DEF GenericOwned
<1>7. ASSUME ~GenericOwned(type, p, f), f \in flags, f \notin kept
      PROVE  /\ type \in Potions \cup {"tnt"}
             /\ f \in {"UsingItem", "DamageNearbyMobs", "Emerging"}
  <2>1. f \in mask
    BY <1>1, <1>7
  <2>2. PICK i \in DOMAIN p : f \in GenericMask(i)
    BY <1>2, <2>1
  <2> QED BY <1>3, <1>7, <2>2 DEF GenericOwned, GenericTable
<1>8. type \in Throwable /\ hidden /\ f = "Invisible" => (f \in flags => f \in kept)
  BY <1>1, <1>2
<1> QED BY <1>5, <1>6, <1>7, <1>8 DEF kept

\* A flag that entries of the type own is what the last of them says; another is kept.
LEMMA SpecificGives ==
    ASSUME type \in Types, type # "armor_stand", NEW p, PacketOf(type, p), NEW f \in Flags, NEW kept
    PROVE  /\ SpecificOwned(type, p, f) =>
                 \E i \in DOMAIN p :
                    /\ f \in SpecificWritten[type][i]
                    /\ f \in AfterSpecial(kept, p) <=> f \in SpecificSet[type][i][p[i]]
           /\ ~SpecificOwned(type, p, f) /\ ~(f = "Lingering" /\ type # "lingering_potion") =>
                 (f \in AfterSpecial(kept, p) <=> f \in kept)
<1> DEFINE mask == UNION {SpecialMask[type][i] : i \in DOMAIN p}
           projected == Projection(SpecificWritten[type], SpecificSet[type], p)
           merged == \E i \in DOMAIN p : SpecificWritten[type][i] # {}
           new == AfterSpecial(kept, p)
<1>1. f \in new <=> IF merged THEN \/ f \in Merge(kept, projected, mask, FlagsOne)
                                   \/ f \in Merge(kept, projected, mask, FlagsTwo)
                    ELSE f \in kept
  BY DEF AfterSpecial
<1>2. f \in mask <=> \E i \in DOMAIN p : f \in SpecialMask[type][i]
  OBVIOUS
<1>3. \A i \in DOMAIN p : /\ SpecificTable(type, i)
                          /\ SpecificSet[type][i][p[i]] \subseteq SpecificWritten[type][i]
  BY PacketTables
<1>4. /\ f \in projected => \E i \in DOMAIN p : f \in SpecificWritten[type][i]
      /\ (\E i \in DOMAIN p : f \in SpecificWritten[type][i]) =>
            \E i \in DOMAIN p : /\ f \in SpecificWritten[type][i]
                                /\ f \in projected <=> f \in SpecificSet[type][i][p[i]]
  <2> DEFINE sw == SpecificWritten[type]
             ss == SpecificSet[type]
  <2>1. DOMAIN p \subseteq 0..21 /\ \A i \in DOMAIN p : ss[i][p[i]] \subseteq sw[i]
    BY <1>3 DEF PacketOf
  <2> HIDE DEF sw, ss
  <2>2. /\ f \in Projection(sw, ss, p) => \E i \in DOMAIN p : f \in sw[i]
        /\ (\E i \in DOMAIN p : f \in sw[i]) =>
              \E i \in DOMAIN p : f \in sw[i] /\ (f \in Projection(sw, ss, p) <=> f \in ss[i][p[i]])
    BY <2>1, LastSays
  <2> QED BY <2>2 DEF sw, ss
<1> HIDE DEF mask, projected, new
<1>5. f \in mask /\ merged => (f \in new <=> f \in projected)
  BY <1>1 DEF Merge, Flags
<1>6. f \notin mask /\ f \notin projected => (f \in new <=> f \in kept)
  BY <1>1 DEF Merge, Flags
<1>7. ASSUME SpecificOwned(type, p, f)
      PROVE  \E i \in DOMAIN p : /\ f \in SpecificWritten[type][i]
                                 /\ f \in new <=> f \in SpecificSet[type][i][p[i]]
  <2>1. merged /\ f \in mask
    BY <1>2, <1>3, <1>7 DEF SpecificOwned, SpecificTable
  <2> QED BY <1>4, <1>5, <1>7, <2>1 DEF SpecificOwned
<1>8. ASSUME ~SpecificOwned(type, p, f), ~(f = "Lingering" /\ type # "lingering_potion")
      PROVE  f \in new <=> f \in kept
  <2>1. f \notin mask
    BY <1>2, <1>3, <1>8 DEF SpecificOwned, SpecificTable
  <2>2. f \notin projected
    BY <1>4, <1>8 DEF SpecificOwned
  <2> QED BY <1>6, <2>1, <2>2
<1> QED BY <1>7, <1>8 DEF new

(***************************************************************************)
(* The flags are Java's                                                    *)
(***************************************************************************)
\* Besides, no potion or primed TNT is marked as damaging those nearby: the byte 8 of a
\* living entity, which an object does not have, would take the mark.
FlagInv ==
    /\ type \in Types /\ indexes \in SUBSET (0..21) /\ DOMAIN java \subseteq 0..21
    /\ FlagsAgree
    /\ type \in Potions \cup {"tnt"} => "DamageNearbyMobs" \notin flags

\* The property, one flag at a time.
Follows(f) ==
    \E i \in OwningEntries(f) : f \in flags <=> Says(i, f)

FollowsOf(f) ==
    OwningEntries(f) # {} /\ ~(type \in Throwable /\ f = "Invisible") => Follows(f)

LEMMA FollowsAll ==
    /\ FlagsFollowJava <=> \A f \in Flags : FollowsOf(f)
    /\ FlagsFollowJava' <=> \A f \in Flags : FollowsOf(f)'
BY DEF FlagsFollowJava, Follows, FollowsOf, Flags, Says

LEMMA FlagsInitial == FlagsInit => FlagInv
<1> SUFFICES ASSUME FlagsInit PROVE FlagInv
  OBVIOUS
<1>1. type \in Types /\ indexes \in SUBSET (0..21)
  BY DEF FlagsInit, OwnedIndexes
<1>2. DOMAIN java = {} /\ hidden = (type \in Throwable)
  BY DEF FlagsInit
<1>3. FlagsFollowJava
  BY <1>2 DEF FlagsFollowJava, OwningEntries
<1>4. type \in Throwable => "Invisible" \in flags
  BY DEF FlagsInit, Throwable, Crystals
<1>5. HiddenUntilMoved
  BY <1>2, <1>4 DEF HiddenUntilMoved
<1>6. "DamageNearbyMobs" \notin flags
  BY DEF FlagsInit
<1> QED BY <1>1, <1>2, <1>3, <1>5, <1>6 DEF FlagInv, FlagsAgree

LEMMA RevealKeeps ==
    ASSUME FlagInv, Reveal
    PROVE  FlagInv'
<1>1. /\ type \in Throwable /\ type' = type /\ indexes' = indexes /\ java' = java
      /\ flags' = flags \ {"Invisible"} /\ hidden' = FALSE
  BY DEF Reveal
<1>2. FlagsFollowJava'
  <2>1. ASSUME NEW f \in Flags, OwningEntries(f)' # {}, f # "Invisible"
        PROVE  Follows(f)'
    <3>1. OwningEntries(f)' = OwningEntries(f)
      BY <1>1 DEF OwningEntries
    <3>2. Follows(f)
      BY <2>1, <3>1, FollowsAll DEF FlagInv, FlagsAgree, FollowsOf
    <3>3. \A i : Says(i, f)' <=> Says(i, f)
      BY <1>1 DEF Says
    <3>4. f \in flags' <=> f \in flags
      BY <1>1, <2>1
    <3> QED BY <3>1, <3>2, <3>3, <3>4 DEF Follows
  <2>2. \A f \in Flags : FollowsOf(f)'
    BY <1>1, <2>1 DEF FollowsOf
  <2> QED BY <2>2, FollowsAll
<1>3. HiddenUntilMoved'
  BY <1>1 DEF HiddenUntilMoved
<1> QED BY <1>1, <1>2, <1>3 DEF FlagInv, FlagsAgree

\* A packet of the type, of some of the entries.
LEMMA PacketsGive ==
    ASSUME type \in Types, indexes \in SUBSET (0..21), NEW p \in Packets(indexes)
    PROVE  PacketOf(type, p)
<1>1. DOMAIN p \subseteq indexes /\ \A i \in DOMAIN p : p[i] \in DOMAIN GenericSet[type][i]
  BY DEF Packets
<1>2. \A i \in 0..21 : DOMAIN GenericSet[type][i] = JavaValues(type, i)
  BY DEF GenericSet, Set
<1> QED BY <1>1, <1>2 DEF PacketOf

LEMMA MetadataFollows ==
    ASSUME FlagInv, type # "armor_stand", NEW p, PacketOf(type, p), Metadata(p),
           NEW f \in Flags, OwningEntries(f)' # {}, ~(type \in Throwable /\ f = "Invisible")
    PROVE  Follows(f)'
<1>1. /\ type' = type /\ flags' = AfterSpecial(AfterGeneric(p), p)
      /\ java' = [i \in DOMAIN java \cup DOMAIN p |-> IF i \in DOMAIN p THEN p[i] ELSE java[i]]
  BY DEF Metadata
<1>2. /\ DOMAIN java' = DOMAIN java \cup DOMAIN p
      /\ \A i \in DOMAIN p : java'[i] = p[i]
      /\ \A i \in DOMAIN java \ DOMAIN p : java'[i] = java[i]
  BY <1>1
<1>3. \A i : /\ i \in OwningEntries(f)' <=>
                   /\ i \in DOMAIN java'
                   /\ f \in GenericWritten[type][i] \/ f \in SpecificWritten[type][i]
             /\ Says(i, f)' <=> \/ f \in GenericSet[type][i][java'[i]]
                                \/ f \in SpecificSet[type][i][java'[i]]
  BY <1>1 DEF OwningEntries, Says
<1>4. \A i \in DOMAIN p : /\ GenericTable(type, i) /\ SpecificTable(type, i)
                          /\ GenericSet[type][i][p[i]] \subseteq GenericWritten[type][i]
                          /\ SpecificSet[type][i][p[i]] \subseteq SpecificWritten[type][i]
  BY PacketTables DEF FlagInv
<1> DEFINE kept == AfterGeneric(p)
           new == AfterSpecial(kept, p)
<1>5. /\ SpecificOwned(type, p, f) =>
            \E i \in DOMAIN p : /\ f \in SpecificWritten[type][i]
                                /\ f \in new <=> f \in SpecificSet[type][i][p[i]]
      /\ ~SpecificOwned(type, p, f) /\ ~(f = "Lingering" /\ type # "lingering_potion") =>
            (f \in new <=> f \in kept)
  <2> HIDE DEF kept
  <2> QED BY SpecificGives DEF FlagInv
<1>6. /\ GenericOwned(type, p, f) =>
            \E i \in DOMAIN p : /\ f \in GenericWritten[type][i]
                                /\ f \in kept <=> f \in GenericSet[type][i][p[i]]
      /\ ~GenericOwned(type, p, f) =>
            /\ f \in kept => f \in flags
            /\ f \in flags =>
                  \/ f \in kept
                  \/ /\ type \in Potions \cup {"tnt"}
                     /\ f \in {"UsingItem", "DamageNearbyMobs", "Emerging"}
  BY GenericGives DEF FlagInv
<1>7. flags' = new
  BY <1>1
<1> HIDE DEF kept, new
<1>8. CASE SpecificOwned(type, p, f)
  <2>1. PICK i \in DOMAIN p : /\ f \in SpecificWritten[type][i]
                              /\ f \in new <=> f \in SpecificSet[type][i][p[i]]
    BY <1>5, <1>8
  <2>2. f \notin GenericSet[type][i][p[i]]
    BY <1>4, <2>1 DEF SpecificTable
  <2>3. i \in OwningEntries(f)' /\ (f \in flags' <=> Says(i, f)')
    BY <1>2, <1>3, <1>7, <2>1, <2>2
  <2> QED BY <2>3 DEF Follows
<1>9. CASE ~SpecificOwned(type, p, f) /\ GenericOwned(type, p, f)
  <2>1. PICK i \in DOMAIN p : /\ f \in GenericWritten[type][i]
                              /\ f \in kept <=> f \in GenericSet[type][i][p[i]]
    BY <1>6, <1>9
  <2>2. f \notin SpecificSet[type][i][p[i]] /\ f # "Lingering"
    BY <1>4, <1>9, <2>1 DEF SpecificOwned, GenericTable
  <2>3. i \in OwningEntries(f)' /\ (f \in flags' <=> Says(i, f)')
    BY <1>2, <1>3, <1>5, <1>7, <1>9, <2>1, <2>2
  <2> QED BY <2>3 DEF Follows
<1>10. CASE ~SpecificOwned(type, p, f) /\ ~GenericOwned(type, p, f)
  <2>1. /\ \A i \in DOMAIN p : f \notin GenericWritten[type][i] /\ f \notin SpecificWritten[type][i]
        /\ \A i : i \in OwningEntries(f) <=> i \in OwningEntries(f)'
        /\ \A i \in OwningEntries(f) : i \notin DOMAIN p
    BY <1>2, <1>3, <1>10 DEF SpecificOwned, GenericOwned, OwningEntries
  <2>2. PICK i \in OwningEntries(f) : f \in flags <=> Says(i, f)
    <3>1. OwningEntries(f) # {}
      BY <2>1
    <3> QED BY <3>1, FollowsAll DEF FlagInv, FlagsAgree, FollowsOf, Follows
  <2>3. Says(i, f) <=> Says(i, f)'
    <3>1. i \in DOMAIN java /\ i \notin DOMAIN p
      BY <2>1 DEF OwningEntries
    <3>2. java'[i] = java[i]
      BY <1>2, <3>1
    <3> QED BY <1>1, <3>2 DEF Says
  <2>4. /\ i \in 0..21
        /\ f \in GenericWritten[type][i] \/ f \in SpecificWritten[type][i]
        /\ GenericTable(type, i) /\ SpecificTable(type, i)
    BY GenericTables, SpecificTables DEF FlagInv, OwningEntries
  <2>5. ~(f = "Lingering" /\ type # "lingering_potion")
    BY <2>4 DEF GenericTable, SpecificTable
  <2>6. ASSUME type \in Potions \cup {"tnt"}, f \in {"UsingItem", "DamageNearbyMobs", "Emerging"}
        PROVE  f \notin flags
    <3>1. f \notin SpecificWritten[type][i]
      BY <2>4, <2>6 DEF SpecificTable
    <3>2. f = "DamageNearbyMobs"
      BY <2>4, <2>6, <3>1 DEF GenericTable
    <3> QED BY <2>6, <3>2 DEF FlagInv
  <2>7. f \in new <=> f \in flags
    BY <1>5, <1>6, <1>10, <2>5, <2>6
  <2> QED BY <1>7, <2>1, <2>2, <2>3, <2>7 DEF Follows
<1> QED BY <1>8, <1>9, <1>10

LEMMA MetadataKeeps ==
    ASSUME FlagInv, type # "armor_stand", NEW p, PacketOf(type, p), Metadata(p)
    PROVE  FlagInv'
<1> DEFINE kept == AfterGeneric(p)
           new == AfterSpecial(kept, p)
<1>1. /\ type' = type /\ indexes' = indexes /\ hidden' = hidden /\ flags' = new
      /\ DOMAIN java' = DOMAIN java \cup DOMAIN p
  BY DEF Metadata
<1>2. FlagsFollowJava'
  <2>1. ASSUME NEW f \in Flags PROVE FollowsOf(f)'
    BY <1>1, MetadataFollows DEF FollowsOf
  <2> QED BY <2>1, FollowsAll
<1>3. /\ "Invisible" \in Flags /\ "DamageNearbyMobs" \in Flags
  <2>1. <<Types, 0, "Invisible", "bit", 32>> \in GenericRows
        /\ <<Types, 6, "DamageNearbyMobs", "eq", 4>> \in GenericRows
    BY DEF GenericRows
  <2>2. \A r \in GenericRows : r[3] \in Flags
    BY DEF Flags, FlagsOne
  <2>3. <<Types, 0, "Invisible", "bit", 32>>[3] = "Invisible"
        /\ <<Types, 6, "DamageNearbyMobs", "eq", 4>>[3] = "DamageNearbyMobs"
    OBVIOUS
  <2> QED BY <2>1, <2>2, <2>3
<1>4. \A i \in DOMAIN p : GenericTable(type, i) /\ SpecificTable(type, i)
  BY PacketTables DEF FlagInv
<1>5. /\ "Invisible" \in new <=> "Invisible" \in kept
      /\ type \in Potions \cup {"tnt"} =>
            ("DamageNearbyMobs" \in new <=> "DamageNearbyMobs" \in kept)
  <2>1. ~SpecificOwned(type, p, "Invisible")
        /\ (type \in Potions \cup {"tnt"} => ~SpecificOwned(type, p, "DamageNearbyMobs"))
    BY <1>4 DEF SpecificOwned, SpecificTable
  <2> HIDE DEF kept
  <2> QED BY <1>3, <2>1, SpecificGives DEF FlagInv
<1> HIDE DEF kept, new
<1>6. HiddenUntilMoved'
  <2> SUFFICES ASSUME type \in Throwable
               PROVE  /\ hidden => "Invisible" \in kept
                      /\ (~hidden /\ 0 \notin DOMAIN java') => "Invisible" \notin kept
    BY <1>1, <1>5 DEF HiddenUntilMoved
  <2>1. ASSUME hidden PROVE "Invisible" \in kept
    <3>1. "Invisible" \in flags
      BY <2>1 DEF FlagInv, FlagsAgree, HiddenUntilMoved
    <3> QED BY <2>1, <3>1, GenericGives DEF FlagInv, kept
  <2>2. ASSUME ~hidden, 0 \notin DOMAIN java' PROVE "Invisible" \notin kept
    <3>1. 0 \notin DOMAIN java /\ 0 \notin DOMAIN p
      BY <1>1, <2>2
    <3>2. "Invisible" \notin flags
      BY <2>2, <3>1 DEF FlagInv, FlagsAgree, HiddenUntilMoved
    <3>3. ~GenericOwned(type, p, "Invisible")
      BY <1>4, <3>1 DEF GenericOwned, GenericTable
    <3> QED BY <3>2, <3>3, GenericGives DEF FlagInv, kept
  <2> QED BY <2>1, <2>2
<1>7. ASSUME type \in Potions \cup {"tnt"} PROVE "DamageNearbyMobs" \notin kept
  <2>1. "DamageNearbyMobs" \notin flags
    BY <1>7 DEF FlagInv
  <2>2. CASE ~GenericOwned(type, p, "DamageNearbyMobs")
    BY <2>1, <2>2, GenericGives DEF FlagInv, kept
  <2>3. CASE GenericOwned(type, p, "DamageNearbyMobs")
    <3>1. PICK i \in DOMAIN p :
             /\ "DamageNearbyMobs" \in GenericWritten[type][i]
             /\ "DamageNearbyMobs" \in kept <=> "DamageNearbyMobs" \in GenericSet[type][i][p[i]]
      BY <2>3, GenericGives DEF FlagInv, kept
    <3>2. i = 6 /\ p[6] \in JavaValues(type, 6)
      BY <1>4, <1>7, <3>1 DEF GenericTable, PacketOf
    <3>3. "DamageNearbyMobs" \notin GenericSet[type][6][p[6]]
      BY <1>7, <3>2, ObjectsStand DEF FlagInv
    <3> QED BY <3>1, <3>2, <3>3
  <2> QED BY <2>2, <2>3
<1>8. DOMAIN java' \subseteq 0..21
  BY <1>1 DEF FlagInv, PacketOf
<1> QED BY <1>1, <1>2, <1>5, <1>6, <1>7, <1>8 DEF FlagInv, FlagsAgree

\* The flags of an actor are what Java's entries say of them last, whichever packets the
\* entries came in and whichever share a flag, and a thrown item is out of sight until the
\* server moves it (setProjectedFlag, specialEntityFlagMasks, translateEntityMetadata,
\* revealJavaProjectileLocked).  All types but the armor stand, whose entry 15 has a mask
\* that is never reached.
THEOREM FlagsCorrect ==
    ASSUME "armor_stand" \notin Types
    PROVE  FlagsSpec => []FlagsAgree
<1>1. FlagInv /\ [FlagsNext]_flagVars => FlagInv'
  <2> SUFFICES ASSUME FlagInv, [FlagsNext]_flagVars PROVE FlagInv'
    OBVIOUS
  <2>1. CASE UNCHANGED flagVars
    BY <2>1 DEF flagVars, FlagInv, FlagsAgree, FlagsFollowJava, HiddenUntilMoved,
                OwningEntries, Says
  <2>2. ASSUME NEW p \in Packets(indexes), Metadata(p) PROVE FlagInv'
    <3>1. PacketOf(type, p)
      BY PacketsGive DEF FlagInv
    <3> QED BY <2>2, <3>1, MetadataKeeps DEF FlagInv
  <2>3. CASE Reveal
    BY <2>3, RevealKeeps
  <2> QED BY <2>1, <2>2, <2>3 DEF FlagsNext
<1>2. FlagInv => FlagsAgree
  BY DEF FlagInv
<1> QED BY <1>1, <1>2, FlagsInitial, PTL DEF FlagsSpec

(***************************************************************************)
(* The recipe book                                                         *)
(***************************************************************************)
\* The numbers given out are below the next, and no two recipes share one.
NumbersApart ==
    /\ recipeNetworkID \in Nat \ {0}
    /\ \A r \in recipes : r.net \in Nat /\ r.net < recipeNetworkID
    /\ \A r, s \in recipes : r.net = s.net => r = s

\* How many there are: no packet of the book adds more recipes than the server has, and
\* the stonecutter's come once.
NumbersCounted ==
    recipeNetworkID - 1 <= bookPackets * Cardinality(RecipeNumbers)
        + (IF \A r \in recipes : r.name[1] = 0 THEN 0 ELSE Cardinality(DOMAIN Cuts(cuttings)))

\* What is remembered is what is unlocked; before the first packet that is nothing.
BookInv ==
    /\ BookAgrees /\ NumbersApart /\ NumbersCounted
    /\ recipeIDs = unlocked
    /\ cuttings \in Cuttings
    /\ bookPackets \in 0..MaxBookPackets
    /\ bookPackets = 0 => book = {}

\* Far from the largest number, the numbers go up.
LEMMA NumbersGoUp ==
    ASSUME recipeNetworkID \in Nat \ {0}, NEW k \in Nat, recipeNetworkID + k <= MaxNetworkID
    PROVE  NetworkID(k) = recipeNetworkID + k
<1>1. \A m \in Nat \ {0} : \A x \in 0..m - 1 : x % m = x
  OBVIOUS
<1>2. recipeNetworkID - 1 + k \in 0..MaxNetworkID - 1
  BY RecipesAssumption
<1> QED BY <1>1, <1>2, RecipesAssumption DEF NetworkID

\* Each place of a packet has a number of its own, all above those given out before.
LEMMA NumbersOfPlaces ==
    ASSUME NEW P \in SUBSET (Nat \X Nat), IsFiniteSet(P), NumbersApart,
           recipeNetworkID + Cardinality(P) <= MaxNetworkID
    PROVE  LET At(p) == NetworkID(Cardinality({q \in P : Precedes(q, p)}))
           IN  /\ \A p \in P : At(p) \in recipeNetworkID..recipeNetworkID + Cardinality(P) - 1
               /\ \A p, q \in P : At(p) = At(q) => p = q
<1> DEFINE Ahead(p) == {q \in P : Precedes(q, p)}
<1>1. Cardinality(P) \in Nat
  BY FS_CardinalityType
<1>2. ASSUME NEW p \in P
      PROVE  /\ IsFiniteSet(Ahead(p)) /\ Cardinality(Ahead(p)) \in Nat
             /\ Cardinality(Ahead(p)) < Cardinality(P)
             /\ NetworkID(Cardinality(Ahead(p))) = recipeNetworkID + Cardinality(Ahead(p))
  <2>1. Ahead(p) \in SUBSET P /\ p \notin Ahead(p)
    BY DEF Precedes
  <2>2. /\ IsFiniteSet(Ahead(p)) /\ Cardinality(Ahead(p)) <= Cardinality(P)
        /\ Cardinality(Ahead(p)) # Cardinality(P)
    BY <2>1, FS_Subset
  <2>3. Cardinality(Ahead(p)) \in Nat
    BY <2>2, FS_CardinalityType
  <2>4. recipeNetworkID + Cardinality(Ahead(p)) <= MaxNetworkID
    BY <1>1, <2>2, <2>3, RecipesAssumption DEF NumbersApart
  <2> QED BY <1>1, <2>2, <2>3, <2>4, NumbersGoUp DEF NumbersApart
<1>3. ASSUME NEW p \in P, NEW q \in P, Precedes(p, q)
      PROVE  Cardinality(Ahead(p)) < Cardinality(Ahead(q))
  <2>1. Ahead(p) \in SUBSET Ahead(q)
    BY <1>3 DEF Precedes
  <2>2. p \in Ahead(q) /\ p \notin Ahead(p)
    BY <1>3 DEF Precedes
  <2>3. /\ Cardinality(Ahead(p)) <= Cardinality(Ahead(q))
        /\ Cardinality(Ahead(p)) # Cardinality(Ahead(q))
    BY <1>2, <2>1, <2>2, FS_Subset
  <2> HIDE DEF Ahead
  <2> QED BY <1>2, <2>3
<1>4. ASSUME NEW p \in P, NEW q \in P, p # q PROVE Precedes(p, q) \/ Precedes(q, p)
  <2>1. /\ p = <<p[1], p[2]>> /\ p[1] \in Nat /\ p[2] \in Nat
        /\ q = <<q[1], q[2]>> /\ q[1] \in Nat /\ q[2] \in Nat
    OBVIOUS
  <2>2. p[1] # q[1] \/ p[2] # q[2]
    BY <1>4, <2>1
  <2> QED BY <2>1, <2>2 DEF Precedes
<1>5. ASSUME NEW p \in P, NEW q \in P,
             NetworkID(Cardinality(Ahead(p))) = NetworkID(Cardinality(Ahead(q)))
      PROVE  p = q
  <2>1. \A x, y \in Nat : recipeNetworkID + x = recipeNetworkID + y => x = y
    BY DEF NumbersApart
  <2>2. /\ Cardinality(Ahead(p)) \in Nat /\ Cardinality(Ahead(q)) \in Nat
        /\ recipeNetworkID + Cardinality(Ahead(p)) = recipeNetworkID + Cardinality(Ahead(q))
    BY <1>2, <1>5
  <2>3. Cardinality(Ahead(p)) = Cardinality(Ahead(q))
    BY <2>1, <2>2
  <2> HIDE DEF Ahead
  <2> QED BY <1>3, <1>4, <2>2, <2>3
<1>6. ASSUME NEW p \in P
      PROVE  NetworkID(Cardinality(Ahead(p))) \in recipeNetworkID..recipeNetworkID + Cardinality(P) - 1
  BY <1>1, <1>2 DEF NumbersApart
<1> QED BY <1>5, <1>6

\* What sending recipes does: the client has them, under numbers of their own.
LEMMA RecipesSent ==
    ASSUME NEW new, SendsRecipes(new), NumbersApart,
           DOMAIN new \in SUBSET (Nat \X Nat), IsFiniteSet(DOMAIN new),
           recipeNetworkID + Cardinality(DOMAIN new) <= MaxNetworkID
    PROVE  /\ NumbersApart'
           /\ recipeNetworkID' = recipeNetworkID + Cardinality(DOMAIN new)
           /\ recipes \subseteq recipes'
           /\ \A p \in DOMAIN new :
                 \E r \in recipes' : r.name = new[p].name /\ r.recipe = new[p].recipe
           /\ \A r \in recipes' : r \in recipes \/ \E p \in DOMAIN new : r.name = new[p].name
<1> DEFINE At(p) == NetworkID(Cardinality({q \in DOMAIN new : Precedes(q, p)}))
           Made(p) == [net |-> At(p), name |-> new[p].name, recipe |-> new[p].recipe]
<1>1. recipes' = recipes \cup {Made(p) : p \in DOMAIN new}
  BY DEF SendsRecipes
<1>2. Cardinality(DOMAIN new) \in Nat
  BY FS_CardinalityType
<1>3. recipeNetworkID' = recipeNetworkID + Cardinality(DOMAIN new)
  BY <1>2, NumbersGoUp DEF SendsRecipes, NumbersApart
<1>4. /\ \A p \in DOMAIN new : At(p) \in recipeNetworkID..recipeNetworkID + Cardinality(DOMAIN new) - 1
      /\ \A p, q \in DOMAIN new : At(p) = At(q) => p = q
  BY NumbersOfPlaces
<1> HIDE DEF At
<1>5. NumbersApart'
  BY <1>1, <1>2, <1>3, <1>4 DEF NumbersApart
<1>6. ASSUME NEW p \in DOMAIN new
      PROVE  \E r \in recipes' : r.name = new[p].name /\ r.recipe = new[p].recipe
  <2>1. Made(p) \in recipes'
    BY <1>1
  <2> QED BY <2>1
<1>7. ASSUME NEW r \in recipes', r \notin recipes
      PROVE  \E p \in DOMAIN new : r.name = new[p].name
  <2>1. PICK p \in DOMAIN new : r = Made(p)
    BY <1>1, <1>7
  <2> QED BY <2>1
<1> QED BY <1>1, <1>3, <1>5, <1>6, <1>7

\* Multiples of a number.
LEMMA Multiples ==
    \A b, c, m \in Nat : b < c =>
        /\ b * m \in Nat /\ c * m \in Nat /\ (b + 1) * m \in Nat
        /\ (b + 1) * m = b * m + m
        /\ b * m + m <= c * m
  <1>1. ASSUME NEW b \in Nat, NEW c \in Nat, NEW m \in Nat, b < c
        PROVE  /\ b * m \in Nat /\ c * m \in Nat /\ (b + 1) * m \in Nat
               /\ (b + 1) * m = b * m + m
               /\ b * m + m <= c * m
    <2>1. b * m \in Nat /\ c * m \in Nat /\ (b + 1) * m \in Nat /\ (b + 1) * m = b * m + m
      OBVIOUS
    <2>2. PICK d \in Nat : c = b + 1 + d
      <3>1. c - b - 1 \in Nat /\ c = b + 1 + (c - b - 1)
        BY <1>1
      <3> QED BY <3>1
    <2>3. d * m \in Nat /\ c * m = b * m + m + d * m
      BY <2>2
    <2> QED BY <2>1, <2>3
  <1> QED BY <1>1

\* The stonecutter's recipes are finitely many, at places of the packet, and none of
\* them has the name of one of the book.
LEMMA CutsFinite ==
    ASSUME NEW declared \in Cuttings
    PROVE  /\ DOMAIN Cuts(declared) \in SUBSET (Nat \X Nat)
           /\ IsFiniteSet(DOMAIN Cuts(declared)) /\ Cardinality(DOMAIN Cuts(declared)) \in Nat
           /\ \A p \in DOMAIN Cuts(declared) : Cuts(declared)[p].name[1] # 0
<1> DEFINE shown == {c \in DOMAIN declared : Output(declared[c].result) # None}
           InputsOf(c) == {c} \X DOMAIN Inputs(declared[c])
           places == UNION {InputsOf(c) : c \in shown}
<1>1. shown \in SUBSET (Nat \ {0}) /\ IsFiniteSet(shown)
  <2>1. declared \in Seq(ToSet(declared))
    BY RecipesAssumption
  <2>2. DOMAIN declared = 1..Len(declared) /\ Len(declared) \in Nat
    BY <2>1
  <2>3. IsFiniteSet(DOMAIN declared)
    BY <2>2, FS_Interval
  <2> QED BY <2>2, <2>3, FS_Subset
<1>2. ASSUME NEW c \in shown
      PROVE  DOMAIN Inputs(declared[c]) \in SUBSET Nat /\ IsFiniteSet(DOMAIN Inputs(declared[c]))
  <2>1. CASE declared[c].tag # NoTag
    <3>1. DOMAIN Inputs(declared[c]) = {1}
      BY <2>1 DEF Inputs
    <3> QED BY <3>1, FS_Singleton
  <2>2. CASE declared[c].tag = NoTag
    <3> DEFINE ids == declared[c].ids
    <3>1. DOMAIN Inputs(declared[c]) = {i \in DOMAIN ids : ids[i] \in KnownItems}
      BY <2>2 DEF Inputs
    <3>2. ids \in Seq(ToSet(ids))
      BY RecipesAssumption DEF ToSet
    <3>3. DOMAIN ids = 1..Len(ids) /\ Len(ids) \in Nat
      BY <3>2
    <3>4. IsFiniteSet(DOMAIN ids)
      BY <3>3, FS_Interval
    <3> QED BY <3>1, <3>3, <3>4, FS_Subset
  <2> QED BY <2>1, <2>2
<1>3. ASSUME NEW c \in shown
      PROVE  IsFiniteSet(InputsOf(c))
  <2>1. IsFiniteSet({c})
    BY FS_Singleton
  <2> QED BY <1>2, <2>1, FS_Product
<1>4. IsFiniteSet({InputsOf(c) : c \in shown})
  <2>1. [c \in shown |-> InputsOf(c)] \in Surjection(shown, {InputsOf(c) : c \in shown})
    BY DEF Surjection
  <2> QED BY <1>1, <2>1, FS_Surjection
<1>5. IsFiniteSet(places)
  BY <1>3, <1>4, FS_UNION
<1>6. DOMAIN Cuts(declared) = places
  BY DEF Cuts
<1>7. places \in SUBSET (Nat \X Nat) /\ \A p \in places : p[1] \in shown
  BY <1>1, <1>2
<1>8. \A p \in places : Cuts(declared)[p].name[1] = p[1]
  BY DEF Cuts
<1> QED BY <1>1, <1>5, <1>6, <1>7, <1>8, FS_CardinalityType

\* The server fills the book, or adds to it.
LEMMA AddAgrees ==
    ASSUME BookInv, NumbersSuffice, bookPackets < MaxBookPackets, bookPackets' = bookPackets + 1,
           NEW entries \in BookEntries, RecipeBookAdd(entries, bookPackets = 0)
    PROVE  BookInv'
<1> DEFINE places == {i \in DOMAIN entries : entries[i] \notin recipeIDs /\ Supported(entries[i])}
           added == {entries[i] : i \in places}
           named == {n \in added : ~IsSmithing(displays[n])}
           new == [p \in {0} \X places |->
                      [name |-> <<0, entries[p[2]]>>, recipe |-> ToBedrock(displays[entries[p[2]]])]]
           given == Cardinality(RecipeNumbers)
<1>1. given \in Nat /\ MaxBookPackets \in Nat /\ bookPackets \in Nat
  BY RecipesAssumption, FS_CardinalityType DEF BookInv
<1>2. /\ DOMAIN new \in SUBSET (Nat \X Nat) /\ IsFiniteSet(DOMAIN new)
      /\ Cardinality(DOMAIN new) \in 0..given
  <2>1. PICK s \in SUBSET RecipeNumbers : entries \in SetToSeqs(s)
    BY DEF BookEntries
  <2>2. IsFiniteSet(s) /\ Cardinality(s) \in 0..given
    BY <1>1, <2>1, RecipesAssumption, FS_Subset, FS_CardinalityType
  <2>3. DOMAIN entries = 1..Cardinality(s)
    BY <2>1 DEF SetToSeqs
  <2>4. IsFiniteSet(DOMAIN entries) /\ Cardinality(DOMAIN entries) = Cardinality(s)
    BY <2>2, <2>3, FS_Interval
  <2>5. IsFiniteSet(places) /\ Cardinality(places) \in 0..given
    BY <1>1, <2>2, <2>4, FS_Subset, FS_CardinalityType
  <2>6. [i \in places |-> <<0, i>>] \in Bijection(places, {0} \X places)
    BY DEF Bijection, Injection, Surjection, IsInjective
  <2>7. IsFiniteSet({0} \X places) /\ Cardinality({0} \X places) = Cardinality(places)
    BY <2>5, <2>6, FS_Bijection DEF ExistsBijection
  <2>8. DOMAIN new = {0} \X places /\ {0} \X places \in SUBSET (Nat \X Nat)
    BY <2>3
  <2> QED BY <2>5, <2>7, <2>8
<1>3. /\ SendsRecipes(new)
      /\ recipeIDs' = recipeIDs \cup named
      /\ unlocked' = IF named = {} THEN unlocked
                     ELSE (IF bookPackets = 0 THEN {} ELSE unlocked) \cup named
      /\ book' = (IF bookPackets = 0 THEN {} ELSE book) \cup ToSet(entries)
      /\ displays' = displays /\ cuttings' = cuttings
  BY DEF RecipeBookAdd
<1>4. recipeNetworkID + Cardinality(DOMAIN new) <= MaxNetworkID
  <2>1. /\ Cardinality(DOMAIN Cuts(cuttings)) \in Nat
        /\ MaxBookPackets * given + Cardinality(DOMAIN Cuts(cuttings)) < MaxNetworkID
    BY CutsFinite DEF BookInv, NumbersSuffice
  <2>2. recipeNetworkID - 1 <= bookPackets * given + Cardinality(DOMAIN Cuts(cuttings))
    BY <1>1, <2>1 DEF BookInv, NumbersCounted, NumbersApart
  <2>3. bookPackets * given + given <= MaxBookPackets * given
    BY <1>1, Multiples
  <2> QED BY <1>1, <1>2, <2>1, <2>2, <2>3, RecipesAssumption DEF BookInv, NumbersApart
<1>5. /\ NumbersApart'
      /\ recipeNetworkID' = recipeNetworkID + Cardinality(DOMAIN new)
      /\ recipes \subseteq recipes'
      /\ \A p \in DOMAIN new : \E r \in recipes' : r.name = new[p].name /\ r.recipe = new[p].recipe
      /\ \A r \in recipes' : r \in recipes \/ \E p \in DOMAIN new : r.name = new[p].name
  BY <1>2, <1>3, <1>4, RecipesSent DEF BookInv
<1>6. ASSUME NEW n \in added
      PROVE  \E r \in recipes' : r.name = <<0, n>> /\ r.recipe = ToBedrock(displays[n])
  <2>1. PICK i \in places : n = entries[i]
    OBVIOUS
  <2>2. /\ <<0, i>> \in DOMAIN new
        /\ new[<<0, i>>].name = <<0, n>> /\ new[<<0, i>>].recipe = ToBedrock(displays[n])
    BY <2>1
  <2> QED BY <1>5, <2>2
<1>7. NumbersCounted'
  <2>1. (bookPackets + 1) * given = bookPackets * given + given
    BY <1>1, Multiples
  <2>2. \A r \in recipes' : r \in recipes \/ r.name[1] = 0
    <3>1. \A p \in DOMAIN new : new[p].name[1] = 0
      OBVIOUS
    <3> HIDE DEF new
    <3> QED BY <1>5, <3>1
  <2>3. (\A r \in recipes' : r.name[1] = 0) <=> (\A r \in recipes : r.name[1] = 0)
    BY <1>5, <2>2
  <2>4. Cardinality(DOMAIN Cuts(cuttings)) \in Nat /\ bookPackets * given \in Nat
    BY <1>1, CutsFinite, Multiples DEF BookInv
  <2> QED BY <1>1, <1>2, <1>3, <1>5, <2>1, <2>3, <2>4 DEF BookInv, NumbersCounted, NumbersApart
<1>8. /\ recipeIDs' = unlocked'
      /\ unlocked' = {n \in book' : Supported(n) /\ ~IsSmithing(displays[n])}
  <2>1. bookPackets = 0 => unlocked = {} /\ book = {}
    BY DEF BookInv, BookAgrees
  <2>2. book' = book \cup ToSet(entries) /\ unlocked' = unlocked \cup named
    BY <1>3, <2>1
  <2>3. \A n \in ToSet(entries) : n \in unlocked \/ (n \in added <=> Supported(n))
    BY DEF BookInv, ToSet
  <2>4. added \subseteq ToSet(entries) /\ \A n \in added : Supported(n)
    BY DEF ToSet
  <2> QED BY <1>3, <2>2, <2>3, <2>4 DEF BookInv, BookAgrees
<1>9. \A n \in book' : Supported(n) =>
          \E r \in recipes' : r.name = <<0, n>> /\ r.recipe = ToBedrock(displays[n])
  <2>1. ASSUME NEW n \in book', Supported(n)
        PROVE  n \in book \/ n \in added
    BY <1>3, <2>1 DEF ToSet, BookInv, BookAgrees
  <2> QED BY <1>5, <1>6, <2>1, ZenonT(60) DEF BookInv, BookAgrees
<1>10. BookAgrees'
  <2>1. \A n : Supported(n)' <=> Supported(n)
    BY <1>3 DEF Supported
  <2> QED BY <1>3, <1>5, <1>8, <1>9, <2>1 DEF BookAgrees, NumbersApart
<1> QED BY <1>1, <1>3, <1>5, <1>7, <1>8, <1>10 DEF BookInv

\* The server takes recipes out of the book.
LEMMA RemoveAgrees ==
    ASSUME BookInv, bookPackets < MaxBookPackets, bookPackets' = bookPackets + 1,
           NEW entries, RecipeBookRemove(entries)
    PROVE  BookInv'
<1>1. /\ book' = book \ ToSet(entries)
      /\ unlocked' = unlocked \ (recipeIDs \cap ToSet(entries))
      /\ recipeIDs' = recipeIDs \ ToSet(entries)
      /\ displays' = displays /\ cuttings' = cuttings /\ recipes' = recipes
      /\ recipeNetworkID' = recipeNetworkID
  BY DEF RecipeBookRemove
<1>2. \A n : Supported(n)' <=> Supported(n)
  BY <1>1 DEF Supported
<1>3. BookAgrees' /\ recipeIDs' = unlocked'
  BY <1>1, <1>2 DEF BookInv, BookAgrees
<1>4. NumbersApart'
  BY <1>1 DEF BookInv, NumbersApart
<1>5. NumbersCounted'
  <2>1. Cardinality(RecipeNumbers) \in Nat
    BY RecipesAssumption, FS_CardinalityType
  <2>2. /\ bookPackets * Cardinality(RecipeNumbers) \in Nat
        /\ (bookPackets + 1) * Cardinality(RecipeNumbers)
              = bookPackets * Cardinality(RecipeNumbers) + Cardinality(RecipeNumbers)
    BY <2>1, Multiples, RecipesAssumption DEF BookInv
  <2>3. Cardinality(DOMAIN Cuts(cuttings)) \in Nat
    BY CutsFinite DEF BookInv
  <2> QED BY <1>1, <2>1, <2>2, <2>3 DEF BookInv, NumbersCounted, NumbersApart
<1> QED BY <1>1, <1>3, <1>4, <1>5, RecipesAssumption DEF BookInv

\* The stonecutter's recipes.
LEMMA DeclareAgrees ==
    ASSUME BookInv, NumbersSuffice, bookPackets < MaxBookPackets, bookPackets' = bookPackets + 1,
           bookPackets # 0, \A r \in recipes : r.name[1] = 0, DeclareRecipes
    PROVE  BookInv'
<1> DEFINE new == Cuts(cuttings)
           given == Cardinality(RecipeNumbers)
<1>1. given \in Nat /\ MaxBookPackets \in Nat /\ bookPackets \in Nat
  BY RecipesAssumption, FS_CardinalityType DEF BookInv
<1>2. /\ DOMAIN new \in SUBSET (Nat \X Nat) /\ IsFiniteSet(DOMAIN new)
      /\ Cardinality(DOMAIN new) \in Nat
      /\ \A p \in DOMAIN new : new[p].name[1] # 0
  BY CutsFinite DEF BookInv
<1>3. /\ SendsRecipes(new)
      /\ UNCHANGED <<displays, book, cuttings, recipeIDs, unlocked>>
  BY DEF DeclareRecipes
<1> HIDE DEF new
<1>4. recipeNetworkID - 1 <= bookPackets * given
  <2>1. bookPackets * given \in Int
    BY <1>1
  <2> QED BY <2>1 DEF BookInv, NumbersCounted
<1>5. /\ bookPackets * given \in Nat /\ bookPackets * given <= MaxBookPackets * given
      /\ bookPackets * given <= (bookPackets + 1) * given
      /\ MaxBookPackets * given \in Nat /\ (bookPackets + 1) * given \in Nat
  BY <1>1, Multiples
<1>6. recipeNetworkID + Cardinality(DOMAIN new) <= MaxNetworkID
  <2>1. MaxBookPackets * given + Cardinality(DOMAIN new) < MaxNetworkID
    BY DEF BookInv, NumbersSuffice, new
  <2> QED BY <1>2, <1>4, <1>5, <2>1, RecipesAssumption DEF BookInv, NumbersApart
<1>7. /\ NumbersApart'
      /\ recipeNetworkID' = recipeNetworkID + Cardinality(DOMAIN new)
      /\ recipes \subseteq recipes'
      /\ \A p \in DOMAIN new : \E r \in recipes' : r.name = new[p].name /\ r.recipe = new[p].recipe
      /\ \A r \in recipes' : r \in recipes \/ \E p \in DOMAIN new : r.name = new[p].name
  BY <1>2, <1>3, <1>6, RecipesSent DEF BookInv
<1>8. NumbersCounted'
  <2>1. CASE DOMAIN new = {}
    <3>1. Cardinality(DOMAIN new) = 0
      BY <2>1, FS_EmptySet
    <3>2. \A r \in recipes' : r.name[1] = 0
      BY <1>7, <2>1
    <3> QED BY <1>1, <1>3, <1>4, <1>5, <1>7, <3>1, <3>2 DEF NumbersCounted, BookInv, NumbersApart
  <2>2. CASE DOMAIN new # {}
    <3>1. ~ \A r \in recipes' : r.name[1] = 0
      BY <1>2, <1>7, <2>2
    <3>2. Cardinality(DOMAIN Cuts(cuttings))' = Cardinality(DOMAIN new)
      BY <1>3 DEF new
    <3> QED BY <1>1, <1>2, <1>3, <1>4, <1>5, <1>7, <3>1, <3>2 DEF NumbersCounted, BookInv, NumbersApart
  <2> QED BY <2>1, <2>2
<1>9. BookAgrees'
  <2>1. \A n : Supported(n)' <=> Supported(n)
    BY <1>3 DEF Supported
  <2> QED BY <1>3, <1>7, <2>1 DEF BookInv, BookAgrees, NumbersApart
<1> QED BY <1>1, <1>3, <1>7, <1>8, <1>9, RecipesAssumption DEF BookInv

\* After any packets of the server, the client shows as unlocked what the server has in
\* the book and the bridge can show, has a recipe like the server's for each, and no two
\* recipes under one number (BookAgrees).
THEOREM BookCorrect ==
    ASSUME NumbersSuffice
    PROVE  RecipesSpec => []BookAgrees
<1>1. RecipesInit => BookInv
  <2> SUFFICES ASSUME RecipesInit PROVE BookInv
    OBVIOUS
  <2>1. /\ book = {} /\ recipeIDs = {} /\ recipeNetworkID = 1 /\ recipes = {}
        /\ unlocked = {} /\ bookPackets = 0 /\ cuttings \in Cuttings
    BY DEF RecipesInit
  <2>2. Cardinality(RecipeNumbers) \in Nat
    BY RecipesAssumption, FS_CardinalityType
  <2>3. NumbersCounted
    BY <2>1, <2>2 DEF NumbersCounted
  <2>4. BookAgrees /\ NumbersApart
    BY <2>1 DEF BookAgrees, NumbersApart
  <2> QED BY <2>1, <2>3, <2>4, RecipesAssumption DEF BookInv
<1>2. BookInv /\ [RecipesNext]_recipeVars => BookInv'
  <2> SUFFICES ASSUME BookInv, [RecipesNext]_recipeVars PROVE BookInv'
    OBVIOUS
  <2>1. CASE BookStep
    <3>1. bookPackets < MaxBookPackets /\ bookPackets' = bookPackets + 1
      BY <2>1 DEF BookStep
    <3>2. CASE \E e \in BookEntries : RecipeBookAdd(e, bookPackets = 0)
      BY <3>1, <3>2, AddAgrees
    <3>3. CASE \E e \in BookEntries : ToSet(e) \subseteq book /\ RecipeBookRemove(e)
      BY <3>1, <3>3, RemoveAgrees
    <3>4. CASE bookPackets # 0 /\ (\A r \in recipes : r.name[1] = 0) /\ DeclareRecipes
      BY <3>1, <3>4, DeclareAgrees
    <3> QED BY <2>1, <3>2, <3>3, <3>4 DEF BookStep
  <2>2. CASE UNCHANGED recipeVars
    <3>1. \A n : Supported(n)' <=> Supported(n)
      BY <2>2 DEF recipeVars, Supported
    <3>2. BookAgrees'
      BY <2>2, <3>1 DEF recipeVars, BookInv, BookAgrees
    <3>3. NumbersApart' /\ NumbersCounted'
      BY <2>2 DEF recipeVars, BookInv, NumbersApart, NumbersCounted
    <3> QED BY <2>2, <3>2, <3>3 DEF recipeVars, BookInv
  <2> QED BY <2>1, <2>2 DEF RecipesNext
<1>3. BookInv => BookAgrees
  BY DEF BookInv
<1> QED BY <1>1, <1>2, <1>3, PTL DEF RecipesSpec

(***************************************************************************)
(* The chunks                                                              *)
(*                                                                         *)
(* Both sides read the values of a section by an index that a word holds   *)
(* for them.  A word is computed digit by digit, and a palette value by    *)
(* value: what each becomes follows by counting the steps (CountingUp).    *)
(***************************************************************************)

(***************************************************************************)
(* Words of indices                                                        *)
(***************************************************************************)
\* What a word is made of, from its k-th digit on.
LEMMA WordParts ==
    ASSUME NEW bits \in Nat, NEW digits \in Seq(0..2^bits - 1)
    PROVE  \E from \in [1..Len(digits) + 1 -> Nat] :
              /\ Word(digits, bits) = from[1]
              /\ \A k \in 1..Len(digits) : from[k] = digits[k] + 2^bits * from[k + 1]
<1> DEFINE n == Len(digits)
           P == 2^bits
           Made(f) == f = [k \in 1..n + 1 |-> IF k > n THEN 0 ELSE digits[k] + P * f[k + 1]]
           from == CHOOSE f : Made(f)
<1>1. n \in Nat /\ P \in Nat \ {0} /\ \A k \in 1..n : digits[k] \in Nat
  BY Powers
<1>4. Word(digits, bits) = from[1]
  BY DEF Word
<1> HIDE DEF n, P
<1>2. \E f : Made(f)
  <2> DEFINE step == [j \in 1..n |-> [v \in Nat |-> digits[n + 1 - j] + P * v]]
  <2>1. step \in [1..n -> [Nat -> Nat]]
    BY <1>1
  <2> HIDE DEF step
  <2>8. \E h : Stepwise(h, n, Nat, 0, step)
    BY <1>1, <2>1, StepByStep
  <2>2. PICK h \in [0..n -> Nat] : h[0] = 0 /\ \A k \in 1..n : h[k] = step[k][h[k - 1]]
    BY <2>8 DEF Stepwise
  <2> DEFINE f == [k \in 1..n + 1 |-> h[n + 1 - k]]
  <2>3. ASSUME NEW k \in 1..n PROVE f[k] = digits[k] + P * f[k + 1]
    <3>1. n + 1 - k \in 1..n /\ h[n - k] \in Nat /\ (n + 1 - k) - 1 = n - k
      BY <1>1
    <3>2. h[n + 1 - k] = step[n + 1 - k][h[n - k]]
      BY <2>2, <3>1
    <3>3. step[n + 1 - k][h[n - k]] = digits[n + 1 - (n + 1 - k)] + P * h[n - k]
      BY <3>1 DEF step
    <3>4. n + 1 - (n + 1 - k) = k /\ f[k] = h[n + 1 - k] /\ f[k + 1] = h[n - k]
      BY <1>1
    <3> QED BY <3>2, <3>3, <3>4
  <2>4. f[n + 1] = 0
    BY <1>1, <2>2
  <2>5. f = [k \in 1..n + 1 |-> f[k]]
    OBVIOUS
  <2>6. \A k \in 1..n + 1 : k <= n \/ k = n + 1
    BY <1>1
  <2> HIDE DEF f
  <2>7. [k \in 1..n + 1 |-> f[k]] = [k \in 1..n + 1 |-> IF k > n THEN 0 ELSE digits[k] + P * f[k + 1]]
    BY <1>1, <2>3, <2>4, <2>6
  <2> QED BY <2>5, <2>7
<1>3. Made(from)
  BY <1>2
<1> HIDE DEF from
<1>5. /\ from[n + 1] = 0
      /\ \A k \in 1..n : from[k] = digits[k] + P * from[k + 1]
  <2>1. \A k \in 1..n + 1 : from[k] = IF k > n THEN 0 ELSE digits[k] + P * from[k + 1]
    BY <1>3
  <2>2. n + 1 \in 1..n + 1 /\ n + 1 > n
    BY <1>1
  <2>3. \A k \in 1..n : k \in 1..n + 1 /\ ~(k > n)
    BY <1>1
  <2> QED BY <2>1, <2>2, <2>3
<1>6. from \in [1..n + 1 -> Nat]
  <2> DEFINE T == {j \in 0..n : from[n + 1 - j] \in Nat}
  <2>1. 0 \in T
    BY <1>1, <1>5
  <2>2. ASSUME NEW j \in 0..n - 1, j \in T PROVE j + 1 \in T
    <3>1. /\ n + 1 - (j + 1) \in 1..n /\ (n + 1 - (j + 1)) + 1 = n + 1 - j
          /\ from[n + 1 - j] \in Nat
      BY <1>1, <2>2
    <3>2. from[n + 1 - (j + 1)] = digits[n + 1 - (j + 1)] + P * from[n + 1 - j]
      BY <1>5, <3>1
    <3>3. digits[n + 1 - (j + 1)] \in Nat /\ P \in Nat
      BY <1>1, <3>1
    <3>4. \A d, p, x \in Nat : d + p * x \in Nat
      OBVIOUS
    <3>5. digits[n + 1 - (j + 1)] + P * from[n + 1 - j] \in Nat
      BY <3>1, <3>3, <3>4
    <3>6. j + 1 \in 0..n
      BY <1>1
    <3> QED BY <3>2, <3>5, <3>6
  <2>3. \A j \in 0..n - 1 : j \in T => j + 1 \in T
    BY <2>2
  <2> HIDE DEF T
  <2>4. \A j \in 0..n : j \in T
    BY <1>1, <2>1, <2>3, CountingUp
  <2>5. ASSUME NEW k \in 1..n + 1 PROVE from[k] \in Nat
    <3>1. n + 1 - k \in 0..n /\ n + 1 - (n + 1 - k) = k
      BY <1>1
    <3> QED BY <2>4, <3>1 DEF T
  <2> QED BY <1>3, <2>5
<1> QED BY <1>4, <1>5, <1>6 DEF n, P

\* The digits of a word, by shift and mask.
LEMMA WordDigits ==
    ASSUME NEW bits \in Nat, NEW digits \in Seq(0..2^bits - 1)
    PROVE  /\ Word(digits, bits) \in Nat
           /\ \A k \in 1..Len(digits) :
                 (Word(digits, bits) \div 2^(bits * (k - 1))) % 2^bits = digits[k]
<1> DEFINE n == Len(digits)
           P == 2^bits
<1>1. PICK from \in [1..n + 1 -> Nat] :
         /\ Word(digits, bits) = from[1]
         /\ \A k \in 1..n : from[k] = digits[k] + P * from[k + 1]
  BY WordParts
<1>2. n \in Nat /\ P \in Nat \ {0} /\ \A k \in 1..n : digits[k] \in 0..P - 1
  BY Powers
<1> HIDE DEF n
<1> DEFINE T == {j \in 0..n : \E low \in 0..2^(bits * j) - 1 : from[1] = low + 2^(bits * j) * from[j + 1]}
<1>3. 0 \in T
  <2>1. 2^(bits * 0) = 1 /\ bits * 0 = 0
    BY Powers
  <2>2. from[1] \in Nat
    BY <1>2
  <2> QED BY <1>2, <2>1, <2>2
<1>4. ASSUME NEW j \in 0..n - 1, j \in T PROVE j + 1 \in T
  <2> DEFINE Q == 2^(bits * j)
  <2>1. PICK low \in 0..Q - 1 : from[1] = low + Q * from[j + 1]
    BY <1>4
  <2>2. bits * j \in Nat /\ bits * (j + 1) = bits * j + bits
    BY <1>2
  <2>3. Q \in Nat \ {0} /\ 2^(bits * (j + 1)) = Q * P
    BY <2>2, Powers
  <2>4. j + 1 \in 1..n /\ digits[j + 1] \in 0..P - 1 /\ from[j + 2] \in Nat /\ (j + 1) + 1 = j + 2
    BY <1>2
  <2>5. from[j + 1] = digits[j + 1] + P * from[j + 2]
    BY <1>1, <2>4
  <2> HIDE DEF Q, P
  <2>6. ASSUME NEW q \in Nat \ {0}, NEW p \in Nat \ {0}, NEW l \in 0..q - 1, NEW d \in 0..p - 1,
               NEW x \in Nat, NEW total, total = l + q * (d + p * x)
        PROVE  total = (l + q * d) + (q * p) * x /\ l + q * d \in 0..q * p - 1
    <3>1. q * (d + 1) <= q * p
      BY Z3
    <3>2. q * (d + 1) = q * d + q /\ q * d \in Nat
      OBVIOUS
    <3>3. l + q * (d + p * x) = (l + q * d) + (q * p) * x
      OBVIOUS
    <3> QED BY <2>6, <3>1, <3>2, <3>3
  <2>7. /\ from[1] = (low + Q * digits[j + 1]) + (Q * P) * from[j + 2]
        /\ low + Q * digits[j + 1] \in 0..Q * P - 1
    <3>1. /\ Q \in Nat \ {0} /\ P \in Nat \ {0} /\ low \in 0..Q - 1
          /\ digits[j + 1] \in 0..P - 1 /\ from[j + 2] \in Nat
      BY <1>2, <2>3, <2>4 DEF P
    <3>2. from[1] = low + Q * (digits[j + 1] + P * from[j + 2])
      BY <2>1, <2>5 DEF P
    <3> DEFINE d == digits[j + 1]
               x == from[j + 2]
               total == from[1]
    <3> HIDE DEF d, x, total
    <3>3. /\ d \in 0..P - 1 /\ x \in Nat /\ total = low + Q * (d + P * x)
      BY <3>1, <3>2 DEF d, x, total
    <3>4. total = (low + Q * d) + (Q * P) * x /\ low + Q * d \in 0..Q * P - 1
      BY <2>6, <3>1, <3>3
    <3> QED BY <3>4 DEF d, x, total
  <2> QED BY <2>3, <2>4, <2>7
<1>5. \A j \in 0..n - 1 : j \in T => j + 1 \in T
  BY <1>4
<1> HIDE DEF T
<1>6. \A j \in 0..n : j \in T
  BY <1>2, <1>3, <1>5, CountingUp
<1>7. ASSUME NEW k \in 1..n
      PROVE  (from[1] \div 2^(bits * (k - 1))) % P = digits[k]
  <2> DEFINE Q == 2^(bits * (k - 1))
  <2>1. k - 1 \in 0..n /\ (k - 1) + 1 = k /\ k + 1 \in 1..n + 1 /\ bits * (k - 1) \in Nat
    BY <1>2
  <2>2. PICK low \in 0..Q - 1 : from[1] = low + Q * from[k]
    BY <1>6, <2>1 DEF T
  <2>3. Q \in Nat \ {0} /\ from[k] \in Nat /\ from[k + 1] \in Nat
    <3>1. Q \in Nat \ {0}
      BY <2>1, Powers
    <3> QED BY <1>2, <2>1, <3>1
  <2> HIDE DEF Q, P
  <2>4. from[1] \div Q = from[k]
    <3>1. from[k] \in Int
      BY <2>3
    <3>2. (low + Q * from[k]) \div Q = from[k]
      BY <2>3, <3>1, Quotients
    <3> QED BY <2>2, <3>2
  <2>5. from[k] % P = digits[k]
    <3>1. P \in Nat \ {0} /\ digits[k] \in 0..P - 1 /\ from[k + 1] \in Int
      BY <1>2, <2>3 DEF P
    <3>2. (digits[k] + P * from[k + 1]) % P = digits[k]
      BY <3>1, Quotients
    <3>3. from[k] = digits[k] + P * from[k + 1]
      BY <1>1 DEF P
    <3> QED BY <3>2, <3>3
  <2> QED BY <2>4, <2>5 DEF Q
<1>8. from[1] \in Nat
  BY <1>2
<1> QED BY <1>1, <1>7, <1>8 DEF n

\* The lesser of two numbers.
LEMMA LesserOf ==
    ASSUME NEW a \in Int, NEW b \in Int
    PROVE  Min({a, b}) \in {a, b} /\ Min({a, b}) <= a /\ Min({a, b}) <= b
<1>1. \E x \in {a, b} : \A y \in {a, b} : x <= y
  <2>1. CASE a <= b
    BY <2>1
  <2>2. CASE b <= a
    BY <2>2
  <2> QED BY <2>1, <2>2
<1> QED BY <1>1 DEF Min

\* The greater of two numbers.
LEMMA GreaterOf ==
    ASSUME NEW a \in Int, NEW b \in Int
    PROVE  Max({a, b}) \in {a, b} /\ Max({a, b}) >= a /\ Max({a, b}) >= b
<1>1. \E x \in {a, b} : \A y \in {a, b} : x >= y
  <2>1. CASE a <= b
    BY <2>1
  <2>2. CASE b <= a
    BY <2>2
  <2> QED BY <2>1, <2>2
<1> QED BY <1>1 DEF Max

\* How many words there are: none is left over, and none is missing.
LEMMA Ceilings ==
    ASSUME NEW n \in Nat, NEW m \in Nat \ {0}
    PROVE  /\ CeilDiv(n, m) \in Nat
           /\ \A i \in 0..n - 1 : i \div m + 1 \in 1..CeilDiv(n, m)
           /\ \A w \in 1..CeilDiv(n, m) : (w - 1) * m < n
<1> DEFINE c == CeilDiv(n, m)
           r == (n + m - 1) % m
<1>1. n + m - 1 \in Nat
  OBVIOUS
<1>2. n + m - 1 = m * c + r /\ c \in Nat /\ r \in 0..m - 1
  BY <1>1 DEF CeilDiv
<1> HIDE DEF c, r
<1>3. ASSUME NEW i \in 0..n - 1 PROVE i \div m + 1 \in 1..c
  <2> DEFINE k == i \div m
             d == i % m
  <2>1. i = m * k + d /\ k \in Nat /\ d \in 0..m - 1
    OBVIOUS
  <2> HIDE DEF k, d
  <2>2. k < c
    <3> SUFFICES ASSUME c <= k PROVE FALSE
      BY <1>2, <2>1
    <3>1. m * c <= m * k
      BY <1>2, <2>1
    <3> QED BY <1>2, <2>1, <3>1
  <2> QED BY <1>2, <2>1, <2>2 DEF k
<1>4. ASSUME NEW w \in 1..c PROVE (w - 1) * m < n
  <2>1. m * (w - 1) <= m * (c - 1)
    BY <1>2
  <2>2. m * (c - 1) = m * c - m /\ m * (w - 1) = (w - 1) * m
    BY <1>2
  <2> QED BY <1>2, <2>1, <2>2
<1> QED BY <1>2, <1>3, <1>4 DEF c

\* The words have the indices, and no more words than it takes.
HoldsAll(words, indices, n, bits, width) ==
    /\ Len(words) = CeilDiv(n, width \div bits)
    /\ \A i \in 0..n - 1 : IndexAt(words, i, bits, width) = indices[i]

\* An index is read where it was written.
LEMMA IndexRead ==
    ASSUME NEW n \in Nat, NEW bits \in Nat \ {0}, NEW width \in Nat, bits <= width,
           NEW indices \in [0..n - 1 -> 0..2^bits - 1]
    PROVE  HoldsAll(Words(indices, bits, width), indices, n, bits, width)
<1> DEFINE m == width \div bits
           c == CeilDiv(n, m)
           size(w) == Min({m, n - (w - 1) * m})
           digits(w) == [k \in 1..size(w) |-> indices[(w - 1) * m + k - 1]]
           words == [w \in 1..c |-> Word(digits(w), bits)]
<1>1. m \in Nat \ {0}
  <2>1. width = bits * m + (width % bits) /\ m \in Nat /\ width % bits \in 0..bits - 1
    OBVIOUS
  <2>2. CASE m = 0
    <3>1. bits * m = 0
      BY <2>2
    <3> QED BY <2>1, <3>1
  <2> QED BY <2>1, <2>2
<1>2. Cardinality(DOMAIN indices) = n
  BY FS_Interval
<1>3. Words(indices, bits, width) = words
  BY <1>2 DEF Words
<1> HIDE DEF m
<1>4. /\ c \in Nat /\ \A i \in 0..n - 1 : i \div m + 1 \in 1..c
      /\ \A w \in 1..c : (w - 1) * m < n
  BY <1>1, Ceilings
<1> HIDE DEF c
<1>5. ASSUME NEW w \in 1..c
      PROVE  /\ size(w) \in Nat /\ size(w) <= m /\ size(w) <= n - (w - 1) * m
             /\ size(w) = m \/ size(w) = n - (w - 1) * m
             /\ digits(w) \in Seq(0..2^bits - 1) /\ Len(digits(w)) = size(w)
  <2>1. (w - 1) * m \in Nat /\ n - (w - 1) * m \in Nat
    BY <1>1, <1>4
  <2>2. /\ size(w) \in {m, n - (w - 1) * m} /\ size(w) <= m /\ size(w) <= n - (w - 1) * m
    <3> DEFINE left == n - (w - 1) * m
    <3>1. left \in Int /\ m \in Int
      BY <1>1, <2>1
    <3> HIDE DEF left
    <3>2. Min({m, left}) \in {m, left} /\ Min({m, left}) <= m /\ Min({m, left}) <= left
      BY <3>1, LesserOf
    <3> QED BY <3>2 DEF left
  <2>3. size(w) \in Nat
    BY <1>1, <2>1, <2>2
  <2> HIDE DEF size
  <2>4. ASSUME NEW k \in 1..size(w) PROVE indices[(w - 1) * m + k - 1] \in 0..2^bits - 1
    <3>1. (w - 1) * m + k - 1 \in 0..n - 1
      <4> DEFINE o == (w - 1) * m
                 s == size(w)
      <4>1. o \in Nat /\ n - o \in Nat /\ s \in Nat /\ s <= n - o /\ k \in 1..s
        BY <2>1, <2>2, <2>3, Zenon
      <4> HIDE DEF o, s
      <4>2. o + k - 1 \in 0..n - 1
        BY <4>1, SMTT(60)
      <4> QED BY <4>2 DEF o
    <3> QED BY <3>1
  <2>5. digits(w) \in [1..size(w) -> 0..2^bits - 1]
    BY <2>4
  <2> HIDE DEF digits
  <2>6. digits(w) \in Seq(0..2^bits - 1) /\ Len(digits(w)) = size(w)
    <3> DEFINE s == size(w)
               D == 0..2^bits - 1
    <3>1. s \in Nat /\ digits(w) \in [1..s -> D]
      BY <2>3, <2>5, Zenon
    <3> HIDE DEF s, D
    <3>2. digits(w) \in Seq(D) /\ Len(digits(w)) = s
      BY <3>1, SMTT(60)
    <3> QED BY <3>2, Zenon DEF s, D
  <2> QED BY <2>2, <2>3, <2>6
<1> HIDE DEF size
<1>6. \A w \in 1..c : /\ words[w] \in Nat
                      /\ \A k \in 1..size(w) :
                            (words[w] \div 2^(bits * (k - 1))) % 2^bits = indices[(w - 1) * m + k - 1]
  <2> SUFFICES ASSUME NEW w \in 1..c
               PROVE  /\ words[w] \in Nat
                      /\ \A k \in 1..size(w) :
                            (words[w] \div 2^(bits * (k - 1))) % 2^bits = indices[(w - 1) * m + k - 1]
    OBVIOUS
  <2>1. \A k \in 1..size(w) : digits(w)[k] = indices[(w - 1) * m + k - 1]
    OBVIOUS
  <2>2. words[w] = Word(digits(w), bits)
    OBVIOUS
  <2> HIDE DEF words, digits
  <2>3. /\ Word(digits(w), bits) \in Nat
        /\ \A k \in 1..Len(digits(w)) :
              (Word(digits(w), bits) \div 2^(bits * (k - 1))) % 2^bits = digits(w)[k]
    BY <1>5, WordDigits
  <2> QED BY <1>5, <2>1, <2>2, <2>3
<1>7. words \in Seq(Nat) /\ Len(words) = c
  BY <1>4, <1>6
<1>8. ASSUME NEW i \in 0..n - 1
      PROVE  (words[i \div m + 1] \div 2^(bits * (i % m))) % 2^bits = indices[i]
  <2> DEFINE w == i \div m + 1
             k == (i % m) + 1
  <2>1. i = m * (i \div m) + (i % m) /\ i \div m \in Nat /\ i % m \in 0..m - 1
    BY <1>1
  <2>2. w \in 1..c
    BY <1>4
  <2>3. (w - 1) * m + k - 1 = i /\ k - 1 = i % m /\ (w - 1) * m = m * (i \div m)
    BY <1>1, <2>1
  <2>4. k \in 1..size(w)
    <3> HIDE DEF w, k
    <3>1. k \in Nat \ {0} /\ k <= m
      BY <1>1, <2>1 DEF k
    <3>2. (w - 1) * m \in Int /\ k <= n - (w - 1) * m
      BY <1>1, <2>1, <2>3, <3>1
    <3> QED BY <1>5, <2>2, <3>1, <3>2
  <2> HIDE DEF w, words
  <2>5. (words[w] \div 2^(bits * (k - 1))) % 2^bits = indices[(w - 1) * m + k - 1]
    BY <1>6, <2>2, <2>4
  <2> QED BY <2>3, <2>5 DEF w
<1> QED BY <1>3, <1>7, <1>8 DEF IndexAt, HoldsAll, m, c

(***************************************************************************)
(* Palettes                                                                *)
(***************************************************************************)
\* p has the first m of the values, each of them once.
PaletteUpTo(p, values, m, V) ==
    /\ p \in Seq(V) /\ Len(p) <= m
    /\ \A i \in 0..m - 1 : \E k \in 1..Len(p) : p[k] = values[i]
    /\ \A k \in 1..Len(p) : \E i \in 0..m - 1 : p[k] = values[i]
    /\ \A j, k \in 1..Len(p) : p[j] = p[k] => j = k

LEMMA PaletteMade ==
    ASSUME NEW n \in Nat, NEW V, NEW values \in [0..n - 1 -> V]
    PROVE  PaletteUpTo(PaletteOf(values), values, n, V)
<1> DEFINE With(before, v) == IF Contains(before, v) THEN before ELSE Append(before, v)
           Made(f) == f = [k \in 0..n |-> IF k = 0 THEN <<>> ELSE With(f[k - 1], values[k - 1])]
           palette == CHOOSE f : Made(f)
<1>1. Cardinality(DOMAIN values) = n
  BY FS_Interval
<1>2. PaletteOf(values) = palette[n]
  BY <1>1 DEF PaletteOf
<1>3. \A p \in Seq(V), v \in V : With(p, v) \in Seq(V)
  OBVIOUS
<1>4. \E f : Made(f)
  <2> DEFINE step == [k \in 1..n |-> [p \in Seq(V) |-> With(p, values[k - 1])]]
  <2>1. step \in [1..n -> [Seq(V) -> Seq(V)]]
    <3>1. \A k \in 1..n : values[k - 1] \in V
      OBVIOUS
    <3> HIDE DEF With
    <3> QED BY <1>3, <3>1
  <2>2. <<>> \in Seq(V)
    OBVIOUS
  <2> HIDE DEF step
  <2>3. \E f : Stepwise(f, n, Seq(V), <<>>, step)
    BY <2>1, <2>2, StepByStep
  <2>4. PICK f : Stepwise(f, n, Seq(V), <<>>, step)
    BY <2>3
  <2>5. /\ f \in [0..n -> Seq(V)] /\ f[0] = <<>>
        /\ \A k \in 1..n : f[k] = With(f[k - 1], values[k - 1])
    <3>1. /\ f \in [0..n -> Seq(V)] /\ f[0] = <<>>
          /\ \A k \in 1..n : f[k] = step[k][f[k - 1]]
      BY <2>4 DEF Stepwise
    <3>2. \A k \in 1..n : f[k - 1] \in Seq(V)
      BY <3>1
    <3> HIDE DEF With
    <3> QED BY <3>1, <3>2 DEF step
  <2> HIDE DEF With
  <2>6. f = [k \in 0..n |-> IF k = 0 THEN <<>> ELSE With(f[k - 1], values[k - 1])]
    <3>1. f = [k \in 0..n |-> f[k]]
      BY <2>5
    <3>2. \A k \in 0..n : f[k] = IF k = 0 THEN <<>> ELSE With(f[k - 1], values[k - 1])
      <4>1. \A k \in 0..n : k = 0 \/ k \in 1..n
        OBVIOUS
      <4> QED BY <2>5, <4>1
    <3>3. [k \in 0..n |-> f[k]] = [k \in 0..n |-> IF k = 0 THEN <<>> ELSE With(f[k - 1], values[k - 1])]
      BY <3>2
    <3> QED BY <3>1, <3>3
  <2> QED BY <2>6
<1>5. Made(palette)
  BY <1>4
<1> HIDE DEF palette
<1>6. palette[0] = <<>> /\ \A k \in 1..n : palette[k] = With(palette[k - 1], values[k - 1])
  <2> HIDE DEF With
  <2> QED BY <1>5
<1> DEFINE T == {k \in 0..n : PaletteUpTo(palette[k], values, k, V)}
<1>7. 0 \in T
  BY <1>6 DEF PaletteUpTo
<1>8. ASSUME NEW m \in 0..n - 1, m \in T PROVE m + 1 \in T
  <2> DEFINE p == palette[m]
             v == values[m]
             q == palette[m + 1]
  <2>1. m + 1 \in 1..n /\ (m + 1) - 1 = m /\ v \in V /\ m \in 0..n
    OBVIOUS
  <2>2. q = With(p, v)
    <3> HIDE DEF With
    <3> QED BY <1>6, <2>1
  <2>3. PaletteUpTo(p, values, m, V)
    BY <1>8
  <2>4. \A i \in 0..(m + 1) - 1 : i = m \/ i \in 0..m - 1
    BY <2>1
  <2> HIDE DEF p, v, q, T
  <2>5. ASSUME Contains(p, v) PROVE PaletteUpTo(q, values, m + 1, V)
    <3>1. q = p
      BY <2>2, <2>5
    <3>2. \E k \in 1..Len(p) : p[k] = values[m]
      BY <2>5 DEF Contains, v
    <3>3. \A i \in 0..m - 1 : i \in 0..(m + 1) - 1
      BY <2>1
    <3>4. Len(p) <= m + 1
      BY <2>1, <2>3 DEF PaletteUpTo
    <3> QED BY <2>3, <2>4, <3>1, <3>2, <3>3, <3>4 DEF PaletteUpTo
  <2>6. ASSUME ~Contains(p, v) PROVE PaletteUpTo(q, values, m + 1, V)
    <3>1. q = Append(p, v)
      BY <2>2, <2>6
    <3>2. p \in Seq(V) /\ Len(p) \in Nat /\ Len(p) <= m
      BY <2>3 DEF PaletteUpTo
    <3>3. /\ q \in Seq(V) /\ Len(q) = Len(p) + 1
          /\ \A k \in 1..Len(p) : q[k] = p[k]
          /\ q[Len(p) + 1] = v
      BY <2>1, <3>1, <3>2
    <3>4. \A k \in 1..Len(q) : k = Len(p) + 1 \/ k \in 1..Len(p)
      BY <3>2, <3>3
    <3>5. \A k \in 1..Len(p) : p[k] # v
      BY <2>6 DEF Contains
    <3>6. \A i \in 0..(m + 1) - 1 : \E k \in 1..Len(q) : q[k] = values[i]
      <4> SUFFICES ASSUME NEW i \in 0..(m + 1) - 1 PROVE \E k \in 1..Len(q) : q[k] = values[i]
        OBVIOUS
      <4>1. CASE i = m
        BY <3>2, <3>3, <4>1 DEF v
      <4>2. CASE i \in 0..m - 1
        <5>1. PICK k \in 1..Len(p) : p[k] = values[i]
          BY <2>3, <4>2 DEF PaletteUpTo
        <5> QED BY <3>2, <3>3, <5>1
      <4> QED BY <2>4, <4>1, <4>2
    <3>7. \A k \in 1..Len(q) : \E i \in 0..(m + 1) - 1 : q[k] = values[i]
      <4> SUFFICES ASSUME NEW k \in 1..Len(q) PROVE \E i \in 0..(m + 1) - 1 : q[k] = values[i]
        OBVIOUS
      <4>1. CASE k = Len(p) + 1
        <5>1. m \in 0..(m + 1) - 1
          BY <2>1
        <5> QED BY <3>3, <4>1, <5>1 DEF v
      <4>2. CASE k \in 1..Len(p)
        <5>1. PICK i \in 0..m - 1 : p[k] = values[i]
          BY <2>3, <4>2 DEF PaletteUpTo
        <5> QED BY <2>1, <3>3, <4>2, <5>1
      <4> QED BY <3>4, <4>1, <4>2
    <3>8. ASSUME NEW j \in 1..Len(q), NEW k \in 1..Len(q), q[j] = q[k] PROVE j = k
      <4>1. \A a, b \in 1..Len(p) : p[a] = p[b] => a = b
        BY <2>3 DEF PaletteUpTo
      <4>2. (j = Len(p) + 1 \/ j \in 1..Len(p)) /\ (k = Len(p) + 1 \/ k \in 1..Len(p))
        BY <3>4
      <4> QED BY <3>3, <3>5, <3>8, <4>1, <4>2
    <3>9. Len(q) <= m + 1
      BY <2>1, <3>2, <3>3
    <3> QED BY <3>3, <3>6, <3>7, <3>8, <3>9 DEF PaletteUpTo
  <2>7. PaletteUpTo(q, values, m + 1, V)
    BY <2>5, <2>6
  <2> QED BY <2>1, <2>7 DEF T, q
<1>9. \A k \in 0..n - 1 : k \in T => k + 1 \in T
  BY <1>8
<1> HIDE DEF T
<1>10. \A k \in 0..n : k \in T
  BY <1>7, <1>9, CountingUp
<1>11. n \in T
  BY <1>10
<1> QED BY <1>2, <1>11 DEF T

\* A value is at its index in the palette.
Pointing(p, at, values, n, V) ==
    /\ Len(p) \in 1..n /\ p \in Seq(V) /\ at \in [0..n - 1 -> 0..Len(p) - 1]
    /\ \A i \in 0..n - 1 : p[at[i] + 1] = values[i]

LEMMA IndicesPoint ==
    ASSUME NEW n \in Nat \ {0}, NEW V, NEW values \in [0..n - 1 -> V]
    PROVE  Pointing(PaletteOf(values), Indices(values, PaletteOf(values)), values, n, V)
<1> DEFINE p == PaletteOf(values)
           Spot(v) == CHOOSE k \in DOMAIN p : p[k] = v
<1>1. PaletteUpTo(p, values, n, V)
  BY PaletteMade
<1> HIDE DEF p
<1>2. p \in Seq(V) /\ Len(p) \in Nat /\ DOMAIN p = 1..Len(p)
  BY <1>1 DEF PaletteUpTo
<1>3. 0 \in 0..n - 1
  OBVIOUS
<1>4. Len(p) \in 1..n
  <2>1. \E k \in 1..Len(p) : p[k] = values[0]
    BY <1>1, <1>3 DEF PaletteUpTo
  <2> QED BY <1>1, <1>2, <2>1 DEF PaletteUpTo
<1>5. ASSUME NEW i \in 0..n - 1
      PROVE  /\ Indices(values, p)[i] = Spot(values[i]) - 1
             /\ Spot(values[i]) \in 1..Len(p) /\ p[Spot(values[i])] = values[i]
  <2>1. PICK k \in 1..Len(p) : p[k] = values[i]
    BY <1>1 DEF PaletteUpTo
  <2>2. Spot(values[i]) \in 1..Len(p) /\ p[Spot(values[i])] = values[i]
    BY <1>2, <2>1
  <2>3. values[i] \in ToSet(p)
    BY <1>2, <2>1 DEF ToSet
  <2>4. DOMAIN values = 0..n - 1
    OBVIOUS
  <2> HIDE DEF Place
  <2>5. Indices(values, p)[i] = Spot(values[i]) - 1
    BY <2>3, <2>4 DEF Indices, Place
  <2> QED BY <2>2, <2>5
<1> HIDE DEF Place
<1>6. \A i \in 0..n - 1 : Indices(values, p)[i] \in 0..Len(p) - 1 /\ p[Indices(values, p)[i] + 1] = values[i]
  <2> SUFFICES ASSUME NEW i \in 0..n - 1
               PROVE  Indices(values, p)[i] \in 0..Len(p) - 1 /\ p[Indices(values, p)[i] + 1] = values[i]
    OBVIOUS
  <2>1. Spot(values[i]) \in Int /\ (Spot(values[i]) - 1) + 1 = Spot(values[i])
    BY <1>5
  <2> QED BY <1>2, <1>5, <2>1
<1>7. Indices(values, p) = [i \in 0..n - 1 |-> Indices(values, p)[i]]
  BY DEF Indices
<1>8. Indices(values, p) \in [0..n - 1 -> 0..Len(p) - 1]
  BY <1>6, <1>7
<1> QED BY <1>2, <1>4, <1>6, <1>8 DEF p, Pointing

(***************************************************************************)
(* Widths                                                                  *)
(***************************************************************************)
\* A set of numbers has a least one.
LEMMA LeastOf ==
    ASSUME NEW S \in SUBSET Nat, NEW x \in S
    PROVE  Min(S) \in S /\ \A y \in S : Min(S) <= y
<1> SUFFICES ASSUME ~(\E m \in S : \A y \in S : m <= y) PROVE FALSE
  BY DEF Min
<1> DEFINE T == {k \in Nat : \A y \in S : k <= y}
<1>1. 0 \in T
  OBVIOUS
<1>2. ASSUME NEW k \in 0..(x + 1) - 1, k \in T PROVE k + 1 \in T
  <2>1. k \notin S
    BY <1>2
  <2> QED BY <1>2, <2>1
<1>3. \A k \in 0..(x + 1) - 1 : k \in T => k + 1 \in T
  BY <1>2
<1> HIDE DEF T
<1>4. \A k \in 0..x + 1 : k \in T
  BY <1>1, <1>3, CountingUp
<1>5. x + 1 \in T
  BY <1>4
<1> QED BY <1>5 DEF T

\* The bits that n values need.
LEMMA BitsSuffice ==
    ASSUME NEW n \in Nat, n <= 2^16
    PROVE  /\ BitsFor(n) \in 0..16 /\ n <= 2^BitsFor(n)
           /\ \A b \in 0..16 : n <= 2^b => BitsFor(n) <= b
           /\ n > 1 => BitsFor(n) > 0
<1> DEFINE S == {b \in 0..16 : n <= 2^b}
<1>1. S \in SUBSET Nat /\ 16 \in S
  OBVIOUS
<1>2. Min(S) \in S /\ \A b \in S : Min(S) <= b
  <2> HIDE DEF S
  <2> QED BY <1>1, LeastOf
<1>3. BitsFor(n) = Min(S)
  BY DEF BitsFor
<1>4. Min(S) \in 0..16 /\ n <= 2^Min(S)
  BY <1>2
<1>5. \A b \in 0..16 : n <= 2^b => Min(S) <= b
  BY <1>2
<1>6. n > 1 => Min(S) > 0
  <2> HIDE DEF S
  <2>1. 2^0 = 1
    BY Powers
  <2>2. CASE Min(S) = 0
    BY <1>4, <2>1, <2>2
  <2> QED BY <1>4, <2>2
<1> HIDE DEF S
<1> QED BY <1>3, <1>4, <1>5, <1>6

\* What the assumption says of the numbers.
LEMMA Sizes ==
    /\ Side \in Nat \ {0} /\ CellSide \in Nat \ {0} /\ LongBits \in Nat /\ LongBits >= 16
    /\ WordBits \in Nat \ {0} /\ PaletteBits \in 1..16 /\ BiomeBits \in 1..PaletteBits
    /\ MaxSections \in Nat \ {0} /\ 2^16 \in Nat
    /\ Side * Side * Side \in Nat \ {0} /\ Side * Side * Side <= 2^16
    /\ Side * Side * Side <= 2^StorageBits[Len(StorageBits)]
    /\ Len(StorageBits) \in Nat \ {0} /\ DOMAIN StorageBits = 1..Len(StorageBits)
    /\ \A k \in 1..Len(StorageBits) : StorageBits[k] \in 1..WordBits
<1>1. /\ Side \in Nat \ {0} /\ CellSide \in Nat \ {0} /\ LongBits \in Nat /\ WordBits \in Nat \ {0}
      /\ PaletteBits \in Nat \ {0} /\ BiomeBits \in Nat \ {0} /\ MaxSections \in Nat \ {0}
  BY ChunksAssumption
<1>2. /\ LongBits >= 16 /\ PaletteBits <= 16 /\ BiomeBits <= PaletteBits
      /\ StorageBits \in Seq(1..WordBits) /\ StorageBits # <<>>
      /\ Side * Side * Side <= 2^StorageBits[Len(StorageBits)] /\ Side * Side * Side <= 2^16
  BY ChunksAssumption
<1>3. \A a, b \in Nat \ {0} : a * b \in Nat \ {0}
  OBVIOUS
<1>4. Side * Side * Side \in Nat \ {0}
  BY <1>1, <1>3
<1>5. 2^16 \in Nat
  BY Powers
<1>6. Len(StorageBits) \in Nat \ {0} /\ DOMAIN StorageBits = 1..Len(StorageBits)
  BY <1>2
<1>7. \A k \in 1..Len(StorageBits) : StorageBits[k] \in 1..WordBits
  <2>1. \A S, s : s \in Seq(S) => \A k \in 1..Len(s) : s[k] \in S
    OBVIOUS
  <2> QED BY <1>2, <2>1, Zenon
<1> QED BY <1>1, <1>2, <1>4, <1>5, <1>6, <1>7

LEMMA WidthSuffices ==
    ASSUME NEW n \in Nat, n <= Side * Side * Side
    PROVE  /\ n <= 1 => StorageWidth(n) = 0
           /\ n > 1 => StorageWidth(n) \in 1..WordBits /\ n <= 2^StorageWidth(n)
<1> DEFINE wide == {k \in DOMAIN StorageBits : n <= 2^StorageBits[k]}
           last == Len(StorageBits)
<1>1. /\ last \in Nat \ {0} /\ DOMAIN StorageBits = 1..last
      /\ \A k \in 1..last : StorageBits[k] \in 1..WordBits
      /\ WordBits \in Nat
  BY Sizes
<1>2. Side * Side * Side \in Nat /\ Side * Side * Side <= 2^StorageBits[last]
  BY Sizes
<1>3. StorageBits[last] \in Nat /\ 2^StorageBits[last] \in Nat
  <2>1. StorageBits[last] \in Nat
    BY <1>1
  <2> HIDE DEF last
  <2> QED BY <2>1, Powers
<1>4. last \in wide
  <2>1. n <= 2^StorageBits[last]
    BY <1>2, <1>3
  <2> QED BY <1>1, <2>1
<1>5. wide \in SUBSET Nat
  BY <1>1
<1>6. Min(wide) \in wide
  <2> HIDE DEF wide, last
  <2> QED BY <1>4, <1>5, LeastOf
<1>7. n > 1 => StorageWidth(n) = StorageBits[Min(wide)]
  <2>1. wide # {}
    BY <1>4
  <2> QED BY <2>1 DEF StorageWidth
<1>8. n <= 1 => StorageWidth(n) = 0
  BY DEF StorageWidth
<1>9. Min(wide) \in 1..last /\ n <= 2^StorageBits[Min(wide)]
  BY <1>1, <1>6
<1> HIDE DEF wide, last
<1> QED BY <1>1, <1>7, <1>8, <1>9

(***************************************************************************)
(* What is written is read                                                 *)
(***************************************************************************)
\* The client reads at an index the value the bridge wrote for it.
LEMMA StorageReads ==
    ASSUME NEW n \in Nat \ {0}, n <= Side * Side * Side, NEW V, NEW values \in [0..n - 1 -> V]
    PROVE  /\ \A i \in 0..n - 1 : ReadStorage(WriteStorage(values), i) = values[i]
           /\ WriteStorage(values) # Carry
<1> DEFINE p == PaletteOf(values)
           bits == StorageWidth(Len(p))
           at == Indices(values, p)
           words == Words(at, bits, WordBits)
<1>0. Pointing(p, at, values, n, V)
  BY IndicesPoint
<1>2. WriteStorage(values) =
         [bits |-> bits, counted |-> bits # 0, palette |-> p, words |-> IF bits = 0 THEN <<>> ELSE words]
  BY DEF WriteStorage
<1> HIDE DEF p, at
<1>1. /\ Len(p) \in 1..n /\ p \in Seq(V) /\ at \in [0..n - 1 -> 0..Len(p) - 1]
      /\ \A i \in 0..n - 1 : p[at[i] + 1] = values[i]
  BY <1>0 DEF Pointing
<1>3. /\ Len(p) <= 1 => bits = 0
      /\ Len(p) > 1 => bits \in 1..WordBits /\ Len(p) <= 2^bits
  <2>1. Len(p) \in Nat /\ Len(p) <= Side * Side * Side
    BY <1>1, Sizes
  <2> QED BY <2>1, WidthSuffices
<1> HIDE DEF bits
<1>4. ASSUME NEW i \in 0..n - 1 PROVE ReadStorage(WriteStorage(values), i) = values[i]
  <2>1. CASE Len(p) = 1
    <3>1. at[i] = 0
      BY <1>1, <2>1
    <3>2. p[1] = values[i]
      BY <1>1, <3>1
    <3> QED BY <1>2, <1>3, <2>1, <3>2 DEF ReadStorage
  <2>2. CASE Len(p) > 1
    <3>1. bits \in Nat \ {0} /\ bits <= WordBits /\ WordBits \in Nat
      BY <1>3, <2>2, Sizes
    <3>2. 2^bits \in Nat
      BY <3>1, Powers
    <3>3. at \in [0..n - 1 -> 0..2^bits - 1]
      BY <1>1, <1>3, <2>2, <3>2, SMTT(60)
    <3>4. IndexAt(words, i, bits, WordBits) = at[i]
      <4>1. HoldsAll(words, at, n, bits, WordBits)
        BY <3>1, <3>3, IndexRead
      <4> HIDE DEF words
      <4> QED BY <4>1 DEF HoldsAll
    <3> HIDE DEF words
    <3>5. ReadStorage(WriteStorage(values), i) = p[IndexAt(words, i, bits, WordBits) + 1]
      BY <1>2, <3>1 DEF ReadStorage
    <3> QED BY <1>1, <3>4, <3>5
  <2> QED BY <1>1, <2>1, <2>2
<1>5. p # <<>>
  BY <1>1
<1> QED BY <1>2, <1>4, <1>5 DEF Carry

\* Values too many for a palette have indices too wide for one.
Readable(values, n, widest) ==
    widest = PaletteBits \/ Cardinality({values[i] : i \in 0..n - 1}) <= 2^widest

\* The bridge decodes a container to the values the server has, if those that are many
\* have indices too wide for a palette.
LEMMA ContainerDecoded ==
    ASSUME NEW n \in Nat \ {0}, n <= Side * Side * Side,
           NEW registry \in 1..2^16, NEW values \in [0..n - 1 -> 0..registry - 1],
           NEW narrowest \in Nat, NEW widest \in Nat \ {0}, narrowest <= widest, widest <= PaletteBits,
           Readable(values, n, widest)
    PROVE  /\ DecodePaletted(JavaContainer(values, narrowest, widest, registry), n) = values
           /\ values # Failed
<1> DEFINE p == PaletteOf(values)
           at == Indices(values, p)
           c == JavaContainer(values, narrowest, widest, registry)
           V == {values[i] : i \in 0..n - 1}
<1>0. Pointing(p, at, values, n, 0..registry - 1)
  BY IndicesPoint
<1>1. /\ Len(p) \in 1..n /\ p \in Seq(0..registry - 1) /\ at \in [0..n - 1 -> 0..Len(p) - 1]
      /\ \A i \in 0..n - 1 : p[at[i] + 1] = values[i]
  <2> HIDE DEF p, at
  <2> QED BY <1>0 DEF Pointing
<1>2. /\ PaletteBits \in 1..16 /\ LongBits \in Nat /\ LongBits >= 16
      /\ Side * Side * Side \in Nat /\ Side * Side * Side <= 2^16 /\ 2^16 \in Nat
  BY Sizes
<1>3. IsFiniteSet(V) /\ Len(p) <= Cardinality(V)
  <2>1. IsFiniteSet(0..n - 1) /\ IsFiniteSet(1..Len(p)) /\ Cardinality(1..Len(p)) = Len(p)
    <3>1. Len(p) \in Nat \ {0}
      BY <1>1
    <3> HIDE DEF p
    <3>2. \A a, b \in Int : /\ IsFiniteSet(a..b)
                            /\ Cardinality(a..b) = IF a > b THEN 0 ELSE b - a + 1
      BY FS_Interval
    <3>3. \A b \in Nat \ {0} : Cardinality(1..b) = b
      BY <3>2
    <3>4. Cardinality(1..Len(p)) = Len(p)
      BY <3>1, <3>3
    <3>5. 0 \in Int /\ 1 \in Int /\ n - 1 \in Int /\ Len(p) \in Int
      BY <3>1
    <3> QED BY <3>2, <3>4, <3>5, Zenon
  <2>2. values \in Surjection(0..n - 1, V)
    BY DEF Surjection
  <2>3. IsFiniteSet(V)
    BY <2>1, <2>2, FS_Surjection
  <2>4. PaletteUpTo(p, values, n, 0..registry - 1)
    BY PaletteMade
  <2> HIDE DEF p
  <2>5. p \in Injection(1..Len(p), V)
    <3>1. \A k \in 1..Len(p) : p[k] \in V
      BY <2>4 DEF PaletteUpTo
    <3>2. p \in [1..Len(p) -> V]
      <4>1. p = [k \in 1..Len(p) |-> p[k]]
        BY <1>1
      <4> QED BY <3>1, <4>1
    <3>3. \A j, k \in 1..Len(p) : p[j] = p[k] => j = k
      BY <2>4 DEF PaletteUpTo
    <3> HIDE DEF V
    <3> QED BY <3>2, <3>3 DEF Injection, IsInjective
  <2> HIDE DEF V
  <2>6. Cardinality(1..Len(p)) <= Cardinality(V)
    BY <2>3, <2>5, FS_Injection
  <2> QED BY <2>1, <2>3, <2>6
<1>4. Len(p) <= registry
  <2>1. IsFiniteSet(0..registry - 1) /\ Cardinality(0..registry - 1) = registry
    BY <1>2, FS_Interval
  <2>2. V \in SUBSET (0..registry - 1)
    OBVIOUS
  <2> HIDE DEF V, p
  <2>3. Cardinality(V) <= registry
    BY <2>1, <2>2, FS_Subset
  <2>4. Cardinality(V) \in Nat
    BY <1>3, FS_CardinalityType
  <2> QED BY <1>1, <1>2, <1>3, <2>3, <2>4
<1>5. values # Failed
  <2>1. 0 \in DOMAIN values
    OBVIOUS
  <2> QED BY <2>1 DEF Failed
<1>6. c = CASE Len(p) = 1 -> [bits |-> 0, palette |-> p, words |-> <<>>]
            [] Len(p) > 1 /\ BitsFor(Len(p)) <= widest ->
                  [bits |-> Max({BitsFor(Len(p)), narrowest}), palette |-> p,
                   words |-> Words(at, Max({BitsFor(Len(p)), narrowest}), LongBits)]
            [] OTHER ->
                  [bits |-> BitsFor(registry), palette |-> <<>>,
                   words |-> Words(values, BitsFor(registry), LongBits)]
  BY DEF JavaContainer
<1> HIDE DEF p, at, c, V
<1>7. /\ Along(n) = 0..n - 1 /\ Len(p) <= 2^16 /\ Len(p) \in Nat /\ Len(p) \in Int
  <2>1. n \in Nat /\ n <= 2^16 /\ 2^16 \in Nat
    BY <1>2
  <2> DEFINE P == 2^16
  <2> HIDE DEF P, p
  <2>2. Len(p) \in 1..n /\ n \in Nat /\ n <= P /\ P \in Nat
    BY <1>1, <2>1 DEF P
  <2>3. Len(p) <= P /\ Len(p) \in Nat /\ Len(p) \in Int
    BY <2>2
  <2>4. Along(n) = 0..n - 1
    BY DEF Along
  <2> QED BY <2>3, <2>4 DEF P
<1>71. BitsFor(Len(p)) \in Int /\ BitsFor(Len(p)) \in 0..16
  <2>1. BitsFor(Len(p)) \in 0..16
    BY <1>7, BitsSuffice
  <2>2. \A b \in 0..16 : b \in Int
    OBVIOUS
  <2> QED BY <2>1, <2>2, Zenon
<1>72. widest \in Int /\ narrowest \in Int /\ PaletteBits \in Int /\ widest <= PaletteBits
  BY <1>2
<1>8. CASE Len(p) = 1
  <2>1. c = [bits |-> 0, palette |-> p, words |-> <<>>]
    BY <1>6, <1>8
  <2>2. \A i \in 0..n - 1 : values[i] = p[1]
    BY <1>1, <1>8
  <2>3. values = [i \in Along(n) |-> p[1]]
    BY <1>7, <2>2
  <2>4. DecodePaletted(c, n) = [i \in Along(n) |-> p[1]]
    BY <2>1 DEF DecodePaletted
  <2> QED BY <1>5, <2>3, <2>4 DEF c
<1>9. CASE Len(p) > 1 /\ BitsFor(Len(p)) <= widest
  <2> DEFINE bits == Max({BitsFor(Len(p)), narrowest})
             index == [i \in Along(n) |-> IndexAt(c.words, i, bits, LongBits)]
  <2>1. /\ BitsFor(Len(p)) \in 1..16 /\ Len(p) <= 2^BitsFor(Len(p))
    BY <1>7, <1>9, BitsSuffice
  <2>2. c = [bits |-> bits, palette |-> p, words |-> Words(at, bits, LongBits)]
    BY <1>6, <1>9
  <2>3. bits \in {BitsFor(Len(p)), narrowest} /\ bits >= BitsFor(Len(p))
    <3>1. \A a, b \in Int : Max({a, b}) \in {a, b} /\ Max({a, b}) >= a
      BY GreaterOf
    <3> DEFINE b == BitsFor(Len(p))
    <3>2. b \in Int /\ narrowest \in Int
      BY <1>71, <1>72
    <3> HIDE DEF b
    <3>3. Max({b, narrowest}) \in {b, narrowest} /\ Max({b, narrowest}) >= b
      BY <3>1, <3>2
    <3> QED BY <3>3 DEF b
  <2> HIDE DEF bits
  <2>4. bits \in 1..PaletteBits
    <3> DEFINE b == BitsFor(Len(p))
    <3>1. b \in 1..16 /\ b <= widest /\ bits \in {b, narrowest} /\ bits >= b
      BY <1>9, <2>1, <2>3
    <3> HIDE DEF b
    <3> QED BY <1>2, <3>1
  <2>5. Len(p) <= 2^bits /\ 2^bits \in Nat
    <3>1. bits \in Nat /\ BitsFor(Len(p)) \in Nat
      <4>1. /\ \A top \in Int : \A b \in 1..top : b \in Nat
            /\ 16 \in Int
        OBVIOUS
      <4>2. bits \in Nat
        BY <1>72, <2>4, <4>1, Zenon
      <4>3. BitsFor(Len(p)) \in Nat
        BY <2>1, <4>1, Zenon
      <4> QED BY <4>2, <4>3
    <3>2. 2^BitsFor(Len(p)) <= 2^bits /\ 2^BitsFor(Len(p)) \in Nat /\ 2^bits \in Nat
      BY <2>3, <3>1, Powers
    <3> QED BY <1>7, <2>1, <3>2
  <2>6. at \in [0..n - 1 -> 0..2^bits - 1] /\ bits \in Nat \ {0} /\ bits <= LongBits
    <3>1. at \in [0..n - 1 -> 0..2^bits - 1]
      <4> DEFINE P == 2^bits
      <4>1. P \in Nat /\ Len(p) <= P /\ Len(p) \in Nat
        BY <1>7, <2>5
      <4> HIDE DEF P
      <4>2. 0..Len(p) - 1 \subseteq 0..P - 1
        BY <4>1
      <4>3. at \in [0..n - 1 -> 0..P - 1]
        BY <1>1, <4>2
      <4> QED BY <4>3 DEF P
    <3> QED BY <1>2, <2>4, <3>1
  <2>7. HoldsAll(c.words, at, n, bits, LongBits)
    <3>1. HoldsAll(Words(at, bits, LongBits), at, n, bits, LongBits)
      BY <1>2, <2>6, IndexRead
    <3>2. c.words = Words(at, bits, LongBits)
      BY <2>2
    <3> QED BY <3>1, <3>2
  <2>8. index = at
    BY <1>1, <1>7, <2>7 DEF HoldsAll
  <2>9. c.bits = bits /\ c.palette = p /\ p # <<>>
    BY <1>1, <2>2
  <2>10. DecodePaletted(c, n) = [i \in Along(n) |-> p[at[i] + 1]]
    <3>1. ~ \E i \in Along(n) : at[i] >= Len(p)
      <4>1. \A l \in Int : \A b \in 0..l - 1 : ~(b >= l)
        OBVIOUS
      <4>2. \A i \in Along(n) : at[i] \in 0..Len(p) - 1
        BY <1>1, <1>7, Zenon
      <4> QED BY <1>7, <4>1, <4>2, Zenon
    <3>2. ~(bits = 0) /\ ~(bits > 32) /\ ~(bits > PaletteBits) /\ bits <= PaletteBits
      BY <1>2, <2>4
    <3> QED BY <2>7, <2>8, <2>9, <3>1, <3>2 DEF DecodePaletted, HoldsAll
  <2>11. values = [i \in Along(n) |-> p[at[i] + 1]]
    BY <1>1, <1>7
  <2> QED BY <1>5, <2>10, <2>11 DEF c
<1>10. CASE Len(p) > 1 /\ BitsFor(Len(p)) > widest
  <2> DEFINE bits == BitsFor(registry)
             index == [i \in Along(n) |-> IndexAt(c.words, i, bits, LongBits)]
  <2>1. /\ bits \in 0..16 /\ registry <= 2^bits
    <3>1. \A most \in Nat : \A r \in 1..most : r \in Nat /\ r <= most
      OBVIOUS
    <3>2. registry \in Nat /\ registry <= 2^16
      BY <1>2, <3>1, Zenon
    <3> QED BY <3>2, BitsSuffice, Zenon
  <2>2. c = [bits |-> bits, palette |-> <<>>, words |-> Words(values, bits, LongBits)]
    <3>1. ~(Len(p) = 1) /\ ~(BitsFor(Len(p)) <= widest)
      <4>1. ~(Len(p) = 1)
        <5>1. \A l \in Int : l > 1 => ~(l = 1)
          OBVIOUS
        <5>2. Len(p) \in Int /\ Len(p) > 1
          BY <1>7, <1>10, Zenon
        <5> QED BY <5>1, <5>2, Zenon
      <4>2. ~(BitsFor(Len(p)) <= widest)
        BY <1>10, <1>71, <1>72
      <4> QED BY <4>1, <4>2
    <3> QED BY <1>6, <3>1
  <2>3. bits > PaletteBits
    <3>1. widest \in 0..16
      BY <1>2
    <3>2. ~(Len(p) <= 2^widest) /\ BitsFor(Len(p)) \in 0..16
      <4>1. \A b \in 0..16 : Len(p) <= 2^b => BitsFor(Len(p)) <= b
        BY <1>7, BitsSuffice
      <4>2. Len(p) <= 2^widest => BitsFor(Len(p)) <= widest
        BY <3>1, <4>1
      <4>3. ~(BitsFor(Len(p)) <= widest)
        BY <1>10, <1>71, <1>72
      <4> QED BY <1>71, <4>2, <4>3
    <3>3. 2^widest \in Nat /\ Cardinality(V) \in Nat
      BY <1>3, Powers, FS_CardinalityType
    <3>4. widest = PaletteBits
      <4>1. widest = PaletteBits \/ Cardinality(V) <= 2^widest
        BY DEF V, Readable
      <4> QED BY <1>3, <1>7, <3>2, <3>3, <4>1
    <3>5. 2^bits \in Nat /\ Len(p) <= 2^bits
      <4>1. 2^bits \in Nat
        <5> HIDE DEF bits
        <5>1. bits \in Nat
          BY <2>1
        <5> QED BY <5>1, Powers
      <4> QED BY <1>2, <1>4, <1>7, <2>1, <4>1
    <3>6. BitsFor(Len(p)) <= bits
      <4>1. \A b \in 0..16 : Len(p) <= 2^b => BitsFor(Len(p)) <= b
        BY <1>7, BitsSuffice
      <4> QED BY <2>1, <3>5, <4>1
    <3>7. bits \in Int
      BY <2>1
    <3> HIDE DEF bits
    <3> QED BY <1>10, <1>71, <1>72, <3>4, <3>6, <3>7
  <2> HIDE DEF bits
  <2>4. bits \in Nat \ {0} /\ bits <= 16 /\ bits <= LongBits
    BY <1>2, <2>1, <2>3
  <2>5. 2^bits \in Nat
    BY <2>4, Powers
  <2>6. values \in [0..n - 1 -> 0..2^bits - 1]
    BY <1>2, <2>1, <2>5
  <2>7. HoldsAll(c.words, values, n, bits, LongBits)
    <3>1. HoldsAll(Words(values, bits, LongBits), values, n, bits, LongBits)
      BY <1>2, <2>4, <2>6, IndexRead
    <3>2. c.words = Words(values, bits, LongBits)
      BY <2>2
    <3> QED BY <3>1, <3>2
  <2>8. index = values
    BY <1>7, <2>7 DEF HoldsAll
  <2>9. c.bits = bits
    BY <2>2
  <2>10. DecodePaletted(c, n) = index
    <3>1. ~(bits = 0) /\ ~(bits > 32) /\ ~(bits <= PaletteBits) /\ bits > PaletteBits
      BY <1>2, <2>3, <2>4
    <3> QED BY <2>7, <2>9, <3>1 DEF DecodePaletted, HoldsAll
  <2> QED BY <1>5, <2>8, <2>10 DEF c
<1> QED
  <2>1. Len(p) = 1 \/ Len(p) > 1
    <3>1. \A m \in Nat : \A l \in 1..m : l = 1 \/ l > 1
      OBVIOUS
    <3>2. n \in Nat /\ Len(p) \in 1..n
      BY <1>1
    <3> HIDE DEF p
    <3> QED BY <3>1, <3>2
  <2>2. BitsFor(Len(p)) <= widest \/ BitsFor(Len(p)) > widest
    BY <1>71, <1>72
  <2> QED BY <1>8, <1>9, <1>10, <2>1, <2>2

(***************************************************************************)
(* Places                                                                  *)
(***************************************************************************)
\* The axes of a place in Bedrock's order.
LEMMA Axes ==
    ASSUME NEW x \in Along(Side), NEW y \in Along(Side), NEW z \in Along(Side)
    PROVE  /\ XZY(x, y, z) \in Along(Volume(Side))
           /\ XZY(x, y, z) \div (Side * Side) = x
           /\ (XZY(x, y, z) \div Side) % Side = z
           /\ XZY(x, y, z) % Side = y
<1> DEFINE n == Side
           i == XZY(x, y, z)
<1>1. n \in Nat \ {0}
  BY Sizes
<1>2. x \in 0..n - 1 /\ y \in 0..n - 1 /\ z \in 0..n - 1
  BY DEF Along
<1>3. i = (x * n + z) * n + y /\ Volume(Side) = n * n * n
  BY DEF XZY, Volume
<1> HIDE DEF n, i
<1>4. ASSUME NEW a \in Nat \ {0}, NEW q \in 0..a - 1, NEW b \in Nat, NEW d \in 0..b - 1
      PROVE  q * b + d \in 0..a * b - 1
  <2>1. (q + 1) * b <= a * b
    <3>1. \A k \in Nat : (q + 1) * b <= ((q + 1) + k) * b
      <4> SUFFICES ASSUME NEW k \in Nat PROVE (q + 1) * b <= ((q + 1) + k) * b
        OBVIOUS
      <4>1. ((q + 1) + k) * b = (q + 1) * b + k * b /\ k * b \in Nat
        OBVIOUS
      <4> QED BY <4>1
    <3>2. a - (q + 1) \in Nat /\ (q + 1) + (a - (q + 1)) = a
      OBVIOUS
    <3> QED BY <3>1, <3>2
  <2>2. (q + 1) * b = q * b + b /\ q * b \in Nat /\ a * b \in Nat
    OBVIOUS
  <2> QED BY <2>1, <2>2
<1>5. x * n + z \in 0..n * n - 1 /\ z * n + y \in 0..n * n - 1 /\ n * n \in Nat \ {0}
  <2>1. n * n \in Nat \ {0}
    BY <1>1
  <2> QED BY <1>1, <1>2, <1>4, <2>1
<1>6. i \in 0..n * n * n - 1
  <2>1. (x * n + z) * n + y \in 0..(n * n) * n - 1
    BY <1>1, <1>2, <1>4, <1>5
  <2> QED BY <1>3, <2>1
<1>7. i = y + n * (x * n + z) /\ i = (z * n + y) + (n * n) * x /\ x * n + z = z + n * x
  BY <1>1, <1>2, <1>3
<1>8. i \div n = x * n + z /\ i % n = y
  <2>1. x * n + z \in Int
    BY <1>1, <1>2
  <2> DEFINE q == x * n + z
  <2> HIDE DEF q
  <2>2. (y + n * q) \div n = q /\ (y + n * q) % n = y
    BY <1>1, <1>2, <2>1, Quotients DEF q
  <2> QED BY <1>7, <2>2 DEF q
<1>9. (x * n + z) % n = z
  <2>1. x \in Int
    BY <1>1, <1>2
  <2>2. (z + n * x) % n = z
    BY <1>1, <1>2, <2>1, Quotients
  <2> QED BY <1>7, <2>2
<1>10. i \div (n * n) = x
  <2> DEFINE b == n * n
             d == z * n + y
  <2>1. b \in Nat \ {0} /\ d \in 0..b - 1 /\ x \in Int
    BY <1>1, <1>2, <1>5
  <2> HIDE DEF b, d
  <2>2. (d + b * x) \div b = x
    BY <2>1, Quotients
  <2> QED BY <1>7, <2>2 DEF b, d
<1> QED BY <1>3, <1>6, <1>8, <1>9, <1>10 DEF n, i, Along

\* The blocks of a section, at their place in Bedrock's order.
LEMMA BlocksKept ==
    ASSUME NEW blocks, NEW x \in Along(Side), NEW y \in Along(Side), NEW z \in Along(Side)
    PROVE  ProjectBlocks(blocks)[XZY(x, y, z)] = RuntimeID(blocks[YZX(Side, x, y, z)])
<1> DEFINE i == XZY(x, y, z)
<1>1. /\ i \in Along(Volume(Side)) /\ i \div (Side * Side) = x
      /\ (i \div Side) % Side = z /\ i % Side = y
  BY Axes
<1> HIDE DEF i
<1>2. ProjectBlocks(blocks)[i] = RuntimeID(blocks[YZX(Side, x, y, z)])
  BY <1>1 DEF ProjectBlocks
<1> QED BY <1>2 DEF i

\* The biomes of a section, over the cubes of their cells.
LEMMA BiomesKept ==
    ASSUME NEW biomes, NEW x \in Along(Side), NEW y \in Along(Side), NEW z \in Along(Side)
    PROVE  ExpandBiomes(biomes)[XZY(x, y, z)] =
              BiomeRuntime(biomes[YZX(BiomeCells, x \div CellSide, y \div CellSide, z \div CellSide)])
<1> DEFINE i == XZY(x, y, z)
<1>1. /\ i \in Along(Volume(Side)) /\ i \div (Side * Side) = x
      /\ (i \div Side) % Side = z /\ i % Side = y
  BY Axes
<1> HIDE DEF i
<1>2. ExpandBiomes(biomes)[i] =
         BiomeRuntime(biomes[YZX(BiomeCells, x \div CellSide, y \div CellSide, z \div CellSide)])
  BY <1>1 DEF ExpandBiomes
<1> QED BY <1>2 DEF i

\* A height is in one section of its dimension.
LEMMA Heightwise ==
    ASSUME NEW min \in Int, NEW count \in Nat, NEW y \in min * Side..(min + count) * Side - 1
    PROVE  y \div Side - min + 1 \in 1..count /\ y % Side \in Along(Side)
<1> DEFINE q == y \div Side
           r == y % Side
<1>1. Side \in Nat \ {0}
  BY Sizes
<1>2. y = Side * q + r /\ q \in Int /\ r \in 0..Side - 1
  BY <1>1
<1> HIDE DEF q, r
<1>3. min * Side \in Int /\ (min + count) * Side \in Int
  BY <1>1
<1>4. min * Side <= y /\ y < (min + count) * Side
  BY <1>1, <1>3
<1>5. q >= min
  <2> SUFFICES ASSUME q + 1 <= min PROVE FALSE
    BY <1>2
  <2>1. Side * (q + 1) <= Side * min
    BY <1>1, <1>2
  <2>2. Side * (q + 1) = Side * q + Side /\ Side * min = min * Side
    BY <1>1, <1>2
  <2> QED BY <1>1, <1>2, <1>3, <1>4, <2>1, <2>2
<1>6. q < min + count
  <2> SUFFICES ASSUME min + count <= q PROVE FALSE
    BY <1>2
  <2>1. Side * (min + count) <= Side * q
    BY <1>1, <1>2
  <2>2. Side * (min + count) = (min + count) * Side
    BY <1>1
  <2> QED BY <1>1, <1>2, <1>3, <1>4, <2>1, <2>2
<1> QED BY <1>2, <1>5, <1>6 DEF q, r, Along

(***************************************************************************)
(* Chunks                                                                  *)
(***************************************************************************)
\* The sizes of a section.
LEMMA Volumes ==
    /\ Volume(Side) \in Nat \ {0} /\ Volume(Side) <= Side * Side * Side
    /\ Volume(BiomeCells) \in Nat \ {0} /\ Volume(BiomeCells) <= Side * Side * Side
    /\ Along(Volume(Side)) = 0..Volume(Side) - 1
    /\ Along(Volume(BiomeCells)) = 0..Volume(BiomeCells) - 1
<1>1. Side \in Nat \ {0} /\ CellSide \in Nat \ {0} /\ Side * Side * Side \in Nat \ {0}
  BY Sizes
<1>2. Side % CellSide = 0
  BY ChunksAssumption
<1>3. BiomeCells \in Nat \ {0} /\ BiomeCells <= Side
  <2>1. Side = CellSide * BiomeCells + (Side % CellSide) /\ BiomeCells \in Nat
    BY <1>1 DEF BiomeCells
  <2>2. BiomeCells # 0
    <3> SUFFICES ASSUME BiomeCells = 0 PROVE FALSE
      OBVIOUS
    <3>1. CellSide * BiomeCells = 0
      BY <1>1
    <3> QED BY <1>1, <1>2, <2>1, <3>1
  <2>3. \A a, b \in Nat \ {0} : b <= a * b
    OBVIOUS
  <2>4. BiomeCells <= CellSide * BiomeCells
    BY <1>1, <2>1, <2>2, <2>3
  <2> QED BY <1>1, <1>2, <2>1, <2>2, <2>4
<1>4. \A a, b \in Nat \ {0} : a * b \in Nat \ {0}
  OBVIOUS
<1>5. \A a, b, c, d \in Nat \ {0} : a <= b /\ c <= d => a * c <= b * d
  <2> SUFFICES ASSUME NEW a \in Nat \ {0}, NEW b \in Nat \ {0}, NEW c \in Nat \ {0}, NEW d \in Nat \ {0},
                      a <= b, c <= d
               PROVE  a * c <= b * d
    OBVIOUS
  <2>1. \A k, l, e \in Nat : (k + l) * e = k * e + l * e /\ l * e \in Nat /\ k * e = e * k /\ k * e \in Nat
    OBVIOUS
  <2>2. b - a \in Nat /\ a + (b - a) = b /\ d - c \in Nat /\ c + (d - c) = d
    OBVIOUS
  <2>3. b * c = a * c + (b - a) * c /\ (b - a) * c \in Nat /\ a * c \in Nat
    BY <2>1, <2>2
  <2>4. d * b = c * b + (d - c) * b /\ (d - c) * b \in Nat /\ c * b = b * c /\ d * b = b * d /\ c * b \in Nat
    BY <2>1, <2>2
  <2> QED BY <2>3, <2>4
<1>6. BiomeCells * BiomeCells \in Nat \ {0} /\ BiomeCells * BiomeCells <= Side * Side /\ Side * Side \in Nat \ {0}
  BY <1>1, <1>3, <1>4, <1>5
<1>7. /\ BiomeCells * BiomeCells * BiomeCells \in Nat \ {0}
      /\ BiomeCells * BiomeCells * BiomeCells <= Side * Side * Side
  BY <1>1, <1>3, <1>4, <1>5, <1>6
<1> QED BY <1>1, <1>7 DEF Volume, Along

\* The client reads the blocks of a section, air where nothing of it is sent.
LEMMA SectionReads ==
    ASSUME NEW values, values = [i \in Along(Volume(Side)) |-> values[i]], NEW number,
           NEW i \in Along(Volume(Side))
    PROVE  LET layers == WriteSection(values, number).layers
           IN  values[i] = IF layers = <<>> THEN AirRuntime ELSE ReadStorage(layers[1], i)
<1> DEFINE layers == WriteSection(values, number).layers
           air == \A j \in DOMAIN values : values[j] = AirRuntime
<1> SUFFICES values[i] = IF layers = <<>> THEN AirRuntime ELSE ReadStorage(layers[1], i)
  OBVIOUS
<1>1. layers = IF air THEN <<>> ELSE <<WriteStorage(values)>>
  BY DEF WriteSection
<1>2. DOMAIN values = Along(Volume(Side))
  OBVIOUS
<1>3. CASE air
  BY <1>1, <1>2, <1>3
<1>4. CASE ~air
  <2>1. layers # <<>> /\ layers[1] = WriteStorage(values)
    <3> HIDE DEF air
    <3>1. layers = <<WriteStorage(values)>>
      BY <1>1, <1>4
    <3> HIDE DEF layers
    <3> QED BY <3>1
  <2>2. ReadStorage(WriteStorage(values), i) = values[i]
    <3> DEFINE n == Volume(Side)
               V == {values[j] : j \in 0..n - 1}
    <3>1. n \in Nat \ {0} /\ n <= Side * Side * Side /\ Along(Volume(Side)) = 0..n - 1
      BY Volumes
    <3> HIDE DEF n
    <3>2. values \in [0..n - 1 -> V]
      BY <1>2, <3>1
    <3> HIDE DEF V
    <3>3. \A k \in 0..n - 1 : ReadStorage(WriteStorage(values), k) = values[k]
      BY <3>1, <3>2, StorageReads
    <3> QED BY <3>1, <3>3
  <2> HIDE DEF layers
  <2> QED BY <2>1, <2>2
<1> QED BY <1>3, <1>4

\* Of one biome, the client reads that biome at every place.
LEMMA OneBiome ==
    ASSUME NEW i
    PROVE  /\ ReadStorage(WriteStorage([j \in {0} |-> 0]), i) = 0
           /\ WriteStorage([j \in {0} |-> 0]) # Carry
<1> DEFINE values == [j \in {0} |-> 0]
           p == PaletteOf(values)
<1>1. values \in [0..1 - 1 -> {0}] /\ 1 \in Nat \ {0} /\ 1 <= Side * Side * Side
  <2>1. 0..1 - 1 = {0}
    OBVIOUS
  <2>2. Side * Side * Side \in Nat \ {0}
    BY Sizes
  <2> QED BY <2>1, <2>2
<1> HIDE DEF values
<1>2. Pointing(p, Indices(values, p), values, 1, {0})
  BY <1>1, IndicesPoint
<1>3. /\ \A k \in 0..1 - 1 : ReadStorage(WriteStorage(values), k) = values[k]
      /\ WriteStorage(values) # Carry
  BY <1>1, StorageReads
<1> HIDE DEF p
<1>4. Len(p) = 1
  BY <1>2 DEF Pointing
<1>5. StorageWidth(1) = 0
  BY DEF StorageWidth
<1>6. WriteStorage(values) = [bits |-> 0, counted |-> FALSE, palette |-> p, words |-> <<>>]
  BY <1>4, <1>5 DEF WriteStorage, p
<1>7. ReadStorage(WriteStorage(values), i) = ReadStorage(WriteStorage(values), 0)
  BY <1>6 DEF ReadStorage
<1>8. ReadStorage(WriteStorage(values), 0) = 0
  <2>1. values[0] = 0
    BY DEF values
  <2> QED BY <1>3, <2>1
<1> QED BY <1>3, <1>7, <1>8 DEF values


\* The client reads what the bridge encodes.
LEMMA ChunkReads ==
    ASSUME NEW sections, NEW entities, NEW layout,
           layout.count \in Nat, layout.min \in Int,
           NEW x \in Along(Side), NEW z \in Along(Side),
           NEW y \in layout.min * Side..(layout.min + layout.count) * Side - 1,
           NEW s, s = y \div Side - layout.min + 1
    PROVE  /\ ClientBlock(EncodeChunk(sections, entities, layout), x, y, z) =
                 IF s \in DOMAIN sections THEN RuntimeID(sections[s].blocks[YZX(Side, x, y % Side, z)])
                 ELSE AirRuntime
           /\ ClientBiome(EncodeChunk(sections, entities, layout), layout, x, y, z) =
                 IF s \in DOMAIN sections
                 THEN BiomeRuntime(sections[s].biomes
                         [YZX(BiomeCells, x \div CellSide, (y % Side) \div CellSide, z \div CellSide)])
                 ELSE 0
<1> DEFINE chunk == EncodeChunk(sections, entities, layout)
           i == XZY(x, y % Side, z)
           Blocks(k) == IF k \in DOMAIN sections THEN ProjectBlocks(sections[k].blocks)
                        ELSE [j \in Along(Volume(Side)) |-> AirRuntime]
           Biomes(k) == IF k \in DOMAIN sections THEN ExpandBiomes(sections[k].biomes)
                        ELSE [j \in {0} |-> 0]
           block == IF s \in DOMAIN sections THEN RuntimeID(sections[s].blocks[YZX(Side, x, y % Side, z)])
                    ELSE AirRuntime
           biome == IF s \in DOMAIN sections
                    THEN BiomeRuntime(sections[s].biomes
                            [YZX(BiomeCells, x \div CellSide, (y % Side) \div CellSide, z \div CellSide)])
                    ELSE 0
<1>1. s \in 1..layout.count /\ y % Side \in Along(Side)
  BY Heightwise
<1>2. i \in Along(Volume(Side))
  BY <1>1, Axes
<1>3. /\ Blocks(s) = [j \in Along(Volume(Side)) |-> Blocks(s)[j]]
      /\ Blocks(s)[i] = block
  <2>1. CASE s \in DOMAIN sections
    <3>1. ProjectBlocks(sections[s].blocks)[i] = RuntimeID(sections[s].blocks[YZX(Side, x, y % Side, z)])
      <4> DEFINE h == y % Side
      <4>1. h \in Along(Side)
        BY <1>1
      <4> HIDE DEF h
      <4>2. \A b : ProjectBlocks(b)[XZY(x, h, z)] = RuntimeID(b[YZX(Side, x, h, z)])
        BY <4>1, BlocksKept
      <4> QED BY <4>2 DEF h
    <3>2. ProjectBlocks(sections[s].blocks) =
             [j \in Along(Volume(Side)) |-> ProjectBlocks(sections[s].blocks)[j]]
      BY DEF ProjectBlocks
    <3> QED BY <2>1, <3>1, <3>2
  <2>2. CASE s \notin DOMAIN sections
    BY <1>2, <2>2
  <2> QED BY <2>1, <2>2
<1>4. s \in DOMAIN sections =>
        /\ Biomes(s) = [j \in Along(Volume(Side)) |-> Biomes(s)[j]]
        /\ Biomes(s)[i] = biome
  <2> SUFFICES ASSUME s \in DOMAIN sections
               PROVE  /\ Biomes(s) = [j \in Along(Volume(Side)) |-> Biomes(s)[j]]
                      /\ Biomes(s)[i] = biome
    OBVIOUS
  <2>1. ExpandBiomes(sections[s].biomes)[i] =
           BiomeRuntime(sections[s].biomes
              [YZX(BiomeCells, x \div CellSide, (y % Side) \div CellSide, z \div CellSide)])
    <3> DEFINE h == y % Side
    <3>1. h \in Along(Side)
      BY <1>1
    <3> HIDE DEF h
    <3>2. \A b : ExpandBiomes(b)[XZY(x, h, z)] =
                    BiomeRuntime(b[YZX(BiomeCells, x \div CellSide, h \div CellSide, z \div CellSide)])
      BY <3>1, BiomesKept
    <3> QED BY <3>2 DEF h
  <2>2. ExpandBiomes(sections[s].biomes) =
           [j \in Along(Volume(Side)) |-> ExpandBiomes(sections[s].biomes)[j]]
    BY DEF ExpandBiomes
  <2> QED BY <2>1, <2>2
<1>5. chunk.sections = [k \in 1..layout.count |-> WriteSection(Blocks(k), layout.min + k - 1)]
  BY DEF EncodeChunk
<1>6. chunk.biomes = [k \in 1..layout.count |-> WriteStorage(Biomes(k))]
  BY DEF EncodeChunk
<1> HIDE DEF chunk, Blocks, Biomes, i, block, biome
<1>7. ClientBlock(chunk, x, y, z) = block
  <2> DEFINE holds == {k \in DOMAIN chunk.sections : chunk.sections[k].number = y \div Side}
             layers == WriteSection(Blocks(s), layout.min + s - 1).layers
  <2>1. \A k \in 1..layout.count : chunk.sections[k].number = layout.min + k - 1
    BY <1>5 DEF WriteSection
  <2>2. holds = {s}
    <3>1. y \div Side \in Int /\ s \in Int
      <4>1. Side \in Nat \ {0}
        BY Sizes
      <4> QED BY <1>1, <4>1
    <3> DEFINE q == y \div Side
    <3> HIDE DEF q
    <3>2. \A k \in 1..layout.count : layout.min + k - 1 = q <=> k = s
      BY <3>1 DEF q
    <3>3. DOMAIN chunk.sections = 1..layout.count
      BY <1>5
    <3> QED BY <1>1, <2>1, <3>2, <3>3 DEF q
  <2> HIDE DEF holds
  <2>3. Max(holds) = s
    <3>1. s \in Int
      BY <1>1
    <3> QED BY <2>2, <3>1 DEF Max
  <2>4. chunk.sections[s].layers = layers
    BY <1>1, <1>5
  <2>5. block = IF layers = <<>> THEN AirRuntime ELSE ReadStorage(layers[1], i)
    BY <1>2, <1>3, SectionReads
  <2> HIDE DEF layers
  <2>6. ClientBlock(chunk, x, y, z) =
           IF holds = {} \/ \E k \in holds : chunk.sections[k].layers = <<>> THEN AirRuntime
           ELSE ReadStorage(chunk.sections[Max(holds)].layers[1], i)
    BY DEF ClientBlock, holds, i
  <2>7. holds # {} /\ ((\E k \in holds : chunk.sections[k].layers = <<>>) <=> layers = <<>>)
    BY <2>2, <2>4
  <2> QED BY <2>3, <2>4, <2>5, <2>6, <2>7
<1>8. ClientBiome(chunk, layout, x, y, z) = biome
  <2> DEFINE own == {k \in 1..s : chunk.biomes[k] # Carry}
  <2>1. chunk.biomes[s] = WriteStorage(Biomes(s)) /\ Len(chunk.biomes) = layout.count
    <3>1. chunk.biomes[s] = WriteStorage(Biomes(s))
      BY <1>1, <1>6
    <3>2. Len(chunk.biomes) = layout.count
      BY <1>6
    <3> QED BY <3>1, <3>2
  <2>2. WriteStorage(Biomes(s)) # Carry /\ ReadStorage(WriteStorage(Biomes(s)), i) = biome
    <3>1. CASE s \in DOMAIN sections
      <4> DEFINE n == Volume(Side)
                 values == Biomes(s)
                 V == {values[j] : j \in 0..n - 1}
      <4>1. n \in Nat \ {0} /\ n <= Side * Side * Side /\ Along(Volume(Side)) = 0..n - 1
        BY Volumes
      <4> HIDE DEF n
      <4>2. values \in [0..n - 1 -> V]
        BY <1>4, <3>1, <4>1
      <4>3. values[i] = biome
        BY <1>4, <3>1
      <4> HIDE DEF V, values
      <4>4. /\ \A k \in 0..n - 1 : ReadStorage(WriteStorage(values), k) = values[k]
            /\ WriteStorage(values) # Carry
        BY <4>1, <4>2, StorageReads
      <4> QED BY <1>2, <4>1, <4>3, <4>4 DEF values
    <3>2. CASE s \notin DOMAIN sections
      <4>1. Biomes(s) = [j \in {0} |-> 0] /\ biome = 0
        BY <3>2 DEF Biomes, biome
      <4> QED BY <4>1, OneBiome
    <3> QED BY <3>1, <3>2
  <2>3. Max(own) = s
    <3>1. s \in own
      BY <1>1, <2>1, <2>2
    <3>2. \A k \in own : k \in Int /\ s >= k
      BY <1>1
    <3> HIDE DEF own
    <3>3. \A m \in own : (\A k \in own : m >= k) => m = s
      BY <3>1, <3>2
    <3> QED BY <3>1, <3>2, <3>3, Zenon DEF Max
  <2>4. ClientBiome(chunk, layout, x, y, z) =
           IF Len(chunk.biomes) # layout.count THEN -1
           ELSE ReadStorage(chunk.biomes[Max(own)], i)
    BY DEF ClientBiome, i
  <2> QED BY <2>1, <2>2, <2>3, <2>4
<1> QED BY <1>7, <1>8 DEF chunk, block, biome

\* An unloaded chunk is air and biome 0.
LEMMA EmptyReads ==
    ASSUME NEW layout, layout.count \in Nat, layout.min \in Int,
           NEW x \in Along(Side), NEW z \in Along(Side),
           NEW y \in layout.min * Side..(layout.min + layout.count) * Side - 1
    PROVE  /\ ClientBlock(EmptyChunk(layout), x, y, z) = AirRuntime
           /\ ClientBiome(EmptyChunk(layout), layout, x, y, z) = 0
<1> DEFINE chunk == EmptyChunk(layout)
           s == y \div Side - layout.min + 1
           one == WriteStorage([i \in {0} |-> 0])
           own == {k \in 1..s : chunk.biomes[k] # Carry}
<1>1. s \in 1..layout.count
  BY Heightwise
<1>2. chunk.biomes = [k \in 1..layout.count |-> IF k = 1 THEN one ELSE Carry] /\ chunk.sections = <<>>
  BY DEF EmptyChunk
<1>3. ClientBlock(chunk, x, y, z) = AirRuntime
  <2> HIDE DEF chunk
  <2>1. DOMAIN chunk.sections = {}
    BY <1>2
  <2> QED BY <2>1 DEF ClientBlock
<1>4. one # Carry /\ \A i : ReadStorage(one, i) = 0
  BY OneBiome
<1> HIDE DEF chunk, one
<1>5. Max(own) = 1
  <2> HIDE DEF s
  <2>1. \A k \in 1..s : chunk.biomes[k] # Carry <=> k = 1
    BY <1>1, <1>2, <1>4
  <2>2. own = {1}
    BY <1>1, <2>1
  <2> HIDE DEF own
  <2> QED BY <2>2 DEF Max
<1>6. chunk.biomes[1] = one /\ Len(chunk.biomes) = layout.count
  <2> HIDE DEF s
  <2>1. 1 \in 1..layout.count
    BY <1>1
  <2>2. chunk.biomes[1] = one
    BY <1>2, <2>1
  <2>3. Len(chunk.biomes) = layout.count
    BY <1>2
  <2> QED BY <2>2, <2>3
<1>7. ClientBiome(chunk, layout, x, y, z) =
         IF Len(chunk.biomes) # layout.count THEN -1
         ELSE ReadStorage(chunk.biomes[Max(own)], XZY(x, y % Side, z))
  BY DEF ClientBiome
<1> HIDE DEF own
<1>8. ClientBiome(chunk, layout, x, y, z) = 0
  BY <1>4, <1>5, <1>6, <1>7
<1> QED BY <1>3, <1>8 DEF chunk

\* The containers of a chunk, as they are sent.
Wire(sections) ==
    [s \in DOMAIN sections |->
        [blocks |-> JavaContainer(sections[s].blocks, PaletteBits \div 2, PaletteBits, Len(BlockRegistry)),
         biomes |-> JavaContainer(sections[s].biomes, 1, BiomeBits, Len(BiomeRegistry))]]

\* The bridge decodes the chunk the server sent.
LEMMA SectionsDecoded ==
    ASSUME FewBiomes, NEW sent \in Columns
    PROVE  DecodeSections(Wire(sent.sections)) = sent.sections /\ sent.sections # Failed
<1> DEFINE sections == sent.sections
           Blocks == [Along(Volume(Side)) -> 0..Len(BlockRegistry) - 1]
           Biomes == [Along(Volume(BiomeCells)) -> 0..Len(BiomeRegistry) - 1]
           wire == Wire(sections)
           n == Len(sections)
<1>1. sections \in Seq([blocks : Blocks, biomes : Biomes]) /\ n \in 1..MaxSections
  BY ColumnsAssumption
<1>2. \A s \in DOMAIN sections :
         Cardinality({sections[s].biomes[i] : i \in Along(Volume(BiomeCells))}) <= 2^BiomeBits
  BY DEF FewBiomes
<1>3. /\ Len(BlockRegistry) \in 1..2^16 /\ Len(BiomeRegistry) \in 1..2^16
      /\ PaletteBits \in 1..16 /\ BiomeBits \in 1..PaletteBits /\ MaxSections \in Nat
  BY Sizes, ChunksAssumption
<1> HIDE DEF sections
<1>4. /\ DOMAIN sections = 1..n /\ n \in Nat
      /\ \A s \in 1..n : sections[s] \in [blocks : Blocks, biomes : Biomes]
  <2>1. \A S, q : q \in Seq(S) => DOMAIN q = 1..Len(q) /\ Len(q) \in Nat /\ \A s \in 1..Len(q) : q[s] \in S
    OBVIOUS
  <2> HIDE DEF Blocks, Biomes
  <2> QED BY <1>1, <2>1, Zenon
<1>5. ASSUME NEW s \in 1..n
      PROVE  /\ DecodePaletted(wire[s].blocks, Volume(Side)) = sections[s].blocks
             /\ sections[s].blocks # Failed
             /\ DecodePaletted(wire[s].biomes, Volume(BiomeCells)) = sections[s].biomes
             /\ sections[s].biomes # Failed
  <2>1. /\ wire[s].blocks = JavaContainer(sections[s].blocks, PaletteBits \div 2, PaletteBits,
                                          Len(BlockRegistry))
        /\ wire[s].biomes = JavaContainer(sections[s].biomes, 1, BiomeBits, Len(BiomeRegistry))
    BY <1>4 DEF Wire
  <2>2. sections[s].blocks \in Blocks /\ sections[s].biomes \in Biomes
    BY <1>4
  <2> HIDE DEF wire
  <2>3. /\ DecodePaletted(wire[s].blocks, Volume(Side)) = sections[s].blocks
        /\ sections[s].blocks # Failed
    <3> DEFINE size == Volume(Side)
               values == sections[s].blocks
               narrowest == PaletteBits \div 2
               widest == PaletteBits
               registry == Len(BlockRegistry)
    <3>1. size \in Nat \ {0} /\ size <= Side * Side * Side /\ Along(size) = 0..size - 1
      BY Volumes
    <3>2. /\ narrowest \in Nat /\ widest \in Nat \ {0} /\ narrowest <= widest
          /\ widest <= PaletteBits
      BY <1>3
    <3>3. registry \in 1..2^16 /\ values \in [0..size - 1 -> 0..registry - 1]
      BY <1>3, <2>2, <3>1
    <3>4. Readable(values, size, widest)
      BY DEF Readable
    <3> HIDE DEF size, values, narrowest, widest, registry
    <3>5. /\ DecodePaletted(JavaContainer(values, narrowest, widest, registry), size) = values
          /\ values # Failed
      BY <3>1, <3>2, <3>3, <3>4, ContainerDecoded
    <3> QED BY <2>1, <3>5 DEF size, values, narrowest, widest, registry
  <2>4. /\ DecodePaletted(wire[s].biomes, Volume(BiomeCells)) = sections[s].biomes
        /\ sections[s].biomes # Failed
    <3> DEFINE size == Volume(BiomeCells)
               values == sections[s].biomes
               registry == Len(BiomeRegistry)
    <3>1. size \in Nat \ {0} /\ size <= Side * Side * Side /\ Along(size) = 0..size - 1
      BY Volumes
    <3>2. 1 \in Nat /\ BiomeBits \in Nat \ {0} /\ 1 <= BiomeBits /\ BiomeBits <= PaletteBits
      BY <1>3
    <3>3. registry \in 1..2^16 /\ values \in [0..size - 1 -> 0..registry - 1]
      BY <1>3, <2>2, <3>1
    <3>4. Readable(values, size, BiomeBits)
      <4>1. Cardinality({values[i] : i \in 0..size - 1}) <= 2^BiomeBits
        BY <1>2, <1>4, <3>1
      <4> QED BY <4>1 DEF Readable
    <3> HIDE DEF size, values, registry
    <3>5. /\ DecodePaletted(JavaContainer(values, 1, BiomeBits, registry), size) = values
          /\ values # Failed
      BY <3>1, <3>2, <3>3, <3>4, ContainerDecoded
    <3> QED BY <2>1, <3>5 DEF size, values, registry
  <2> QED BY <2>3, <2>4
<1>6. sections # <<>>
  BY <1>1, <1>3, <1>4
<1>7. DOMAIN wire = 1..n /\ wire # <<>> /\ Len(wire) = n
  <2>1. DOMAIN wire = 1..n
    BY <1>4 DEF Wire
  <2>2. 1 \in 1..n
    BY <1>1, <1>3
  <2>3. Len(wire) = n
    BY <1>4 DEF Wire
  <2> HIDE DEF wire
  <2> QED BY <2>1, <2>2, <2>3
<1>8. [s \in 1..n |-> [blocks |-> sections[s].blocks, biomes |-> sections[s].biomes]] = sections
  <2>1. \A s \in 1..n : sections[s] = [blocks |-> sections[s].blocks, biomes |-> sections[s].biomes]
    BY <1>4
  <2>2. sections = [s \in 1..n |-> sections[s]]
    BY <1>1
  <2> QED BY <2>1, <2>2
<1> HIDE DEF wire
<1>9. DecodeSections(wire) = sections
  <2> DEFINE decoded == [s \in DOMAIN wire |->
                            [blocks |-> DecodePaletted(wire[s].blocks, Volume(Side)),
                             biomes |-> DecodePaletted(wire[s].biomes, Volume(BiomeCells))]]
  <2>1. decoded = sections
    BY <1>5, <1>7, <1>8
  <2>2. ~(\E s \in DOMAIN wire : decoded[s].blocks = Failed \/ decoded[s].biomes = Failed)
    BY <1>5, <1>7, <2>1
  <2>3. ~(wire = <<>> \/ Len(wire) > MaxSections)
    BY <1>1, <1>3, <1>7
  <2>4. DecodeSections(wire) =
           IF wire = <<>> \/ Len(wire) > MaxSections
              \/ \E s \in DOMAIN wire : decoded[s].blocks = Failed \/ decoded[s].biomes = Failed
           THEN Failed ELSE decoded
    BY DEF DecodeSections
  <2> HIDE DEF decoded
  <2> QED BY <2>1, <2>2, <2>3, <2>4
<1> QED BY <1>6, <1>9 DEF Failed, sections, wire

(***************************************************************************)
(* Behaviours                                                              *)
(***************************************************************************)
\* What the client was sent of the server's chunk: all of it, or that there is none.
Encoded ==
    /\ column \in Columns
    /\ levelChunk = EncodeChunk(column.sections, column.entities, Layouts[column.dimension])
Unloaded ==
    /\ column \in [dimension : DOMAIN Layouts, sections : {<<>>}, entities : {{}}]
    /\ levelChunk = EmptyChunk(Layouts[column.dimension])

\* A chunk under way is the one the server has, and what the client was sent says all of
\* the one that has arrived.
ColumnInv ==
    /\ column = <<>> => mapChunk = <<>>
    /\ mapChunk # <<>> => column \in Columns /\ mapChunk = Wire(column.sections)
    /\ column # <<>> /\ mapChunk = <<>> => Encoded \/ Unloaded

\* A chunk is no empty sequence.
LEMMA ColumnsAreChunks ==
    ASSUME NEW sent \in Columns
    PROVE  /\ sent # <<>> /\ sent.dimension \in DOMAIN Layouts
           /\ Wire(sent.sections) # <<>>
<1>1. sent.dimension \in DOMAIN Layouts
  BY ColumnsAssumption
<1>2. sent # <<>>
  <2>1. "dimension" \in DOMAIN sent
    BY ColumnsAssumption
  <2>2. DOMAIN <<>> = {}
    OBVIOUS
  <2> QED BY <2>1, <2>2
<1>3. Wire(sent.sections) # <<>>
  <2>1. Len(sent.sections) \in 1..MaxSections /\ DOMAIN sent.sections = 1..Len(sent.sections)
    BY ColumnsAssumption
  <2>2. MaxSections \in Nat
    BY Sizes
  <2>3. 1 \in DOMAIN sent.sections
    BY <2>1, <2>2
  <2>4. 1 \in DOMAIN Wire(sent.sections)
    BY <2>3 DEF Wire
  <2> QED BY <2>4
<1> QED BY <1>1, <1>2, <1>3

\* What the invariant says of a chunk at the client is that it agrees.
LEMMA ArrivedAgrees ==
    ASSUME ColumnInv
    PROVE  ChunkAgrees
<1> SUFFICES ASSUME column # <<>>, mapChunk = <<>> PROVE ChunkAgrees
  BY DEF ChunkAgrees
<1> DEFINE layout == Layouts[column.dimension]
           Places == layout.min * Side..(layout.min + layout.count) * Side - 1
<1>1. Encoded \/ Unloaded
  BY DEF ColumnInv
<1>2. layout.count \in Nat /\ layout.min \in Int
  <2>1. column.dimension \in DOMAIN Layouts
    BY <1>1, ColumnsAreChunks DEF Encoded, Unloaded
  <2>2. layout.count \in 1..MaxSections /\ layout.min \in Int /\ MaxSections \in Nat
    BY <2>1, Sizes, ChunksAssumption
  <2> HIDE DEF layout
  <2> QED BY <2>2
<1> HIDE DEF layout
<1>3. CASE Encoded
  <2>1. levelChunk = EncodeChunk(column.sections, column.entities, layout)
    BY <1>3 DEF Encoded, layout
  <2>2. ASSUME NEW x \in Along(Side), NEW z \in Along(Side), NEW y \in Places
        PROVE  /\ ClientBlock(levelChunk, x, y, z) = ServerBlock(x, y, z)
               /\ ClientBiome(levelChunk, layout, x, y, z) = ServerBiome(x, y, z)
    <3> DEFINE s == y \div Side - layout.min + 1
               sections == column.sections
    <3>1. s = ServerSection(y)
      BY DEF ServerSection, layout
    <3> HIDE DEF s, sections
    <3>2. s = y \div Side - layout.min + 1
      BY DEF s
    <3>3. /\ ClientBlock(levelChunk, x, y, z) =
                 IF s \in DOMAIN sections THEN RuntimeID(sections[s].blocks[YZX(Side, x, y % Side, z)])
                 ELSE AirRuntime
          /\ ClientBiome(levelChunk, layout, x, y, z) =
                 IF s \in DOMAIN sections
                 THEN BiomeRuntime(sections[s].biomes
                         [YZX(BiomeCells, x \div CellSide, (y % Side) \div CellSide, z \div CellSide)])
                 ELSE 0
      BY <1>2, <2>1, <3>2, ChunkReads DEF sections
    <3> QED BY <3>1, <3>3 DEF ServerBlock, ServerBiome, sections
  <2>3. levelChunk.ok
    BY <2>1 DEF EncodeChunk
  <2>4. levelChunk.entities =
           {[at |-> e, state |-> BlockStateAt(column.sections, e, layout.min)] : e \in column.entities}
    BY <2>1 DEF EncodeChunk
  <2>5. ASSUME NEW e \in levelChunk.entities
        PROVE  RuntimeID(e.state) = ServerBlock(e.at.x, e.at.y, e.at.z)
    <3>1. e.state = BlockStateAt(column.sections, e.at, layout.min)
      BY <2>4
    <3> DEFINE s == ServerSection(e.at.y)
               state == column.sections[s].blocks[YZX(Side, e.at.x, e.at.y % Side, e.at.z)]
    <3>2. e.state = IF s \notin DOMAIN column.sections \/ state + 1 \notin DOMAIN BlockRegistry
                    THEN -1 ELSE state
      BY <3>1 DEF BlockStateAt, ServerSection, layout
    <3>3. ServerBlock(e.at.x, e.at.y, e.at.z) =
             IF s \in DOMAIN column.sections THEN RuntimeID(state) ELSE AirRuntime
      BY DEF ServerBlock
    <3> HIDE DEF s, state
    <3>4. RuntimeID(-1) = AirRuntime
      <4>1. -1 + 1 = 0 /\ 0 \notin 1..Len(BlockRegistry)
        OBVIOUS
      <4>2. DOMAIN BlockRegistry = 1..Len(BlockRegistry)
        BY ChunksAssumption
      <4> QED BY <4>1, <4>2 DEF RuntimeID
    <3>5. state + 1 \notin DOMAIN BlockRegistry => RuntimeID(state) = AirRuntime
      BY DEF RuntimeID
    <3> QED BY <3>2, <3>3, <3>4, <3>5
  <2>6. {e.at : e \in levelChunk.entities} = column.entities
    <3> DEFINE Shown(c) == [at |-> c, state |-> BlockStateAt(column.sections, c, layout.min)]
    <3>1. /\ \A c : Shown(c).at = c
          /\ levelChunk.entities = {Shown(c) : c \in column.entities}
      BY <2>4
    <3> HIDE DEF Shown
    <3>2. \A c \in column.entities : \E e \in levelChunk.entities : c = e.at
      BY <3>1
    <3>3. \A e \in levelChunk.entities : e.at \in column.entities
      BY <3>1
    <3> QED BY <3>2, <3>3
  <2> QED BY <2>2, <2>3, <2>5, <2>6 DEF ChunkAgrees, layout
<1>4. CASE Unloaded
  <2>1. levelChunk = EmptyChunk(layout) /\ column.sections = <<>> /\ column.entities = {}
    BY <1>4 DEF Unloaded, layout
  <2>2. ASSUME NEW x \in Along(Side), NEW z \in Along(Side), NEW y \in Places
        PROVE  /\ ClientBlock(levelChunk, x, y, z) = ServerBlock(x, y, z)
               /\ ClientBiome(levelChunk, layout, x, y, z) = ServerBiome(x, y, z)
    <3>1. /\ ClientBlock(levelChunk, x, y, z) = AirRuntime
          /\ ClientBiome(levelChunk, layout, x, y, z) = 0
      BY <1>2, <2>1, EmptyReads
    <3>2. DOMAIN column.sections = {}
      BY <2>1
    <3> QED BY <3>1, <3>2 DEF ServerBlock, ServerBiome
  <2>3. levelChunk.ok /\ levelChunk.entities = {}
    BY <2>1 DEF EmptyChunk
  <2> QED BY <2>1, <2>2, <2>3 DEF ChunkAgrees, layout
<1> QED BY <1>1, <1>3, <1>4

\* Of any chunk of known states and biomes, with no more biomes in a section than a
\* palette numbers, the client reads at every place of its dimension what the server has
\* there, and nothing of it once it is unloaded (ChunkAgrees).
THEOREM ChunksCorrect ==
    ASSUME FewBiomes
    PROVE  ChunksSpec => []ChunkAgrees
<1>1. ChunksInit => ColumnInv
  BY DEF ChunksInit, ColumnInv
<1>2. ASSUME ColumnInv, [ChunksNext]_chunkVars PROVE ColumnInv'
  <2>1. ASSUME NEW sent \in Columns, ServerSends(sent) PROVE ColumnInv'
    <3>1. column' = sent /\ mapChunk' = Wire(sent.sections)
      BY <2>1 DEF ServerSends, Wire
    <3>2. sent # <<>> /\ Wire(sent.sections) # <<>>
      BY ColumnsAreChunks
    <3>3. (mapChunk # <<>> => column \in Columns /\ mapChunk = Wire(column.sections))'
      BY <3>1
    <3> QED BY <3>1, <3>2, <3>3 DEF ColumnInv
  <2>2. ASSUME HandleMapChunk PROVE ColumnInv'
    <3>1. column \in Columns /\ mapChunk = Wire(column.sections)
      BY <1>2, <2>2 DEF HandleMapChunk, ColumnInv
    <3>2. DecodeSections(mapChunk) = column.sections /\ column.sections # Failed
      BY <3>1, SectionsDecoded
    <3>3. column' = column /\ mapChunk' = <<>>
      BY <2>2 DEF HandleMapChunk
    <3>4. levelChunk' = EncodeChunk(column.sections, column.entities, Layouts[column.dimension])
      BY <2>2, <3>2 DEF HandleMapChunk
    <3>5. Encoded'
      BY <3>1, <3>3, <3>4 DEF Encoded
    <3> QED BY <3>3, <3>5 DEF ColumnInv
  <2>3. ASSUME HandleUnloadChunk PROVE ColumnInv'
    <3>1. /\ mapChunk = <<>> /\ column # <<>> /\ column.sections # <<>>
          /\ levelChunk' = EmptyChunk(Layouts[column.dimension]) /\ mapChunk' = mapChunk
          /\ column' = [column EXCEPT !.sections = <<>>, !.entities = {}]
      BY <2>3 DEF HandleUnloadChunk
    <3>2. column \in Columns
      BY <1>2, <3>1 DEF ColumnInv, Encoded, Unloaded
    <3>3. /\ column \in [dimension : DOMAIN Layouts, sections : {column.sections}, entities : {column.entities}]
      BY <3>2, ColumnsAssumption
    <3>4. /\ column' \in [dimension : DOMAIN Layouts, sections : {<<>>}, entities : {{}}]
          /\ column'.dimension = column.dimension
      BY <3>1, <3>3
    <3>5. Unloaded'
      BY <3>1, <3>4 DEF Unloaded
    <3> QED BY <3>1, <3>5 DEF ColumnInv
  <2>4. CASE UNCHANGED chunkVars
    BY <1>2, <2>4 DEF chunkVars, ColumnInv, Encoded, Unloaded
  <2> QED BY <1>2, <2>1, <2>2, <2>3, <2>4 DEF ChunksNext
<1>3. ColumnInv => ChunkAgrees
  BY ArrivedAgrees
<1> QED BY <1>1, <1>2, <1>3, PTL DEF ChunksSpec
=============================================================================
