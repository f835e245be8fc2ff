------------------------------ MODULE BossBars ------------------------------
(***************************************************************************)
(* Boss bars (src/translate/bossbar.go).  A Java bar has a UUID; on Bedrock *)
(* it belongs to an invisible actor the bridge makes for it.  The bridge    *)
(* keeps each bar's state, because the Bedrock packets that show a bar      *)
(* carry all of it and those that change it one field.                      *)
(***************************************************************************)
EXTENDS Integers

CONSTANTS
    Bars,            \* UUIDs of boss bars
    BarTitles,       \* title texts
    BarHealths,      \* health the server sends, in tenths, or NaN
    NaN,             \* the float that is not a number
    BarStyles,       \* <<colour, division>> pairs the server sends
    MaxBarActors     \* bound on the actors made for bars

FirstBarActor == 1

ASSUME BossBarsAssumption ==
    /\ BarHealths \subseteq Int \cup {NaN}
    /\ BarStyles \subseteq Int \X Int
    /\ MaxBarActors \in Nat

VARIABLES
    bossBars,        \* Basic.bossBars: UUID -> entity ID, title, health, style
    nextBossBarID,   \* Basic.nextBossBarID
    barActors,       \* actors of bars the client has
    barsShown        \* the client's bars: entity ID -> title, health, style

barVars == <<bossBars, nextBossBarID, barActors, barsShown>>

\* clampBossBarHealth
Clamp(health) ==
    IF health = NaN \/ health < 0 THEN 0 ELSE IF health > 10 THEN 10 ELSE health

\* bossBarColor and bossBarOverlay.  Bedrock puts a colour of its own before white.
White == 7
Colour(value) == IF value \notin 0..5 THEN White ELSE value
Overlay(value) == IF value \notin 0..4 THEN 0 ELSE value
Style(style) == <<Colour(style[1]), Overlay(style[2])>>

\* An empty title is sent as a blank.
Title(text) == IF text = "" THEN " " ELSE text

BossBarsInit ==
    /\ bossBars = <<>>
    /\ nextBossBarID = FirstBarActor
    /\ barActors = {}
    /\ barsShown = <<>>

WithBar(table, key, state) ==
    [k \in DOMAIN table \cup {key} |-> IF k = key THEN state ELSE table[k]]

\* javaBossBarAdd: an actor, and a BossEventShow with the whole state.  The server
\* adds a bar the client does not have.
AddBar(bar, title, health, style) ==
    /\ bar \notin DOMAIN bossBars
    /\ nextBossBarID < FirstBarActor + MaxBarActors
    /\ LET state == [id |-> nextBossBarID, title |-> Title(title), health |-> Clamp(health),
                     style |-> Style(style)]
       IN  /\ bossBars' = WithBar(bossBars, bar, state)
           /\ barActors' = barActors \cup {state.id}
           /\ barsShown' = WithBar(barsShown, state.id,
                                   [title |-> state.title, health |-> state.health,
                                    style |-> state.style])
    /\ nextBossBarID' = nextBossBarID + 1

\* Mutant: the actor is removed and its bar is not hidden.
RemoveBarActorOnly(bar) ==
    /\ bar \in DOMAIN bossBars
    /\ bossBars' = [b \in DOMAIN bossBars \ {bar} |-> bossBars[b]]
    /\ barActors' = barActors \ {bossBars[bar].id}
    /\ UNCHANGED <<nextBossBarID, barsShown>>

\* javaBossBarRemove: hide the bar, then remove its actor.
RemoveBar(bar) ==
    /\ bar \in DOMAIN bossBars
    /\ bossBars' = [b \in DOMAIN bossBars \ {bar} |-> bossBars[b]]
    /\ barActors' = barActors \ {bossBars[bar].id}
    /\ barsShown' = [b \in DOMAIN barsShown \ {bossBars[bar].id} |-> barsShown[b]]
    /\ UNCHANGED nextBossBarID

\* javaBossBarHealth, javaBossBarTitle, javaBossBarStyle: one field of the state,
\* and a BossEvent of which the client reads that field.  Flags change nothing the
\* client sees, and an unknown bar is skipped.
UpdateBar(bar, field, value) ==
    /\ bar \in DOMAIN bossBars
    /\ LET state == [bossBars[bar] EXCEPT ![field] = value]
       IN  /\ bossBars' = [bossBars EXCEPT ![bar] = state]
           /\ barsShown' = IF state.id \in DOMAIN barsShown
                           THEN [barsShown EXCEPT ![state.id][field] = state[field]]
                           ELSE barsShown
    /\ UNCHANGED <<nextBossBarID, barActors>>

BossBarsNext ==
    \/ \E b \in Bars, t \in BarTitles, h \in BarHealths, s \in BarStyles : AddBar(b, t, h, s)
    \/ \E b \in Bars : RemoveBar(b)
    \/ \E b \in Bars, h \in BarHealths : UpdateBar(b, "health", Clamp(h))
    \/ \E b \in Bars, t \in BarTitles : UpdateBar(b, "title", Title(t))
    \/ \E b \in Bars, s \in BarStyles : UpdateBar(b, "style", Style(s))

BossBarsSpec == BossBarsInit /\ [][BossBarsNext]_barVars

(***************************************************************************)
(* Properties                                                              *)
(***************************************************************************)
\* The client shows the bars the server has, each on an actor of its own that it
\* still has, with the title, health and style last given; a bar added after others
\* were removed takes over nothing of theirs.
BarsAgree ==
    /\ DOMAIN barsShown = {bossBars[b].id : b \in DOMAIN bossBars}
    /\ barActors = DOMAIN barsShown
    /\ \A b \in DOMAIN bossBars :
          LET shown == barsShown[bossBars[b].id]
          IN  /\ shown = [title |-> bossBars[b].title, health |-> bossBars[b].health,
                          style |-> bossBars[b].style]
              /\ shown.title # ""
              /\ shown.health \in 0..10
              /\ shown.style \in (0..White) \X (0..4)
    /\ \A b, c \in DOMAIN bossBars : bossBars[b].id = bossBars[c].id => b = c
=============================================================================
