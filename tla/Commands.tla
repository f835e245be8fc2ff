------------------------------ MODULE Commands ------------------------------
(***************************************************************************)
(* The server's command tree as the command list of the client             *)
(* (src/translate/commands.go).  The server's tree is a graph: nodes       *)
(* redirect to others, for aliases and to begin again at the root.  The    *)
(* client has a flat list of commands, each with aliases and overloads,    *)
(* and no graph.  A node's name stands for itself; an enum is the set of   *)
(* its values.                                                             *)
(***************************************************************************)
EXTENDS Integers, Sequences, FiniteSets, SequencesExt

CONSTANTS
    Trees,           \* command trees: node -> [kind, name, executable, redirect, children, parser]
    MaxOverloads,    \* javaCommandMaxOverloads (256)
    MaxPathDepth     \* javaCommandMaxPathDepth (32)

Root == 0            \* RootIndex
NoRedirect == -1

ASSUME CommandsAssumption ==
    /\ MaxOverloads \in Nat \ {0} /\ MaxPathDepth \in Nat
    /\ \A tree \in Trees : Root \in DOMAIN tree /\ tree[Root].kind = "root"

VARIABLES
    tree,            \* the server's commands
    commands         \* the client's: sequence of [name, aliases, overloads]
commandVars == <<tree, commands>>

(***************************************************************************)
(* buildBedrockCommands                                                    *)
(***************************************************************************)
IsLiteral(t, n) == n \in DOMAIN t /\ t[n].kind = "literal"
RootLiterals(t) == {n \in ToSet(t[Root].children) : IsLiteral(t, n)}

\* resolveJavaCommandRedirect: along the redirects, but never around a circle.
RECURSIVE Resolve(_, _, _)
Resolve(t, n, visited) ==
    IF n \notin DOMAIN t \/ n \in visited \/ t[n].redirect \notin DOMAIN t THEN n
    ELSE Resolve(t, t[n].redirect, visited \cup {n})

\* Mutant: a command that redirects anywhere is an alias.
OwnerAnywhere(t, n) == Resolve(t, n, {})

\* The command that n is an alias of: a literal of the root it redirects to, or itself.
Owner(t, n) == IF Resolve(t, n, {}) \in RootLiterals(t) THEN Resolve(t, n, {}) ELSE n

\* javaCommandParameter, and the parameter of a literal, whose enum has the literals
\* beside it as well.
Parameter(t, parent, n) ==
    [name |-> t[n].name,
     values |-> IF t[n].kind = "literal"
                THEN {t[c].name : c \in {c \in ToSet(t[parent].children) : IsLiteral(t, c)}}
                ELSE IF t[n].parser = "bool" THEN {"false", "true"} ELSE {}]

\* collectJavaCommandOverloads: depth first, never through a node twice on one path; a
\* node that redirects has nothing of its own.
RECURSIVE Overloads(_, _, _, _, _)
Overloads(t, n, path, visited, found) ==
    IF Len(found) >= MaxOverloads \/ Len(path) > MaxPathDepth \/ n \notin DOMAIN t \/ n \in visited
    THEN found
    ELSE IF t[n].redirect # NoRedirect
    THEN Overloads(t, t[n].redirect, path, visited \cup {n}, found)
    ELSE FoldLeft(
            LAMBDA sofar, c :
               IF c \notin DOMAIN t \/ t[c].kind = "root" THEN sofar
               ELSE Overloads(t, c, Append(path, Parameter(t, n, c)), visited \cup {n}, sofar),
            IF t[n].executable THEN Append(found, path) ELSE found,
            t[n].children)

\* One command for each owner, in the order of the root's children; one without
\* overloads gets an empty one, and a client without commands "help".
BuildCommands(t) ==
    LET named == SelectSeq(t[Root].children, LAMBDA n : n \in RootLiterals(t) /\ t[n].name # "")
        owners == FoldLeft(LAMBDA o, n : IF Contains(o, Owner(t, n)) THEN o ELSE Append(o, Owner(t, n)),
                           <<>>, named)
        overloads(n) == Overloads(t, n, <<>>, {}, <<>>)
        command(n) == [name |-> t[n].name,
                       aliases |-> {t[c].name : c \in {c \in ToSet(named) : Owner(t, c) = n /\ c # n}},
                       overloads |-> IF overloads(n) = <<>> THEN << <<>> >> ELSE overloads(n)]
    IN  IF owners = <<>> THEN <<[name |-> "help", aliases |-> {}, overloads |-> << <<>> >>]>>
        ELSE [i \in DOMAIN owners |-> command(owners[i])]

CommandsInit == tree \in Trees /\ commands = <<>>

\* translateJavaCommands
HandleCommands ==
    /\ commands' = BuildCommands(tree)
    /\ UNCHANGED tree

CommandsNext == HandleCommands
CommandsSpec == CommandsInit /\ [][CommandsNext]_commandVars

(***************************************************************************)
(* Properties                                                              *)
(***************************************************************************)
\* The server parses a line by walking from a node to a child, or to a child of the node
\* it redirects to.
Target(n) == IF tree[n].redirect = NoRedirect THEN n ELSE tree[n].redirect
Passed(walk) == FlattenSeq([i \in DOMAIN walk |->
                    IF Target(walk[i]) = walk[i] THEN <<walk[i]>> ELSE <<walk[i], Target(walk[i])>>])
Once(walk) == \A i, j \in DOMAIN Passed(walk) : i # j => Passed(walk)[i] # Passed(walk)[j]
RECURSIVE Walks(_)
Walks(walks) ==
    LET longer == {Append(w[1], w[2]) :
                      w \in {<<walk, c>> \in walks \X DOMAIN tree :
                                /\ c \in ToSet(tree[Target(Last(walk))].children)
                                /\ Len(walk) <= MaxPathDepth}}
        next == {walk \in longer : Once(walk)}
    IN  IF next = {} THEN walks ELSE walks \cup Walks(next)

\* The lines from the literal n that the server runs, without that literal.
Lines(n) == {Tail(walk) : walk \in {w \in Walks({<<n>>}) : tree[Last(w)].executable}}
Names(line) == [i \in DOMAIN line |-> tree[line[i]].name]
NamesOf(overload) == [i \in DOMAIN overload |-> overload[i].name]
Admits(overload) == \A i \in DOMAIN overload :
                        overload[i].values # {} => overload[i].name \in overload[i].values
                                                   \/ overload[i].values = {"false", "true"}

\* The client has the server's commands under their names, and nothing else; under each
\* name one, whose overloads are lines the server runs, and all of them that pass no
\* node twice, up to the limit.  A literal is among the values its place offers.
CommandsAgree ==
    commands # <<>> /\ RootLiterals(tree) # {} =>
        /\ \A i \in DOMAIN commands :
              {commands[i].name} \cup commands[i].aliases \subseteq {tree[n].name : n \in RootLiterals(tree)}
        /\ \A n \in RootLiterals(tree) :
               LET own == {i \in DOMAIN commands :
                              tree[n].name = commands[i].name \/ tree[n].name \in commands[i].aliases}
                   lines == {Names(line) : line \in Lines(n)}
               IN  /\ Cardinality(own) = 1
                   /\ \A i \in own :
                         LET overloads == commands[i].overloads
                             offered == {NamesOf(o) : o \in ToSet(overloads)}
                         IN  /\ \A o \in ToSet(overloads) : Admits(o)
                             /\ IF lines = {} THEN offered = {<<>>}
                                ELSE /\ offered \subseteq lines
                                     /\ offered = lines \/ Len(overloads) = MaxOverloads
=============================================================================
