----------------------------- MODULE MCCommands -----------------------------
(* Small command trees for TLC: two commands and two nodes below them. *)
EXTENDS Commands

Literal(name, executable, redirect, children) ==
    [kind |-> "literal", name |-> name, executable |-> executable, redirect |-> redirect,
     children |-> children, parser |-> ""]
Argument(name, executable, redirect, children, parser) ==
    [Literal(name, executable, redirect, children) EXCEPT !.kind = "argument", !.parser = parser]

\* Below the commands 1 and 2 are 3 and 4, 4 also below 3.  A node with a redirect has no
\* children, its target no redirect, and it runs by itself if its target does.
Below == {<<>>, <<3>>, <<4>>, <<3, 4>>}
MCTrees ==
    {t \in {[n \in 0..4 |->
               CASE n = 0 -> [Literal("", FALSE, -1, <<1, 2>>) EXCEPT !.kind = "root"]
                 [] n = 1 -> Literal("one", runs[1], to[1], IF to[1] = -1 THEN below[1] ELSE <<>>)
                 [] n = 2 -> Literal("two", runs[2], to[2], IF to[2] = -1 THEN below[2] ELSE <<>>)
                 [] n = 3 -> Argument("flag", runs[3], to[3], IF to[3] = -1 THEN below[3] ELSE <<>>, "bool")
                 [] n = 4 -> Literal("four", runs[4], to[4], <<>>)] :
               runs \in [1..4 -> BOOLEAN], to \in [1..4 -> {-1, 0, 1, 3}],
               below \in Below \X Below \X {<<>>, <<4>>}} :
        \A n \in 1..4 : t[n].redirect # -1 =>
            /\ t[n].redirect # n /\ t[t[n].redirect].redirect = -1
            /\ t[n].executable = t[t[n].redirect].executable}
=============================================================================
