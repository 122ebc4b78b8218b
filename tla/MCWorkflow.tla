----------------------------- MODULE MCWorkflow -----------------------------
(* Graphs for Workflow. *)
EXTENDS Workflow

\* Lists of at most two names.
Lists(S) == {<<>>} \cup {<<x>> : x \in S} \cup {<<x, y>> : x, y \in S}

Nothing  == [n \in Names |-> {}]
NoAlias  == [n \in Names |-> Empty]
NoDeps   == [n \in Names |-> <<>>]

\* A graph without files, for one call of Run.
Bare(steps, deps, alias, defaults, ts) ==
    [steps |-> steps, deps |-> deps, alias |-> alias, defaults |-> defaults, asked |-> {ts},
     inputs |-> Nothing, outputs |-> Nothing, phony |-> {}, idle |-> Names,
     sources |-> {}, built |-> {}, runs |-> 1, edits |-> 0]

\* Every graph on three steps.
ThreeSteps ==
    {Bare(<<"a", "b", "c">>, [n \in Names |-> IF n = "d" THEN <<>> ELSE d[n]], NoAlias, <<"b">>, t) :
        d \in [{"a", "b", "c"} -> Lists({"a", "b", "c"})], t \in {<<>>, <<"a", "b">>}}

\* Two steps, and two names that are aliases of a step, of each other, of
\* themselves, or unknown.
Aliases ==
    {Bare(<<"a", "b">>, [NoDeps EXCEPT !["a"] = x, !["b"] = y],
          [NoAlias EXCEPT !["c"] = z[1], !["d"] = z[2]], <<>>, t) :
        x \in Lists(Names), y \in {<<>>} \cup {<<n>> : n \in Names},
        z \in (Names \cup {Empty}) \X (Names \cup {Empty}), t \in {<<"a">>, <<"c", "b">>}}

\* Lists of steps that closure refuses, and no target at all.
Refused ==
    {Bare(s, NoDeps, NoAlias, <<>>, t) :
        s \in {<<"a", Empty>>, <<"a", "b", "a">>, <<Empty, "a", "a">>, <<"a", "a", Empty>>, <<"a">>},
        t \in {<<>>, <<"a">>}}

\* Two sources; a generator a with two outputs; an object b made from one of them
\* and from the other source; a step c that has an output and no tasks; a phony
\* step d that runs every time.  Runs of everything or of the generator.
Build ==
    [steps |-> <<"a", "b", "c", "d">>, deps |-> [NoDeps EXCEPT !["b"] = <<"a">>, !["c"] = <<"b">>, !["d"] = <<"c">>],
     alias |-> NoAlias, defaults |-> <<"d">>, asked |-> {<<>>, <<"a">>},
     inputs |-> [Nothing EXCEPT !["a"] = {"x"}, !["b"] = {"h", "y"}, !["c"] = {"o"}],
     outputs |-> [Nothing EXCEPT !["a"] = {"h", "t"}, !["b"] = {"o"}, !["c"] = {"all"}],
     phony |-> {"d"}, idle |-> {"c"}, sources |-> {"x", "y"}, built |-> {}, runs |-> 3, edits |-> 2]

\* A step b that depends on a by an alias of it, and reads none of its outputs.
Aliased ==
    [steps |-> <<"a", "b">>, deps |-> [NoDeps EXCEPT !["b"] = <<"c">>],
     alias |-> [NoAlias EXCEPT !["c"] = "a"], defaults |-> <<"b">>, asked |-> {<<>>},
     inputs |-> [Nothing EXCEPT !["a"] = {"x"}, !["b"] = {"y"}],
     outputs |-> [Nothing EXCEPT !["a"] = {"h"}, !["b"] = {"o"}],
     phony |-> {}, idle |-> {}, sources |-> {"x", "y"}, built |-> {}, runs |-> 2, edits |-> 1]

\* A step b with the phony step a among its inputs, and a step c whose header is
\* there already and has a rule d without a recipe.
Unmade ==
    [steps |-> <<"a", "b", "c", "d">>, deps |-> [NoDeps EXCEPT !["b"] = <<"a">>, !["c"] = <<"d">>],
     alias |-> NoAlias, defaults |-> <<"b", "c">>, asked |-> {<<>>},
     inputs |-> [Nothing EXCEPT !["b"] = {"a"}, !["c"] = {"k"}],
     outputs |-> [Nothing EXCEPT !["b"] = {"o"}, !["c"] = {"q"}, !["d"] = {"k"}],
     phony |-> {"a"}, idle |-> {"a", "d"}, sources |-> {"k"}, built |-> {}, runs |-> 2, edits |-> 1]

\* make's graph for a makefile mk with a rule a for itself: the makefile is an input
\* of every step, and of the two steps that it is there for only d depends on a.
Makefile ==
    [steps |-> <<"a", "b", "d">>, deps |-> [NoDeps EXCEPT !["d"] = <<"a">>],
     alias |-> NoAlias, defaults |-> <<"a", "b", "d">>, asked |-> {<<>>, <<"b">>},
     inputs |-> [Nothing EXCEPT !["a"] = {"in", "mk"}, !["b"] = {"x", "mk"}, !["d"] = {"x", "mk"}],
     outputs |-> [Nothing EXCEPT !["a"] = {"mk"}, !["b"] = {"prog"}, !["d"] = {"lib"}],
     phony |-> {}, idle |-> {}, sources |-> {"in", "x"}, built |-> {"a"}, runs |-> 2, edits |-> 1]

AllGraphs == ThreeSteps \cup Aliases \cup Refused \cup {Build, Aliased, Unmade, Makefile}
=============================================================================
