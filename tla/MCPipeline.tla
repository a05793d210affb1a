------------------------------ MODULE MCPipeline -----------------------------
(* Instances of Pipeline: documents of two steps with all mistakes, and of   *)
(* three named steps with all shapes of the graph.                           *)
EXTENDS Pipeline

Line(key, val) == [key |-> key, val |-> val]

Lines(st) == <<Line("item", st.id), Line("role", "r"), Line("task", st.task), Line("depends_on", st.deps)>>
Text(p) == <<Line("name", "p")>> \o FlattenSeq([i \in DOMAIN p |-> Lines(p[i])])

Step(id, task, deps) == [id |-> id, task |-> task, deps |-> deps]

Pairs == {<<Step(i, t, d), Step(j, TRUE, e)>> :
            i \in 0..2, j \in 1..2, t \in BOOLEAN,
            d \in {<< >>, <<2>>, <<0, 2, 2>>}, e \in {<< >>, <<1>>, <<3>>, <<2>>}}

Triples == {[i \in 1..3 |-> Step(ids[i], TRUE, deps[i])] :
              ids \in {<<1, 2, 3>>, <<3, 1, 2>>, <<2, 3, 1>>},
              deps \in [1..3 -> {<< >>, <<1>>, <<2>>, <<3>>, <<2, 1>>, <<3, 3>>}]}

\* The id on a line of its own, or what comes before any step.
Odd == {<<Line("item", 0), Line("id", 1), Line("task", TRUE)>>,
        <<Line("task", TRUE), Line("id", 1), Line("depends_on", <<1>>), Line("item", 1), Line("task", TRUE)>>,
        <<Line("name", "p")>>,
        << >>}

MCDocuments == {Text(p) : p \in Pairs \cup Triples} \cup Odd
===============================================================================
