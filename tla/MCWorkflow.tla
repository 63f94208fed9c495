------------------------------ MODULE MCWorkflow ------------------------------
(* Instances of the workflow manager for TLC. *)
EXTENDS WorkflowProperties, SequencesExt

CONSTANTS m1, m2

Symmetric == Permutations({m1, m2})

Agents == {"judge", "clerk"}
Replies == [judge |-> {"x", "y"}, clerk |-> {"x"}]
OneManager == {m1}
TwoManagers == {m1, m2}

Fixed(id, agent, dependsOn, condition) ==
  [id |-> id, agent |-> agent, dependsOn |-> dependsOn, condition |-> condition,
   input |-> "x", inputFrom |-> <<>>, aggregation |-> ""]

From(s, sources) ==
  [s EXCEPT !.input = "", !.inputFrom = sources,
            !.aggregation = IF Len(sources) = 1 THEN "" ELSE "json-array"]

Workflow(steps) == [input |-> "y", steps |-> steps]

If(source, operator, value) == [source |-> source, operator |-> operator, value |-> value]

\* Two parallel steps and a conditional join that is declared before one.
Join == Workflow(<<
  Fixed("a", "clerk", <<>>, NoCondition),
  From(Fixed("c", "clerk", <<"a", "b", "a">>, If("b", "equals", "x")), <<"b", "a", "workflow">>),
  Fixed("b", "judge", <<>>, NoCondition)>>)

\* A chain of skipped steps.
Skips == Workflow(<<
  Fixed("a", "clerk", <<>>, If("workflow", "contains", "x")),
  Fixed("b", "clerk", <<"a">>, If("a", "not-contains", "")),
  From(Fixed("c", "clerk", <<"b">>, If("b", "not-equals", "x")), <<"b">>)>>)

Pair == Workflow(<<
  Fixed("a", "clerk", <<>>, NoCondition),
  Fixed("b", "judge", <<>>, NoCondition)>>)

Chain == Workflow(<<
  Fixed("a", "clerk", <<>>, NoCondition),
  From(Fixed("b", "clerk", <<"a">>, NoCondition), <<"a">>)>>)

Single == Workflow(<<Fixed("a", "clerk", <<>>, NoCondition)>>)

\* Every graph of dependencies between three steps; their agents are unknown,
\* so that they are validated and refused.
Ids == <<"a", "b", "c">>
Graphs ==
  {Workflow([i \in 1..3 |-> Fixed(Ids[i], "unknown", SetToSeq(edges[i]), NoCondition)]) :
     edges \in {e \in [1..3 -> SUBSET Range(Ids)] : \A i \in 1..3 : Ids[i] \notin e[i]}}

AllDefinitions == {Join, Skips} \union Graphs
PairAndChain == {Pair, Chain}
SingleOnly == {Single}
=============================================================================
