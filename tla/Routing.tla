------------------------------- MODULE Routing -------------------------------
(***************************************************************************)
(* How a Run that names capabilities finds its agent: internal/router and  *)
(* internal/discovery.  Agents are numbers, ordered as their identifiers.  *)
(***************************************************************************)
EXTENDS Integers, Sequences, Functions

CONSTANTS
  Agent,     \* the agents that may be registered
  Profile    \* Profile[a]: capabilities, maxConcurrency, priority and createdAt

ASSUME AgentAssumption ==
  /\ Agent \subseteq Nat \ {0}
  /\ \A a \in Agent : /\ Profile[a].maxConcurrency \in Nat
                      /\ Profile[a].priority \in Int
                      /\ Profile[a].createdAt \in Nat

\* Repetitions are dropped, the order is kept.
NormalizeRequirements(required) ==
  LET kept[n \in 0..Len(required)] ==
        IF n = 0 THEN <<>>
        ELSE IF required[n] \in Range(kept[n - 1]) THEN kept[n - 1]
        ELSE Append(kept[n - 1], required[n])
  IN kept[Len(required)]

matchingAll(S, required) == {a \in S : Range(required) \subseteq Profile[a].capabilities}

\* The registered agents of a health tier with the first capability.
Search(registered, health, capability, tier) ==
  {a \in registered : capability \in Profile[a].capabilities /\ health[a] = tier}

EffectiveCapacity(a) == IF Profile[a].maxConcurrency = 0 THEN 1 ELSE Profile[a].maxConcurrency

\* The order of rankAvailable: utilization by cross-multiplication, priority,
\* remaining slots, age, identifier.
RanksBefore(a, b, load) ==
  LET used == load[a] * EffectiveCapacity(b) - load[b] * EffectiveCapacity(a)
      priority == Profile[b].priority - Profile[a].priority
      slots == (EffectiveCapacity(b) - load[b]) - (EffectiveCapacity(a) - load[a])
      age == Profile[a].createdAt - Profile[b].createdAt
      keys == <<used, priority, slots, age, a - b>>
  IN \E k \in DOMAIN keys : keys[k] < 0 /\ \A j \in 1..(k - 1) : keys[j] = 0

Available(S, load) == {a \in S : load[a] < EffectiveCapacity(a)}

\* The agent that rankAvailable puts first, if any is available.
FirstRanked(S, load) ==
  {a \in Available(S, load) : \A b \in Available(S, load) \ {a} : RanksBefore(a, b, load)}
=============================================================================
