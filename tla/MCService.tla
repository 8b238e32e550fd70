------------------------------- MODULE MCService -------------------------------
(* Instances of Service for TLC. *)
EXTENDS Service, TLC

CONSTANTS t1, t2, alice, bob, alices, r1, plan1

\* The modules that are served; the agent can use the conversation.
Agent == 4
Talk == 5
Planner == 6

Owners == alices :> alice

ReservedNames == "agent" :> Agent

Spec(name, module) == [namespace |-> name, module |-> module, valid |-> TRUE]

\* One namespace, and in it one intent.
Module(id, name, requires, optional) ==
  [id |-> id, valid |-> TRUE, requires |-> requires, optional |-> optional,
   owns |-> {name}, intents |-> {Spec(name, id)}, registers |-> <<name>>,
   resource |-> TRUE]

Deployed ==
  <<Module(Planner, "plan", {}, {}), Module(Talk, "talk", {}, {}),
    Module(Agent, "agent", {}, {Talk})>>

\* Every graph of three modules, each edge required or optional as the module
\* that has it is.
Graphs ==
  LET edges == [1 .. 3 -> SUBSET (1 .. 3)] IN
  {<<Module(3, "plan", e[3], {}), Module(1, "news", {}, e[1]), Module(2, "talk", e[2], {})>> :
     e \in {f \in edges : \A id \in 1 .. 3 : id \notin f[id]}}

\* Deployments with one thing that is wrong, or only looks so: the last four are
\* accepted.  A provider of the calendar is its default or not.
Mistakes ==
  LET planner == Module(Planner, "plan", {}, {})
      talk == Module(Talk, "talk", {}, {})
      signed(module) == Spec("plan", module)
      needs == Module(Talk, "talk", {Planner}, {Agent})
      other == [talk EXCEPT !.owns = {"talk", "plan"}]
      thief == [talk EXCEPT !.owns = {"agent"}, !.intents = {}]
      misnamed == [talk EXCEPT !.valid = FALSE]
      foreign == [talk EXCEPT !.intents = {signed(Talk)}]
      alien == [talk EXCEPT !.intents = {signed(Planner)}]
      invalid == [talk EXCEPT !.intents = {[Spec("talk", Talk) EXCEPT !.valid = FALSE]}]
      twice == [talk EXCEPT !.registers = <<"talk", "talk">>]
      same == [alien EXCEPT !.registers = <<"plan">>]
      feishu == [planner EXCEPT !.registers = <<"plan", "calendar/feishu", "calendar">>]
      again == [talk EXCEPT !.registers = <<"talk", "calendar/feishu">>]
      local == [talk EXCEPT !.registers = <<"talk", "calendar/local">>]
      default == [local EXCEPT !.registers = @ \o <<"calendar">>]
  IN {<<planner, planner>>, <<needs>>, <<planner, other>>, <<thief>>, <<misnamed>>,
      <<planner, foreign>>, <<alien>>, <<invalid>>, <<twice>>, <<planner, same>>,
      <<feishu, again>>, <<feishu, default>>,
      <<planner, needs>>, <<planner, alien>>, <<feishu, local>>, <<default>>}

Standard == {Deployed} \cup Graphs \cup Mistakes

Served == {Agent, Talk, Planner}
=============================================================================
