--------------------------- MODULE MCInterviewSetup ---------------------------
(* Three questions of the bank, of which one fits the round, a claim of the  *)
(* resume and two templates.  A plan of three questions for a practice task, *)
(* with weights that do not sum to one and a source that cannot fill its     *)
(* places; one whose only source is due three places, of which rounding      *)
(* takes one; and one of a single question that would take too long.         *)
EXTENDS InterviewSetup

MCQuestions ==
    {[key |-> 1, source |-> "manual", used |-> 0, suggestions |-> 0,
      companies |-> {"other"}, rounds |-> {}],
     [key |-> 2, source |-> "manual", used |-> 3, suggestions |-> 5,
      companies |-> {}, rounds |-> {<<"acme", "first">>}],
     [key |-> 3, source |-> "manual", used |-> 1, suggestions |-> 1,
      companies |-> {"other"}, rounds |-> {}]}
MCClaims == {11}
MCTemplates == {21, 22}

Weights(manual, resumeWeight, generated) ==
    [s \in SourceSet |-> CASE s = "manual" -> manual [] s = "resume" -> resumeWeight
                            [] s = "generated" -> generated [] OTHER -> 0]
MCPlanConfigs ==
    {[target |-> 3, weights |-> Weights(30, 50, 0), seconds |-> 600,
      resume |-> TRUE, task |-> TRUE],
     [target |-> 3, weights |-> Weights(35, 0, 0), seconds |-> 600,
      resume |-> TRUE, task |-> TRUE],
     [target |-> 1, weights |-> Weights(30, 50, 0), seconds |-> 7260,
      resume |-> TRUE, task |-> TRUE]}
==============================================================================
