------------------------------ MODULE MCEvaluator ------------------------------
(* Two calls, one of them a nested workflow.                                  *)
EXTENDS Evaluator

CONSTANTS agent, workflow

MCCalls == {agent, workflow}
MCNested == {workflow}
===============================================================================
