-------------------------- MODULE MCTurnExecution --------------------------
(* Instances of TurnExecution.  put changes something and is not declared  *)
(* replay-safe, look is, ask is ask_user_question.  Each run picks the     *)
(* answers of the model that lead to what it is about.                     *)
EXTENDS TurnExecution

CONSTANTS api, host, host2, look, put, ask

ApiAlone   == {api}
ApiAndHost == {api, host}
TwoHosts   == {api, host, host2}

MCKind == {"message", "reasoning_delta", "delta", "tool_request",
           "tool_result", "tool_approval_required"}
MCRef  == ExecId \cup {NoRef}

Text(t)     == [text |-> TRUE, calls |-> t]
Tools(t)    == [text |-> FALSE, calls |-> t]
Batches     == {Text(<<>>), Tools(<<put, look>>), Tools(<<look, put>>), Tools(<<ask>>)}
WriteOnly   == {Text(<<>>), Tools(<<put>>)}
AskOnly     == {Text(<<>>), Tools(<<ask>>)}
=============================================================================
