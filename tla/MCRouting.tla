------------------------------ MODULE MCRouting ------------------------------
EXTENDS Routing

CONSTANTS anthropic, openai, deepseek

Boundaries == {0, 59, 60, 74, 75, 89, 90, 120}

\* Each provider at either side of each boundary while the others are at most
\* just below yellow.
MCPressures ==
  {[p \in {anthropic, openai, deepseek} |-> IF p = pressed THEN high ELSE low] :
     pressed \in {anthropic, openai, deepseek}, high \in Boundaries, low \in {0, 59}}
=============================================================================
