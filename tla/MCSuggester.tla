---------------------------- MODULE MCSuggester ----------------------------
EXTENDS Suggester

CONSTANTS k1, k2, r1

\* Two targets of one rule.
MCRuleOf == [k \in Keys |-> r1]
=============================================================================
