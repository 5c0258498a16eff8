--------------------------- MODULE MCProxyConfig ---------------------------
EXTENDS ProxyConfig

\* The lists are read when the loop goes round and by Generate, so a change at
\* any other time can as well happen just before one of the two.
ManageWhenRead == mpc \in {"boot", "configure"} /\ inc < MaxInc /\ Manage

MCNext == Begin \/ Generate \/ Restart \/ RestartFails \/ Undo \/ Elsewhere \/ ManageWhenRead

MCSpec == ConfigInit /\ [][MCNext]_allVars

\* The daemon reads only which domains are on an active list; blocking and
\* disabling make every such set without a list that comes or goes.
ListsStay == DOMAIN policy' = DOMAIN policy

=============================================================================
