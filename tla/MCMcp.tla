------------------------------- MODULE MCMcp -------------------------------
EXTENDS McpServers

MCFileOf == [p |-> 1, q |-> 1]
MCServers == {"p", "q"}
MCOps ==
    {[op |-> "approve", name |-> "p"], [op |-> "approve", name |-> "q"], [op |-> "revoke", name |-> "q"]}
        \cup [op : {"scan", "install", "wrap"}, name : {"none"}]
=============================================================================
