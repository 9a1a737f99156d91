----------------------------- MODULE MCCatalog -----------------------------
EXTENDS Catalog

CONSTANTS c1, c2

Term(k, o, v) == [key |-> k, operator |-> o, value |-> v]
Running == {Term("state", "=", "running")}
Role == {Term("role", "exists", "running")}
NotX == {Term("role", "!=", "x")}
NoRole == {Term("role", "not-exists", "x")}
MCSelectors == {{}, Running, Role, NotX, NoRole}

Set(k, v) == [op |-> "set", name |-> "n", labels |-> [NoLabels EXCEPT ![k] = v]]
MCAsked ==
    {Set("role", "x"), Set("state", "running"),
     [op |-> "unset", name |-> "n", keys |-> {"role"}],
     [op |-> "save", view |-> "v", selector |-> Running, force |-> FALSE],
     [op |-> "save", view |-> "v", selector |-> NoRole, force |-> TRUE],
     [op |-> "delete", view |-> "v"]}
MCQueried ==
    {[names |-> {}, selector |-> Role, view |-> Nil, tolerant |-> TRUE],
     [names |-> {"n"}, selector |-> NotX, view |-> "v", tolerant |-> FALSE]}
=============================================================================
