------------------------- MODULE MCCollectionCycle -------------------------
(* Two health checks, with different intervals or sharing a name, and a    *)
(* reload that names the instance anew and leaves its account to IMDS.     *)
EXTENDS CollectionCycle

Check(n, i) == [name |-> n, interval |-> i]

CheckListsHere == {<<Check("api", 1), Check("db", 2)>>, <<Check("api", 2), Check("api", 2)>>}

ConfigsHere ==
    {[instance_name |-> "web", aws_account_id |-> "own"], [instance_name |-> "db", aws_account_id |-> ""]}
=============================================================================
