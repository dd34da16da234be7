---------------------------- MODULE MCSliCleanup ----------------------------
(* Instances of SliCleanup small enough for TLC: two environments of which  *)
(* one's name begins with the other's.                                      *)
EXTENDS SliCleanup

MCEnvName == <<"dev">>

MCGroups == {[env |-> <<"dev">>, token |-> "ab12"],
             [env |-> <<"dev", "eu">>, token |-> "cd34"]}

MCFull == [confirm |-> "yes", dry_run |-> FALSE, group_id |-> None,
           resource_group |-> "own", fix_sli_void |-> TRUE, fix_base_void |-> TRUE]

(* Every setting left out or changed, alone; and a setting that names a     *)
(* Service Group, this environment's or the other's.                        *)
MCSettings ==
  {MCFull,
   [MCFull EXCEPT !.confirm = "skip"], [MCFull EXCEPT !.confirm = "no"],
   [MCFull EXCEPT !.dry_run = TRUE],
   [MCFull EXCEPT !.resource_group = "foreign"],
   [MCFull EXCEPT !.fix_sli_void = FALSE], [MCFull EXCEPT !.fix_base_void = FALSE]}
  \cup {[MCFull EXCEPT !.group_id = g] : g \in MCGroups}

MCOwnSettings == {MCFull}
=============================================================================
