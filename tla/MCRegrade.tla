----------------------------- MODULE MCRegrade -----------------------------
(* Instances of Regrade.  One attempt with any reply of up to three markers   *)
(* and blocks, at either of two tasks, the others without a reply; or few     *)
(* replies to two attempts, of two models, of two tasks, or of one model      *)
(* repeated.                                                                  *)
EXTENDS Regrade

SourceOf == [whole    |-> [size |-> 3, defs |-> {"f", "g"}, imports |-> TRUE, parses |-> TRUE],
             fragment |-> [size |-> 1, defs |-> {"f"}, imports |-> FALSE, parses |-> TRUE],
             broken   |-> [size |-> 2, defs |-> {}, imports |-> FALSE, parses |-> FALSE]]
\* The target of t2 has a name with "test" in it, as latest.py would.
TargetOf == [t1 |-> "main", t2 |-> "test_main"]
FixtureOf == [t1 |-> [main |-> SourceOf.whole], t2 |-> [test_main |-> SourceOf.whole]]
TestFiles == {"test_main"}

Markers == [kind : {"marker"}, path : {"main", "test_main"}, body : {"none"}]
Blocks == [kind : {"block"}, path : {"", "main", "test_main"}, body : DOMAIN SourceOf]
AllReplies == BoundedSeq(Markers \cup Blocks, 3)

Fence(path, body) == [kind |-> "block", path |-> path, body |-> body]
FewReplies == {<<>>, <<Fence("", "fragment")>>,
               <<Fence("", "fragment"), Fence("", "whole")>>}

AllPolicies == <<"strict", "largest_block", "concat_blocks", "splice">>

TwoModels == <<[task |-> "t1", model |-> "a"], [task |-> "t1", model |-> "b"],
               [task |-> "t2", model |-> "a"]>>
Repeated == <<[task |-> "t1", model |-> "a"], [task |-> "t1", model |-> "a"]>>

Few == [1 .. 2 -> FewReplies \cup {NoReply}]
FewOrAny == {<<one, two, NoReply>> : one \in FewReplies \cup {NoReply},
                                     two \in FewReplies \cup {NoReply}}
              \cup {<<one, NoReply, three>> : one \in FewReplies, three \in FewReplies}
              \cup {<<reply, NoReply, NoReply>> : reply \in AllReplies}
              \cup {<<NoReply, NoReply, reply>> : reply \in AllReplies}
=============================================================================
