---------------------------- MODULE MCTaskSuites ----------------------------
(* Two coding tasks, listed in another order than their names have, and one *)
(* agentic task.                                                            *)
EXTENDS SuiteLoad

MCExtraSuites == <<"agentic">>
MCTaskOrder == [agentic |-> <<"plan">>, coding |-> <<"search", "limiter">>]
MCDirOrder == <<"agentic", "coding">>
MCNameOrder == [agentic |-> <<"plan">>, coding |-> <<"limiter", "search">>]

Version(prompt, grader, kind) == [prompt |-> prompt, grader |-> grader, kind |-> kind]

MCVersions == {Version(1, 1, "sound"), Version(1, 2, "unsound"),
               Version(2, 1, "unsolved"), Version(1, 1, "invalid")}
MCDefinitionEdits == {<<"search", Version(1, 2, "unsound")>>, <<"search", Version(2, 1, "unsolved")>>,
                      <<"search", None>>, <<"limiter", Version(1, 1, "invalid")>>,
                      <<"plan", Version(1, 1, "invalid")>>}
MCFileEdits == {<<<<"coding", Manifest>>, ManifestFile("agentic")>>,
                <<<<"coding", ByHand>>, TaskFile("search", Version(1, 1, "sound"))>>,
                <<<<"agentic", "plan">>, Absent>>}

MCWanted == {None,                \* validate, suites, /api/suites
             "coding"}
MCSelections == {<<None, None>>, <<"search", 2>>, <<None, -1>>}
=============================================================================
