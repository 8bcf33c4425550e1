------------------------------- MODULE MCForms -------------------------------
(* Names of one and two words that begin alike, texts that name them in every way, *)
(* and items whose dates and descriptions the forms have to keep.                   *)
EXTENDS Forms

MCContexts == << <<"a">>, <<"a", " ", "b">> >>
MCProjects == << <<"b">> >>
MCTags     == << <<"a">> >>
MCPage     == <<"b">>
MCChars    == {"@", "#", "!", " ", "\"", "a", "b", "c"}
MCAlphabet == {"@", "a", "b", " ", "\""}
MCPhrases  == { <<"b">>,
                <<"@", "a", " ", "b", " ", "b">>,                  \* the longest name
                <<"@", "\"", "b", "\"", " ", "a", " ", "#", "b">>,  \* a new context, a project
                <<"a", " ", "#", "\"", "#", "b", " ", "\"", " ", "!", "\"", " ", "c", "\"">>,
                                                                    \* names to be stored bare
                <<"a", " ", "@", "\"", " ", "\"">> }                 \* a name of nothing
MCWords    == { <<"#", "a">> }
MCNewNames == { <<"#", "c">> }
MCLabels   == { <<"b">> }

Action(context, project, due, showFrom, words) ==
  [NoItem EXCEPT !.description = words, !.context = context, !.project = project,
                 !.due = due, !.showFrom = showFrom]
MCActions  == { Action(<<"a">>, None, 2, 1, <<"@", "a", " ", "b">>),
                Action(<<"a", " ", "b">>, <<"b">>, None, 1, <<"a", " ", " ", "b">>) }
Pattern_(days, start, end) ==
  [NoItem EXCEPT !.description = <<"b">>, !.context = <<"a">>, !.weekdays = days,
                 !.startFrom = start, !.endDate = end]
MCPatterns == { Pattern_({1}, None, 2), Pattern_({}, 1, None) }

ASSUME ListsArePlain == PlainNames
=============================================================================
