--------------------------- MODULE MCParsePipeline ---------------------------
(* Inputs for the model checker: small files as the readers deliver them.  *)
EXTENDS ParsePipeline

\* one example for each call of the reader: text, or a cache
Text(kinds) == [i \in DOMAIN kinds |-> <<kinds[i]>>]

NoLimit == 100

SingleSources ==
  { Text(<<"learn", "learn", "save", "learn">>),
    Text(<<"learn", "newline", "learn">>),
    << <<"learn", "learn", "learn">>, <<"learn">> >>,
    <<>> }

\* text with and without a final newline, and JSON
MultiSources ==
  { Text(<<"learn", "learn", "newline", "learn">>),
    Text(<<"newline", "learn", "newline">>),
    << <<"learn", "learn", "newline">>, <<"learn", "newline">> >> }

\* a save command between two groups and inside one
SaveSources ==
  { Text(<<"learn", "newline", "save", "learn", "newline">>),
    Text(<<"learn", "save", "learn", "newline">>) }

\* clients that end their last group
ClientSources ==
  { Text(<<"learn", "newline", "learn", "newline">>),
    << <<"learn", "learn", "newline">> >> }

\* a client that does not
OpenClientSources == { Text(<<"learn">>) }

StopSources == { Text(<<"learn", "learn", "learn">>), Text(<<"learn", "save", "learn">>) }

TextSources == { Text(<<"learn", "learn", "learn">>), Text(<<"learn">>) }

LongSources == { Text(<<"learn", "learn", "newline", "learn", "learn">>), Text(<<"learn">>) }

FourLines == { Text(<<"learn", "learn", "learn", "learn">>) }

-----------------------------------------------------------------------------
(* Two passes over the sources, without limits, failures or early stops;   *)
(* the other scenarios say in what they differ.                            *)
Scenario(sources, multiline) ==
  [ sources |-> sources, multiline |-> multiline, example_queue_limit |-> 2, passes |-> 2,
    pass_length |-> NoLimit, max_examples |-> NoLimit, daemon |-> FALSE, cache |-> TRUE,
    stop_at |-> {}, faults |-> {} ]

OnePass(scenario) == [scenario EXCEPT !.passes = 1, !.cache = FALSE]

Plain == { Scenario(SingleSources, FALSE), Scenario(MultiSources, TRUE) }

\* the pool is so large that no object is reused at once
Saves == { [OnePass(Scenario(SaveSources, TRUE)) EXCEPT !.example_queue_limit = 6] }

Stops == { [Scenario(StopSources, FALSE) EXCEPT !.stop_at = {"learn", "end_pass"}],
           [Scenario(MultiSources, TRUE) EXCEPT !.stop_at = {"end_pass"}] }

Failing == { [Scenario(MultiSources, TRUE) EXCEPT !.faults = {"reader", "setup", "reset"}] }

\* the learner throws while the rest of the input fits into the queue
LearnerFails == { [OnePass(Scenario(TextSources, FALSE)) EXCEPT
                     !.example_queue_limit = 4, !.faults = {"learn"}] }

\* three connections
Clients == { [Scenario(ClientSources, TRUE) EXCEPT
                !.passes = 3, !.cache = FALSE, !.daemon = TRUE] }

Limits == { [Scenario(LongSources, FALSE) EXCEPT !.max_examples = 2],
            [OnePass(Scenario(LongSources, FALSE)) EXCEPT !.pass_length = 1] }

AllScenarios ==
  Plain \union Saves \union Stops \union Failing \union LearnerFails \union Clients \union Limits

\* the scenarios in which the code does not keep its word
SaveReuse  == { [OnePass(Scenario(SaveSources, TRUE)) EXCEPT !.example_queue_limit = 1] }
Unwind     == { [OnePass(Scenario(FourLines, FALSE)) EXCEPT !.faults = {"learn"}] }
OpenClient == { [Scenario(OpenClientSources, TRUE) EXCEPT !.cache = FALSE, !.daemon = TRUE] }
=============================================================================
