------------------------------- MODULE MCAssistant -------------------------------
(* Assistant for TLC: a record of each kind the intents tell apart, and questions
   with one cue, with several, about the person, and about nothing known. *)
EXTENDS Assistant
MCKind == <<"safety", "model", "cell", "shelter", "alert">>
MCWords == <<{"flood", "move"}, {"flood", "score"}, {"flood", "zone"}, {"zone", "space"},
             {"flood", "river"}>>
MCQuestions == {[cues |-> {"guidance"}, words |-> {"flood"}],
                [cues |-> {"guidance"}, words |-> {"score", "tide"}],
                [cues |-> {"latest", "guidance"}, words |-> {"zone", "river"}],
                [cues |-> {"personal", "latest"}, words |-> {"zone"}],
                [cues |-> {}, words |-> {"tide"}],
                [cues |-> {}, words |-> {"flood"}]}
MCWeight(w) == IF w = "flood" THEN 1 ELSE 2
MCBm25 == [q \in MCQuestions |-> [r \in 1..5 |->
             MapThenSumSet(MCWeight, q.words \intersect MCWords[r])]]
MCBoost == [i \in Known |-> [k \in Kinds |->
  IF i = "guidance" /\ k = "safety" THEN 22 ELSE IF i = "latest" /\ k = "alert" THEN 17 ELSE 10]]
MCExclude == [i \in Known |-> IF i \in {"guidance", "latest"} THEN {"model"} ELSE {}]
================================================================================
